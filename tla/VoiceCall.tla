------------------------------- MODULE VoiceCall -------------------------------
(***************************************************************************)
(* A voice call: the controlling client asks, the connection on the        *)
(* controlled side passes the request to the connection manager, whose     *)
(* user accepts, dismisses or later stops the call.  Either user may end   *)
(* it at any moment, so that requests, answers and closings cross.  All    *)
(* four channels are queues.                                               *)
(***************************************************************************)
EXTENDS Naturals, Sequences, FiniteSets

CONSTANTS ViewCamera,   \* a view-camera connection (a remote one otherwise)
          MaxRequests, MaxChan

VARIABLES cl,     \* client: its pending request, recorders that run, the current one, device and status
          cn,     \* connection: its pending request, calling, sound subscribed, sound enabled, device
          cm,     \* connection manager: what it shows
          up, down, toCm, fromCm,
          asked,  \* requests made
          crossed \* history: the client gave up before it was answered, or asked during a call or
                  \* while something of the one before was still under way

vars == <<cl, cn, cm, up, down, toCm, fromCm, asked, crossed>>

Rest == up = <<>> /\ down = <<>> /\ toCm = <<>> /\ fromCm = <<>>

\* MaxChan bounds what the two users may leave unhandled on the way to each other.
PeerRoom == Len(up) + Len(toCm) < MaxChan
CmRoom == Len(fromCm) + Len(down) < MaxChan /\ Len(fromCm) + Len(toCm) < MaxChan

Init ==
    /\ cl = [ts |-> 0, rec |-> {}, cur |-> 0, device |-> FALSE, status |-> "notStarted"]
    /\ \E e \in BOOLEAN : cn = [ts |-> 0, calling |-> FALSE, audio |-> ~ViewCamera /\ e, enabled |-> e, device |-> FALSE]
    /\ cm = [incoming |-> FALSE, calling |-> FALSE]
    /\ up = <<>> /\ down = <<>> /\ toCm = <<>> /\ fromCm = <<>> /\ asked = 0 /\ crossed = FALSE

Request(t) == [connect |-> TRUE, ts |-> t]
Closed == [connect |-> FALSE, ts |-> 0]
-----------------------------------------------------------------------------
(* The client. *)

NewVoiceCall ==
    /\ asked < MaxRequests /\ PeerRoom
    /\ asked' = asked + 1
    /\ crossed' = (crossed \/ cl.ts # 0 \/ cl.cur # 0 \/ ~Rest)
    /\ cl' = [cl EXCEPT !.ts = asked + 1, !.status = "waiting"]
    /\ up' = Append(up, Request(asked + 1))
    /\ UNCHANGED <<cn, cm, down, toCm, fromCm>>

\* The pending request is kept.
CloseVoiceCall ==
    /\ cl.status # "notStarted" /\ PeerRoom
    /\ crossed' = (crossed \/ cl.ts # 0)
    /\ cl' = [cl EXCEPT !.cur = 0, !.status = "notStarted"]
    /\ up' = Append(up, Closed)
    /\ UNCHANGED <<cn, cm, down, toCm, fromCm, asked>>

\* Mutant: a recorder ends although it was not told to.
RecorderExits_any(i) ==
    /\ i \in cl.rec
    /\ cl' = [cl EXCEPT !.rec = @ \ {i}, !.device = FALSE]
    /\ UNCHANGED <<cn, cm, up, down, toCm, fromCm, asked, crossed>>

\* A recorder that was told to stop, or whose sender was dropped, ends.
RecorderExits(i) ==
    /\ i \in cl.rec /\ i # cl.cur
    /\ cl' = [cl EXCEPT !.rec = @ \ {i}, !.device = FALSE]
    /\ UNCHANGED <<cn, cm, up, down, toCm, fromCm, asked, crossed>>

start_voice_call(t) == [cl EXCEPT !.ts = 0, !.rec = @ \cup {t}, !.cur = t, !.device = TRUE, !.status = "connected"]

OnVoiceCallResponse ==
    /\ down # <<>> /\ Head(down).type = "response" /\ down' = Tail(down)
    /\ cl' = IF cl.ts = 0 \/ cl.ts # Head(down).ts THEN [cl EXCEPT !.ts = 0]
             ELSE IF Head(down).accepted THEN start_voice_call(cl.ts)
             ELSE [cl EXCEPT !.ts = 0, !.status = "notStarted"]
    /\ UNCHANGED <<cn, cm, up, toCm, fromCm, asked, crossed>>

OnVoiceCallClosed ==
    /\ down # <<>> /\ Head(down).type = "close" /\ down' = Tail(down)
    /\ cl' = IF cl.cur = 0 THEN cl ELSE [cl EXCEPT !.cur = 0, !.status = "notStarted"]
    /\ UNCHANGED <<cn, cm, up, toCm, fromCm, asked, crossed>>
-----------------------------------------------------------------------------
(* The connection. *)

OnVoiceCallRequest ==
    /\ up # <<>> /\ Head(up).connect /\ up' = Tail(up)
    /\ cn' = [cn EXCEPT !.ts = Head(up).ts]
    /\ toCm' = Append(toCm, "incoming")
    /\ UNCHANGED <<cl, cm, down, fromCm, asked, crossed>>

\* Mutant: the sound of a view-camera connection stays subscribed.
close_voice_call_only == cn' = [cn EXCEPT !.calling = FALSE, !.device = FALSE] /\ toCm' = Append(toCm, "closed")

\* Mutant: the connection manager is not told.
close_voice_call_untold ==
    cn' = [cn EXCEPT !.calling = FALSE, !.device = FALSE, !.audio = @ /\ ~ViewCamera] /\ UNCHANGED toCm

\* Mutant: the input device of the call is kept.
close_voice_call_keeps_device ==
    cn' = [cn EXCEPT !.calling = FALSE, !.audio = @ /\ ~ViewCamera] /\ toCm' = Append(toCm, "closed")

close_voice_call ==
    /\ cn' = [cn EXCEPT !.calling = FALSE, !.device = FALSE, !.audio = @ /\ ~ViewCamera]
    /\ toCm' = Append(toCm, "closed")

PeerCloses ==
    /\ up # <<>> /\ ~Head(up).connect /\ up' = Tail(up)
    /\ close_voice_call
    /\ UNCHANGED <<cl, cm, down, fromCm, asked, crossed>>

CmCloses ==
    /\ fromCm # <<>> /\ Head(fromCm) = "close" /\ fromCm' = Tail(fromCm)
    /\ close_voice_call
    /\ down' = Append(down, [type |-> "close"])
    /\ UNCHANGED <<cl, cm, up, asked, crossed>>

\* Mutant: the connection manager is not told that the call has started.
handle_voice_call_silent ==
    /\ fromCm # <<>> /\ Head(fromCm) # "close" /\ fromCm' = Tail(fromCm)
    /\ IF cn.ts = 0 THEN UNCHANGED <<cn, toCm, down>>
       ELSE LET accepted == Head(fromCm) = "accept" IN
            /\ down' = Append(down, [type |-> "response", ts |-> cn.ts, accepted |-> accepted])
            /\ toCm' = IF accepted THEN toCm ELSE Append(toCm, "closed")
            /\ cn' = [cn EXCEPT !.ts = 0, !.calling = accepted, !.device = @ \/ accepted,
                                !.audio = IF ViewCamera THEN cn.enabled /\ accepted ELSE @]
    /\ UNCHANGED <<cl, cm, up, asked, crossed>>

\* The answer of the connection manager counts only while a request is pending.
handle_voice_call ==
    /\ fromCm # <<>> /\ Head(fromCm) # "close" /\ fromCm' = Tail(fromCm)
    /\ IF cn.ts = 0 THEN UNCHANGED <<cn, toCm, down>>
       ELSE LET accepted == Head(fromCm) = "accept" IN
            /\ down' = Append(down, [type |-> "response", ts |-> cn.ts, accepted |-> accepted])
            /\ toCm' = Append(toCm, IF accepted THEN "started" ELSE "closed")
            /\ cn' = [cn EXCEPT !.ts = 0, !.calling = accepted, !.device = @ \/ accepted,
                                !.audio = IF ViewCamera THEN cn.enabled /\ accepted ELSE @]
    /\ UNCHANGED <<cl, cm, up, asked, crossed>>

\* The permission "audio", or the peer's option disable_audio, changes what audio_enabled says.
SwitchAudio(b) ==
    /\ cn' = [cn EXCEPT !.enabled = b, !.audio = IF ViewCamera /\ ~cn.calling /\ b THEN @ ELSE b]
    /\ UNCHANGED <<cl, cm, up, down, toCm, fromCm, asked, crossed>>
-----------------------------------------------------------------------------
(* The connection manager. *)

CmShows ==
    /\ toCm # <<>> /\ toCm' = Tail(toCm)
    /\ cm' = [incoming |-> Head(toCm) = "incoming", calling |-> Head(toCm) = "started"]
    /\ UNCHANGED <<cl, cn, up, down, fromCm, asked, crossed>>

handle_incoming_voice_call(answer) ==
    /\ cm.incoming /\ CmRoom
    /\ fromCm' = Append(fromCm, answer)
    /\ UNCHANGED <<cl, cn, cm, up, down, toCm, asked, crossed>>

CmStop ==
    /\ cm.calling /\ CmRoom
    /\ fromCm' = Append(fromCm, "close")
    /\ UNCHANGED <<cl, cn, cm, up, down, toCm, asked, crossed>>

Next ==
    \/ NewVoiceCall \/ CloseVoiceCall \/ OnVoiceCallResponse \/ OnVoiceCallClosed
    \/ \E i \in cl.rec : RecorderExits(i)
    \/ OnVoiceCallRequest \/ PeerCloses \/ CmCloses \/ handle_voice_call \/ \E b \in BOOLEAN : SwitchAudio(b)
    \/ CmShows \/ CmStop \/ \E a \in {"accept", "dismiss"} : handle_incoming_voice_call(a)

Spec == Init /\ [][Next]_vars
-----------------------------------------------------------------------------
\* Types; the current recorder is one that runs.
TypeOK ==
    /\ cl.ts \in 0..MaxRequests /\ cl.rec \subseteq 1..MaxRequests /\ cl.cur \in cl.rec \cup {0}
    /\ cl.status \in {"notStarted", "waiting", "connected"} /\ cl.device \in BOOLEAN
    /\ cn.ts \in 0..MaxRequests /\ {cn.calling, cn.audio, cn.enabled, cn.device} \subseteq BOOLEAN
    /\ ~(cm.incoming /\ cm.calling)

\* Once everything sent has been handled both sides agree whether a call is on and whether one is
\* waiting for an answer, as long as the client gives no request up before it is answered and asks
\* anew only once the call before is over on both sides: a request given up is still pending on both
\* sides, and an acceptance that is under way then starts the call on one of them only.
SidesAgree ==
    Rest /\ ~crossed =>
        /\ (cl.cur # 0) = cn.calling /\ cm.calling = cn.calling
        /\ (cl.status = "waiting") = cm.incoming
        /\ (cl.status = "connected") = cn.calling

\* Whatever crossed, the local user always has a button for what is on: a call is shown as running,
\* or a request is shown that can be dismissed.
LocalUserInControl ==
    toCm = <<>> => /\ cm.calling => cn.calling
                   /\ cn.calling => cm.calling \/ cm.incoming

\* A view-camera connection gets the sound exactly during a call for which sound is enabled; a
\* remote connection gets it whenever it is enabled.
SoundAsCalled == cn.audio = (cn.enabled /\ (ViewCamera => cn.calling))

\* The input device of the call is given back: on the controlled side with the call, on the
\* controlling side at the latest when the last recorder has ended.
DeviceReleased ==
    /\ ~crossed => cn.device = cn.calling
    /\ cl.device => cl.rec # {}
=============================================================================
