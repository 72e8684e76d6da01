------------------------------ MODULE GokeBridge ------------------------------
(***************************************************************************)
(* The GK6323 decoder bridge: GokeDecoder (src/goke-re/goke_nv21_client.rs)*)
(* in the video threads of the app, and the root daemon that owns the      *)
(* hardware decoder (src/goke-re/goke_daemon_v5_1800.c), connected by a    *)
(* Unix stream socket.                                                     *)
(*                                                                         *)
(* The daemon serves one connection at a time.  A session has two threads: *)
(* the reader, which feeds access units to the decoder, and drain_loop,    *)
(* which writes decoded frames back.  A decoder of the app has two as      *)
(* well: the video thread, which writes access units, and render_loop,     *)
(* which draws.  All four may block on the socket, and any of them may     *)
(* fail.                                                                   *)
(*                                                                         *)
(* An access unit and a frame are counted, not represented.  Decoders are  *)
(* numbered in the order the app creates them.                             *)
(***************************************************************************)
EXTENDS Integers, Sequences, SequencesExt

CONSTANTS
  Display,   \* displays shown by the app, one video thread each
  MaxDec,    \* bound: decoders created
  Backlog,   \* connections the listening socket queues
  SockBuf,   \* bound: units a socket holds in one direction
  HwBuf      \* bound: frames the hardware holds

ASSUME BridgeBounds ==
  /\ MaxDec \in Nat /\ Backlog \in Nat \ {0}
  /\ SockBuf \in Nat \ {0} /\ HwBuf \in Nat \ {0}

Dec == 1 .. MaxDec
NoDec == 0

VARIABLES
  \* the video threads of the app
  vt,       \* per display: [pc, cur (its decoder), new (the one being made)]
  created,  \* decoders created so far
  owner,    \* per decoder, the display it was created for
  render,   \* per decoder, its render_loop thread
  \* the socket
  queue,    \* connections waiting for accept
  listening,\* the daemon's listening socket exists
  sock,     \* per decoder: no connection, open, or shut down for both
  hello,    \* per decoder: the hello is in the socket
  up,       \* per decoder: access units in the socket
  down,     \* per decoder: frames in the socket
  \* the daemon
  running,  \* cleared by SIGTERM and SIGINT
  main,     \* where main and session are
  peer,     \* the connection being served
  acquired, \* AVPLAY: 1 created, 2 opened, 3 started
  mapped,   \* map_cache holds mappings
  stop,     \* Drain.stop
  drain,    \* where drain_loop is
  hw        \* frames the hardware decoder can deliver

appVars == <<vt, created, owner, render>>
sockVars == <<queue, listening, sock, hello, up, down>>
sessVars == <<peer, acquired, mapped, stop, drain, hw>>
vars == <<appVars, sockVars, running, main, sessVars>>

-----------------------------------------------------------------------------
(* The video thread of display t.  VideoHandler::reset assigns a new       *)
(* decoder: it is connected first, and only then is the old one dropped.   *)

At(t, l) == vt[t].pc = l

GokeNewConnect(t) ==
  /\ At(t, "run")
  /\ created < MaxDec
  /\ listening /\ Len(queue) < Backlog
  /\ created' = created + 1
  /\ owner' = [owner EXCEPT ![created'] = t]
  /\ queue' = Append(queue, created')
  /\ sock' = [sock EXCEPT ![created'] = "open"]
  /\ vt' = [vt EXCEPT ![t].pc = "hello", ![t].new = created']
  /\ UNCHANGED <<render, listening, hello, up, down, running, main, sessVars>>

(* No Surface, no daemon, or another codec: Decoder::new goes on without   *)
(* the bridge.  Also the end of the video thread.                          *)
GokeNewNone(t) ==
  /\ At(t, "run")
  /\ vt[t].cur # NoDec
  /\ vt' = [vt EXCEPT ![t].pc = "drop", ![t].new = NoDec]
  /\ UNCHANGED <<created, owner, render, sockVars, running, main, sessVars>>

GokeNewHello(t) ==
  LET d == vt[t].new IN
  /\ At(t, "hello")
  /\ IF sock[d] = "open"
     THEN /\ hello' = [hello EXCEPT ![d] = TRUE]
          /\ render' = [render EXCEPT ![d] = "run"]
          /\ vt' = [vt EXCEPT ![t].pc = "drop"]
     ELSE /\ vt' = [vt EXCEPT ![t].pc = "drop", ![t].new = NoDec]
          /\ UNCHANGED <<hello, render>>
  /\ UNCHANGED <<created, owner, queue, listening, sock, up, down,
                 running, main, sessVars>>

drop_without_join(t) ==
  LET d == vt[t].cur IN
  /\ At(t, "drop")
  /\ vt' = [vt EXCEPT ![t] = [pc |-> "run", cur |-> vt[t].new, new |-> NoDec]]
  /\ sock' = [x \in Dec |-> IF x = d THEN "shut" ELSE sock[x]]
  /\ UNCHANGED <<created, owner, render, queue, listening, hello, up, down,
                 running, main, sessVars>>

drop_forgotten(t) ==
  /\ At(t, "drop")
  /\ vt' = [vt EXCEPT ![t] = [pc |-> "run", cur |-> vt[t].new, new |-> NoDec]]
  /\ UNCHANGED <<created, owner, render, sockVars, running, main, sessVars>>

drop_without_shutdown(t) ==
  /\ At(t, "drop")
  /\ vt' = [vt EXCEPT ![t] =
              IF vt[t].cur = NoDec
              THEN [pc |-> "run", cur |-> vt[t].new, new |-> NoDec]
              ELSE [vt[t] EXCEPT !.pc = "join"]]
  /\ UNCHANGED <<created, owner, render, sockVars, running, main, sessVars>>

(* Drop for GokeDecoder: shut the socket down, then join the worker.       *)
GokeDrop(t) ==
  LET d == vt[t].cur IN
  /\ At(t, "drop")
  /\ vt' = [vt EXCEPT ![t] =
              IF d = NoDec
              THEN [pc |-> "run", cur |-> vt[t].new, new |-> NoDec]
              ELSE [vt[t] EXCEPT !.pc = "join"]]
  /\ sock' = [x \in Dec |-> IF x = d THEN "shut" ELSE sock[x]]
  /\ UNCHANGED <<created, owner, render, queue, listening, hello, up, down,
                 running, main, sessVars>>

GokeJoin(t) ==
  /\ At(t, "join")
  /\ render[vt[t].cur] = "dead"
  /\ vt' = [vt EXCEPT ![t] = [pc |-> "run", cur |-> vt[t].new, new |-> NoDec]]
  /\ UNCHANGED <<created, owner, render, sockVars, running, main, sessVars>>

(* decode: blocks while the socket is full, fails once it is shut.  A      *)
(* failed decoder is kept until VideoHandler replaces or drops it.         *)
GokeDecode(t) ==
  LET d == vt[t].cur IN
  /\ At(t, "run")
  /\ d # NoDec
  /\ sock[d] = "open" /\ up[d] < SockBuf
  /\ up' = [up EXCEPT ![d] = @ + 1]
  /\ UNCHANGED <<appVars, queue, listening, sock, hello, down,
                 running, main, sessVars>>

(* The write failed: after MAX_DECODE_FAIL_COUNTER of them the codec is    *)
(* marked unsupported and the next format's decoder replaces this one.     *)
GokeDecodeFails(t) ==
  /\ At(t, "run")
  /\ vt[t].cur # NoDec
  /\ sock[vt[t].cur] = "shut"
  /\ vt' = [vt EXCEPT ![t].pc = "drop", ![t].new = NoDec]
  /\ UNCHANGED <<created, owner, render, sockVars, running, main, sessVars>>

-----------------------------------------------------------------------------
(* render_loop of decoder d: buffered frames are still read after a        *)
(* shutdown; the Surface may fail at any frame.                            *)

RenderFrame(d) ==
  /\ render[d] = "run"
  /\ down[d] > 0
  /\ down' = [down EXCEPT ![d] = @ - 1]
  /\ render' \in {render, [render EXCEPT ![d] = "dead"]}
  /\ UNCHANGED <<vt, created, owner, queue, listening, sock, hello, up,
                 running, main, sessVars>>

RenderEof(d) ==
  /\ render[d] = "run"
  /\ down[d] = 0 /\ sock[d] = "shut"
  /\ render' = [render EXCEPT ![d] = "dead"]
  /\ UNCHANGED <<vt, created, owner, sockVars, running, main, sessVars>>

-----------------------------------------------------------------------------
(* The daemon: main.                                                       *)

(* close(sock) resets the connections nobody accepted.                     *)
StopListening ==
  /\ main' = "exit"
  /\ listening' = FALSE
  /\ sock' = [d \in Dec |-> IF d \in ToSet(queue) THEN "shut" ELSE sock[d]]
  /\ queue' = <<>>

MainLoop ==
  /\ main = "top"
  /\ IF running
     THEN main' = "accept" /\ UNCHANGED <<queue, listening, sock>>
     ELSE StopListening
  /\ UNCHANGED <<appVars, hello, up, down, running, sessVars>>

Accept ==
  /\ main = "accept"
  /\ queue # <<>>
  /\ peer' = Head(queue)
  /\ queue' = Tail(queue)
  /\ main' = "hello"
  /\ UNCHANGED <<appVars, listening, sock, hello, up, down, running,
                 acquired, mapped, stop, drain, hw>>

(* EINTR goes on with the loop, any other error leaves it.                 *)
AcceptFails ==
  /\ main = "accept"
  /\ \/ ~running /\ main' = "top" /\ UNCHANGED <<queue, listening, sock>>
     \/ StopListening
  /\ UNCHANGED <<appVars, hello, up, down, running, sessVars>>

HelloRead ==
  /\ main = "hello"
  /\ hello[peer]
  /\ hello' = [hello EXCEPT ![peer] = FALSE]
  /\ stop' = FALSE
  /\ main' = "setup"
  /\ UNCHANGED <<appVars, queue, listening, sock, up, down, running,
                 peer, acquired, mapped, drain, hw>>

(* The 3 s receive timeout of the hello, or the end of the stream.         *)
HelloFails ==
  /\ main = "hello"
  /\ ~hello[peer]
  /\ main' = "close"
  /\ UNCHANGED <<appVars, sockVars, running, sessVars>>

-----------------------------------------------------------------------------
(* The daemon: session.  Each step of the set-up may fail, and `out`       *)
(* releases exactly what was acquired.                                     *)

SetupStep ==
  /\ main = "setup"
  /\ acquired < 3
  /\ \/ acquired' = acquired + 1 /\ UNCHANGED main
     \/ main' = "out" /\ UNCHANGED acquired
  /\ UNCHANGED <<appVars, sockVars, running, peer, mapped, stop, drain, hw>>

(* pthread_create, and malloc of the input buffer.                         *)
StartDrain ==
  /\ main = "setup"
  /\ acquired = 3
  /\ \/ main' = "loop" /\ drain' = "start" /\ UNCHANGED stop
     \/ main' = "out" /\ UNCHANGED <<drain, stop>>
     \/ main' = "join" /\ drain' = "start" /\ stop' = TRUE
  /\ UNCHANGED <<appVars, sockVars, running, peer, acquired, mapped, hw>>

ReadLoop ==
  /\ main = "loop"
  /\ main' = IF running /\ ~stop THEN "read" ELSE "end"
  /\ UNCHANGED <<appVars, sockVars, running, sessVars>>

ReadUnit ==
  /\ main = "read"
  /\ up[peer] > 0
  /\ up' = [up EXCEPT ![peer] = @ - 1]
  /\ main' = "feed"
  /\ UNCHANGED <<appVars, queue, listening, sock, hello, down, running, sessVars>>

ReadEof ==
  /\ main = "read"
  /\ up[peer] = 0 /\ sock[peer] = "shut"
  /\ main' = "end"
  /\ UNCHANGED <<appVars, sockVars, running, sessVars>>

(* get_buf and put_buf; the unit may complete a frame.                     *)
FeedUnit ==
  /\ main = "feed"
  /\ hw < HwBuf
  /\ hw' \in {hw, hw + 1}
  /\ main' = "loop"
  /\ UNCHANGED <<appVars, sockVars, running, peer, acquired, mapped, stop, drain>>

FeedFails ==
  /\ main = "feed"
  /\ main' = "end"
  /\ UNCHANGED <<appVars, sockVars, running, sessVars>>

end_without_shutdown ==
  /\ main = "end"
  /\ stop' = TRUE
  /\ main' = "join"
  /\ UNCHANGED <<appVars, sockVars, running, peer, acquired, mapped, drain, hw>>

end_without_join ==
  /\ main = "end"
  /\ stop' = TRUE
  /\ sock' = [sock EXCEPT ![peer] = "shut"]
  /\ main' = "out"
  /\ UNCHANGED <<appVars, queue, listening, hello, up, down, running,
                 peer, acquired, mapped, drain, hw>>

SessionEnd ==
  /\ main = "end"
  /\ stop' = TRUE
  /\ sock' = [sock EXCEPT ![peer] = "shut"]
  /\ main' = "join"
  /\ UNCHANGED <<appVars, queue, listening, hello, up, down, running,
                 peer, acquired, mapped, drain, hw>>

JoinDrain ==
  /\ main = "join"
  /\ drain = "done"
  /\ drain' = "none"
  /\ main' = "out"
  /\ UNCHANGED <<appVars, sockVars, running, peer, acquired, mapped, stop, hw>>

out_after_success_only ==
  /\ main = "out"
  /\ mapped' = FALSE
  /\ acquired' = IF acquired = 3 THEN 0 ELSE acquired
  /\ hw' = 0
  /\ main' = "close"
  /\ UNCHANGED <<appVars, sockVars, running, peer, stop, drain>>

SessionOut ==
  /\ main = "out"
  /\ mapped' = FALSE
  /\ acquired' = 0
  /\ hw' = 0
  /\ main' = "close"
  /\ UNCHANGED <<appVars, sockVars, running, peer, stop, drain>>

CloseConn ==
  /\ main = "close"
  /\ sock' = [sock EXCEPT ![peer] = "shut"]
  /\ up' = [up EXCEPT ![peer] = 0]
  /\ peer' = NoDec
  /\ main' = "top"
  /\ UNCHANGED <<appVars, queue, listening, hello, down, running,
                 acquired, mapped, stop, drain, hw>>

Signal ==
  /\ running
  /\ running' = FALSE
  /\ UNCHANGED <<appVars, sockVars, main, sessVars>>

-----------------------------------------------------------------------------
(* The daemon: drain_loop.                                                 *)

DrainStart ==
  /\ drain = "start"
  /\ \/ drain' = "top" /\ UNCHANGED stop
     \/ drain' = "done" /\ stop' = TRUE
  /\ UNCHANGED <<appVars, sockVars, running, main, peer, acquired, mapped, hw>>

DrainLoop ==
  /\ drain = "top"
  /\ drain' = IF ~stop /\ running THEN "recv" ELSE "done"
  /\ UNCHANGED <<appVars, sockVars, running, main, peer, acquired, mapped, stop, hw>>

recv_unchecked ==
  /\ drain = "recv"
  /\ hw' = hw - 1
  /\ drain' = "write" /\ mapped' = TRUE
  /\ UNCHANGED <<appVars, sockVars, running, main, peer, acquired, stop>>

(* recv_frame and nv21_from_frame; a frame that cannot be mapped or        *)
(* converted is counted and released.                                      *)
RecvFrame ==
  /\ drain = "recv"
  /\ IF hw = 0 THEN drain' = "top" /\ UNCHANGED <<hw, mapped>>
     ELSE /\ hw' = hw - 1
          /\ \/ drain' = "write" /\ mapped' = TRUE
             \/ drain' = "top" /\ mapped' \in {mapped, TRUE}
  /\ UNCHANGED <<appVars, sockVars, running, main, peer, acquired, stop>>

unsupported_break_only ==
  /\ drain = "recv"
  /\ hw > 0
  /\ hw' = hw - 1
  /\ drain' = "done"
  /\ UNCHANGED <<appVars, sockVars, running, main, peer, acquired, mapped, stop>>

(* "Close the bridge so RustDesk can fall back to its working VP9 path."   *)
RecvUnsupported ==
  /\ drain = "recv"
  /\ hw > 0
  /\ hw' = hw - 1
  /\ stop' = TRUE
  /\ sock' = [sock EXCEPT ![peer] = "shut"]
  /\ drain' = "done"
  /\ UNCHANGED <<appVars, queue, listening, hello, up, down, running, main,
                 peer, acquired, mapped>>

WriteFrame ==
  /\ drain = "write"
  /\ \/ /\ sock[peer] = "open" /\ down[peer] < SockBuf
        /\ down' = [down EXCEPT ![peer] = @ + 1]
        /\ UNCHANGED stop
     \/ /\ sock[peer] = "shut"
        /\ stop' = TRUE
        /\ UNCHANGED down
  /\ drain' = "top"
  /\ UNCHANGED <<appVars, queue, listening, sock, hello, up, running, main,
                 peer, acquired, mapped, hw>>

MainStep ==
  \/ MainLoop \/ Accept \/ HelloRead \/ HelloFails
  \/ SetupStep \/ StartDrain \/ ReadLoop \/ ReadUnit \/ ReadEof
  \/ FeedUnit \/ FeedFails \/ SessionEnd \/ JoinDrain \/ SessionOut \/ CloseConn

Main == MainStep \/ AcceptFails

DrainThread ==
  DrainStart \/ DrainLoop \/ RecvFrame \/ RecvUnsupported \/ WriteFrame

VideoThread(t) ==
  \/ GokeNewConnect(t) \/ GokeNewNone(t) \/ GokeNewHello(t)
  \/ GokeDrop(t) \/ GokeJoin(t) \/ GokeDecode(t) \/ GokeDecodeFails(t)

RenderThread(d) == RenderFrame(d) \/ RenderEof(d)

Init ==
  /\ vt = [t \in Display |-> [pc |-> "run", cur |-> NoDec, new |-> NoDec]]
  /\ created = 0
  /\ owner \in {[d \in Dec |-> t] : t \in Display}
  /\ render = [d \in Dec |-> "none"]
  /\ queue = <<>> /\ listening = TRUE
  /\ sock = [d \in Dec |-> "none"] /\ hello = [d \in Dec |-> FALSE]
  /\ up = [d \in Dec |-> 0] /\ down = [d \in Dec |-> 0]
  /\ running = TRUE /\ main = "top"
  /\ peer = NoDec /\ acquired = 0 /\ mapped = FALSE
  /\ stop = FALSE /\ drain = "none" /\ hw = 0

Next ==
  \/ Main \/ DrainThread \/ Signal
  \/ \E t \in Display : VideoThread(t)
  \/ \E d \in Dec : RenderThread(d)

(* Every thread is scheduled.  The app goes on decoding, and finishes what *)
(* it began; it need not create or drop a decoder.                         *)
Fairness ==
  /\ WF_vars(MainStep) /\ WF_vars(DrainThread)
  /\ \A d \in Dec : WF_vars(RenderThread(d))
  /\ \A t \in Display :
       /\ WF_vars(GokeNewHello(t) \/ GokeDrop(t) \/ GokeJoin(t))
       /\ WF_vars(GokeDecode(t) \/ GokeDecodeFails(t))

Spec == Init /\ [][Next]_vars

FairSpec == Spec /\ Fairness

-----------------------------------------------------------------------------
(* Type correctness of the threads' locations and the socket's contents.   *)
TypeOK ==
  /\ vt \in [Display -> [pc : {"run", "hello", "drop", "join"},
                         cur : Dec \cup {NoDec}, new : Dec \cup {NoDec}]]
  /\ created \in 0 .. MaxDec
  /\ owner \in [Dec -> Display]
  /\ render \in [Dec -> {"none", "run", "dead"}]
  /\ queue \in Seq(Dec) /\ Len(queue) <= Backlog
  /\ sock \in [Dec -> {"none", "open", "shut"}]
  /\ hello \in [Dec -> BOOLEAN]
  /\ up \in [Dec -> 0 .. SockBuf] /\ down \in [Dec -> 0 .. SockBuf]
  /\ {listening, running, mapped, stop} \subseteq BOOLEAN
  /\ main \in {"top", "accept", "hello", "setup", "loop", "read", "feed",
               "end", "join", "out", "close", "exit"}
  /\ peer \in Dec \cup {NoDec}
  /\ acquired \in 0 .. 3
  /\ drain \in {"none", "start", "top", "recv", "write", "done"}
  /\ hw \in 0 .. HwBuf

(* Between sessions the daemon holds no AVPLAY resource, no mapping and no *)
(* thread, whichever step of the last session failed: the box has one      *)
(* hardware decoder, and a leak would leave the next session without it.   *)
HardwareReleased ==
  main \in {"top", "accept", "hello", "close", "exit"}
    => acquired = 0 /\ ~mapped /\ drain = "none"

(* drain_loop calls the decoder and the mappings only while both exist:    *)
(* session joins it before map_cache_clear and AVPLAY stop.                *)
DrainWithinSession ==
  drain \in {"start", "top", "recv", "write"} => acquired = 3 /\ peer # NoDec

(* Both: the one hardware decoder of the box is used by a running session  *)
(* alone and is free after it.                                             *)
HardwareSafe == HardwareReleased /\ DrainWithinSession

(* A replaced decoder draws nothing once its successor has a frame: Drop   *)
(* joins the render thread before the next access unit is sent, although   *)
(* the successor was connected before the drop.                            *)
NoStaleFrame ==
  \A d, e \in Dec :
    owner[d] = owner[e] /\ d < e /\ render[d] = "run" => down[e] = 0

(* A session that leaves its read loop ends: the shutdown frees drain_loop *)
(* from a write the app will never read.                                   *)
SessionEnds == []<>(main \notin {"join", "out", "close"})

(* When drain_loop gives up (an unsupported frame, no memory, a failed     *)
(* write) the session ends too, although its reader may be blocked on the  *)
(* socket, and so the app learns that it must fall back.                   *)
DrainDeathEndsSession == []<>(drain # "done")

(* Dropping a decoder terminates: its render thread notices the shutdown.  *)
DropEnds == \A t \in Display : []<>~At(t, "join")

(* With one display, a decoder that connected while its predecessor was    *)
(* still being served is served or refused in the end.                     *)
QueuedServed ==
  \A d \in Dec : []<>(d \notin ToSet(queue))
=============================================================================
