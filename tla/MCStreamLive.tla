---------------------------- MODULE MCStreamLive ----------------------------
(***************************************************************************)
(* Liveness of the choice of the codec, of the quality of service, of the  *)
(* portable service and of the GK6323 bridge, for TLC.  which says which   *)
(* of the instances moves; the others stay as they were in the beginning,  *)
(* and their fairness asks nothing.  The fair actions are those of the     *)
(* modules' own fairness conditions.                                       *)
(***************************************************************************)
EXTENDS Naturals, Sequences, TLC

VARIABLES which,
          decodings, format, ram, vram, not_use, fallback_gdi, pc, gdi, fresh, try_vram, cfg, codec, retry, shot,
          events, old, replaced, overwritten,
          users, latest, displays, fps, ratio, abr, newUser, sinceAdjust, waiting, due,
          recreate, current, info, wouldblock, w, r, hp, c, cd, para, first, failed, cgdi, iw, vp, want, size, back, got,
          restarts, timeouts, lost,
          STARTING, RUNNING, STARTING_TOKEN, token, shmem, written, entry, calls, watch, helper, server, task, ponged,
          overlap,
          vt, created, owner, render, queue, listening, sock, hello, up, down, running, main, peer, acquired, mapped,
          stop, drain, hw

\* Two displays on adapters of their own, one of which lacks an encoder; one display encoded from textures.
TwoAdapters == ("d1" :> "a") @@ ("d2" :> "b")
OnA == {<<"a", "H264">>}
OnBothAndA == {<<"a", "H264">>, <<"b", "H264">>, <<"a", "H265">>}
TwoOf == {[can |-> {"VP8", "VP9", "AV1", "H264", "H265"}, prefer |-> "Auto"], [can |-> {"VP9"}, prefer |-> "Auto"]}
Codecs == INSTANCE CodecNegotiation WITH Conn <- {"c1"}, Display <- {"d1", "d2"}, Adapter <- TwoAdapters,
    GdiDisplay <- {}, Ram <- {}, VRam <- OnBothAndA, LowMemory <- FALSE, AV1Slow <- FALSE, Announced <- TwoOf,
    MaxEvents <- 1
Shots == INSTANCE CodecNegotiation WITH Conn <- {"c1"}, Display <- {"d1"}, Adapter <- ("d1" :> "a"),
    GdiDisplay <- {}, Ram <- {}, VRam <- OnA, LowMemory <- FALSE, AV1Slow <- FALSE, Announced <- TwoOf,
    MaxEvents <- 4
Rates == INSTANCE VideoQoS WITH User <- {"u1"}, Display <- {}, Delays <- {20, 700, 3100}, Fps <- {24},
    Qualities <- {}, Levels <- {100, 200, 600, 1500}, WINDOW_SAMPLES <- 4, MIN_SAMPLES <- 2, Linux <- TRUE
Frames == INSTANCE PortableCapture WITH Display <- {0}, Size <- (0 :> 1), CounterMod <- 2, MAX_DXGI_FAIL_TIME <- 1,
    MaxRestarts <- 1, MaxTimeouts <- 0, gdi <- cgdi
Launches == INSTANCE PortableLaunch WITH MaxLaunch <- 2, call <- calls
Bridge == INSTANCE GokeBridge WITH Display <- {"t1"}, MaxDec <- 2, Backlog <- 2, SockBuf <- 1, HwBuf <- 1

coding == <<decodings, format, ram, vram, not_use, fallback_gdi, pc, gdi, fresh, try_vram, cfg, codec, retry, shot,
            events, old, replaced, overwritten>>
qos == <<users, latest, displays, fps, ratio, abr, newUser, sinceAdjust, waiting, due>>
capture == <<recreate, current, info, wouldblock, w, r, hp, c, cd, para, first, failed, cgdi, iw, vp, want, size, back,
             got, restarts, timeouts, lost>>
launches == <<STARTING, RUNNING, STARTING_TOKEN, token, shmem, written, entry, calls, watch, helper, server, task,
              ponged, overlap>>
portable == <<capture, launches>>
bridge == <<vt, created, owner, render, queue, listening, sock, hello, up, down, running, main, peer, acquired, mapped,
            stop, drain, hw>>
vars == <<which, coding, qos, portable, bridge>>

MCInit ==
    /\ which \in {"codecs", "shots", "rates", "frames", "launches", "bridge"}
    /\ IF which = "codecs" THEN Codecs!Init ELSE Shots!Init
    /\ Rates!Init /\ Frames!Init /\ Launches!Init /\ Bridge!Init

MCNext ==
    /\ UNCHANGED which
    /\ \/ /\ \/ which = "codecs" /\ Codecs!Next
             \/ which = "shots" /\ Shots!Next
          /\ UNCHANGED <<qos, portable, bridge>>
       \/ which = "rates" /\ Rates!Next /\ UNCHANGED <<coding, portable, bridge>>
       \/ which = "frames" /\ Frames!Next /\ UNCHANGED <<coding, qos, launches, bridge>>
       \/ which = "launches" /\ Launches!Next /\ UNCHANGED <<coding, qos, capture, bridge>>
       \/ which = "bridge" /\ Bridge!Next /\ UNCHANGED <<coding, qos, portable>>

MCSpec ==
    /\ MCInit /\ [][MCNext]_vars
    /\ \A d \in {"d1", "d2"} : WF_coding(which = "codecs" /\ Codecs!Thread(d))
    /\ WF_coding(which = "shots" /\ Shots!Thread("d1"))
    /\ WF_qos(which = "rates" /\ Rates!Second)
    /\ WF_due(which = "rates" /\ Rates!Fires("u1")) /\ WF_waiting(which = "rates" /\ Rates!Answered("u1"))
    /\ WF_capture(which = "frames" /\ (\/ Frames!ReadPara \/ Frames!SetPara \/ Frames!Check \/ Frames!SetInfo
                                       \/ Frames!IncreaseRead \/ Frames!IncreaseWrite))
    /\ SF_capture(which = "frames" /\ Frames!Create) /\ SF_capture(which = "frames" /\ Frames!Captured)
    /\ WF_capture(which = "frames" /\ vp = "error" /\ Frames!Clear(0))
    /\ WF_capture(which = "frames" /\ Frames!ClearCounters)
    /\ WF_capture(which = "frames" /\ \E b \in BOOLEAN : Frames!Request(b))
    /\ WF_capture(which = "frames" /\ (\/ Frames!TimeoutWrite \/ Frames!Ready \/ Frames!Copy \/ Frames!TakeFrame
                                       \/ Frames!Encode))
    /\ WF_launches(which = "launches" /\ Launches!Enter)
    /\ WF_launches(which = "launches" /\ Launches!AuthFailedReset)
    /\ \A l \in 1..2 :
        /\ WF_launches(which = "launches" /\ (\/ Launches!Clear(l) \/ Launches!Create(l) \/ Launches!Run(l)
                                              \/ Launches!set_runtime_ipc_token(l) \/ Launches!StartFailed(l)))
        /\ WF_launches(which = "launches" /\ Launches!Watch(l)) /\ WF_launches(which = "launches" /\ Launches!Pong(l))
        /\ WF_launches(which = "launches" /\ Launches!AuthFails(l))
        /\ WF_launches(which = "launches" /\ Launches!AuthResult(l))
        /\ WF_launches(which = "launches" /\ (\/ Launches!TakeReceiver(l) \/ Launches!PongStarting(l)
                                              \/ Launches!Closed(l) \/ Launches!ClosedStarting(l)))
    /\ WF_bridge(which = "bridge" /\ Bridge!MainStep) /\ WF_bridge(which = "bridge" /\ Bridge!DrainThread)
    /\ \A d \in 1..2 : WF_bridge(which = "bridge" /\ Bridge!RenderThread(d))
    /\ WF_bridge(which = "bridge" /\ (\/ Bridge!GokeNewHello("t1") \/ Bridge!GokeDrop("t1") \/ Bridge!GokeJoin("t1")))
    /\ WF_bridge(which = "bridge" /\ (Bridge!GokeDecode("t1") \/ Bridge!GokeDecodeFails("t1")))
-----------------------------------------------------------------------------
\* With no more announcements and failures the displays come to rest: their fallbacks do not chase
\* each other through the format they share.  A screenshot of a display encoded from textures is taken
\* in the end, and then the display no longer keeps the others from using textures.
CodecSettles ==
    /\ <>[](which = "codecs" => \A d \in DOMAIN pc : Codecs!InLoop(d))
    /\ Shots!ScreenshotTaken /\ Shots!VramRestored

\* After any delays, a good network brings the highest frame rate back (one user).
SpeedsUp == Rates!SpeedsUp

\* A video service that polls without errors goes on getting frames of the portable service; and
\* whatever fails, STARTING is set back, so that the portable service can be started again.
PortableServed ==
    Frames!FrameArrives /\ Launches!StartingEnds

\* A session of the bridge's daemon that leaves its read loop ends, since the shutdown frees drain_loop
\* from a write the app will never read; when drain_loop gives up the session ends too, so that the app
\* learns it must fall back; dropping a decoder terminates; and a decoder that connected while its
\* predecessor was being served is served or refused in the end.
BridgeServed ==
    Bridge!SessionEnds /\ Bridge!DrainDeathEndsSession /\ Bridge!DropEnds /\ Bridge!QueuedServed
=============================================================================
