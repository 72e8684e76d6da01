--------------------------- MODULE GokeBridgeProofs ---------------------------
(***************************************************************************)
(* The daemon of the decoder bridge releases the hardware after every      *)
(* session and keeps drain_loop inside its session, and a replaced decoder *)
(* of the app draws nothing once its successor has a frame: for any number *)
(* of displays and decoders and any size of the buffers.                   *)
(***************************************************************************)
EXTENDS GokeBridge, TLAPS

(* Every connection that waits or is served is one the app made.           *)
PeerOK ==
  /\ created \in 0 .. MaxDec
  /\ queue \in Seq(Dec)
  /\ main \notin {"top", "accept", "exit"} => peer # NoDec

(* What the daemon holds, by the place its main thread has reached: the    *)
(* drain thread exists exactly from pthread_create to pthread_join, and    *)
(* during that time all of AVPLAY is held.                                 *)
Holds ==
  /\ main \in {"top", "accept", "hello", "setup", "close", "exit"}
       => ~mapped /\ drain = "none"
  /\ main \in {"top", "accept", "hello", "close", "exit"} => acquired = 0
  /\ main \in {"loop", "read", "feed", "end", "join"} => acquired = 3
  /\ main = "out" => drain = "none"

SessInv ==
  /\ main \in {"top", "accept", "hello", "setup", "loop", "read", "feed",
              "end", "join", "out", "close", "exit"}
  /\ mapped \in BOOLEAN
  /\ PeerOK
  /\ Holds

-----------------------------------------------------------------------------
(* A closed listening socket leaves an empty queue.                        *)
LEMMA EmptyQueue == <<>> \in Seq(Dec)
  OBVIOUS

(* The main thread, from accept through session back to accept.            *)
LEMMA MainKeeps == SessInv /\ Main => SessInv'
<1> SUFFICES ASSUME SessInv, Main PROVE SessInv'
  OBVIOUS
<1> USE DEF SessInv, PeerOK, Holds, NoDec, appVars, sockVars, sessVars
<1>1. CASE MainLoop
  <2>1. queue' = queue \/ queue' = <<>>
    BY <1>1 DEF MainLoop, StopListening
  <2>2. queue' \in Seq(Dec)
    BY <2>1, EmptyQueue
  <2>3. QED
    BY <1>1, <2>2 DEF MainLoop, StopListening
<1>2. CASE Accept
  <2>1. queue' \in Seq(Dec) /\ peer' \in Dec
    BY <1>2 DEF Accept
  <2>2. peer' # NoDec
    BY <2>1, BridgeBounds DEF Dec
  <2>3. QED
    BY <1>2, <2>1, <2>2 DEF Accept
<1>3. CASE AcceptFails
  <2>1. queue' = queue \/ queue' = <<>>
    BY <1>3 DEF AcceptFails, StopListening
  <2>2. queue' \in Seq(Dec)
    BY <2>1, EmptyQueue
  <2>3. QED
    BY <1>3, <2>2 DEF AcceptFails, StopListening
<1>4. CASE HelloRead
  BY <1>4 DEF HelloRead
<1>5. CASE HelloFails
  BY <1>5 DEF HelloFails
<1>6. CASE SetupStep
  BY <1>6 DEF SetupStep
<1>7. CASE StartDrain
  BY <1>7 DEF StartDrain
<1>8. CASE ReadLoop
  BY <1>8 DEF ReadLoop
<1>9. CASE ReadUnit
  BY <1>9 DEF ReadUnit
<1>10. CASE ReadEof
  BY <1>10 DEF ReadEof
<1>11. CASE FeedUnit
  BY <1>11 DEF FeedUnit
<1>12. CASE FeedFails
  BY <1>12 DEF FeedFails
<1>13. CASE SessionEnd
  BY <1>13 DEF SessionEnd
<1>14. CASE JoinDrain
  BY <1>14 DEF JoinDrain
<1>15. CASE SessionOut
  BY <1>15 DEF SessionOut
<1>16. CASE CloseConn
  BY <1>16 DEF CloseConn
<1>17. QED
  BY <1>1, <1>2, <1>3, <1>4, <1>5, <1>6, <1>7, <1>8,
     <1>9, <1>10, <1>11, <1>12, <1>13, <1>14, <1>15, <1>16 DEF Main, MainStep

(* The drain thread neither ends its session nor outlives it.              *)
LEMMA DrainKeeps == SessInv /\ DrainThread => SessInv'
<1> SUFFICES ASSUME SessInv, DrainThread PROVE SessInv'
  OBVIOUS
<1> USE DEF SessInv, PeerOK, Holds, NoDec, appVars, sockVars
<1>1. CASE DrainStart
  BY <1>1 DEF DrainStart
<1>2. CASE DrainLoop
  BY <1>2 DEF DrainLoop
<1>3. CASE RecvFrame
  BY <1>3 DEF RecvFrame
<1>4. CASE RecvUnsupported
  BY <1>4 DEF RecvUnsupported
<1>5. CASE WriteFrame
  BY <1>5 DEF WriteFrame
<1>6. QED
  BY <1>1, <1>2, <1>3, <1>4, <1>5 DEF DrainThread

(* The app only adds connections to the queue.                             *)
LEMMA AppKeeps ==
  ASSUME SessInv, NEW t \in Display, VideoThread(t)
  PROVE  SessInv'
<1> USE DEF SessInv, PeerOK, Holds, NoDec, appVars, sockVars, sessVars
<1>1. CASE GokeNewConnect(t)
  <2>1. created' \in Dec /\ created' \in 0 .. MaxDec
    BY <1>1, BridgeBounds DEF GokeNewConnect, Dec
  <2>2. queue' \in Seq(Dec)
    BY <1>1, <2>1 DEF GokeNewConnect
  <2>3. QED
    BY <1>1, <2>1, <2>2 DEF GokeNewConnect
<1>2. CASE GokeNewNone(t)
  BY <1>2 DEF GokeNewNone
<1>3. CASE GokeNewHello(t)
  BY <1>3 DEF GokeNewHello
<1>4. CASE GokeDrop(t)
  BY <1>4 DEF GokeDrop
<1>5. CASE GokeJoin(t)
  BY <1>5 DEF GokeJoin
<1>6. CASE GokeDecode(t)
  BY <1>6 DEF GokeDecode
<1>7. CASE GokeDecodeFails(t)
  BY <1>7 DEF GokeDecodeFails
<1>8. QED
  BY <1>1, <1>2, <1>3, <1>4, <1>5, <1>6, <1>7 DEF VideoThread

(* The inductive invariant holds of every behaviour of the bridge.         *)
THEOREM BridgeInvariant == Spec => []SessInv
<1>1. Init => SessInv
  <2> SUFFICES ASSUME Init PROVE SessInv
    OBVIOUS
  <2>1. /\ created = 0 /\ queue = <<>> /\ main = "top"
        /\ acquired = 0 /\ mapped = FALSE /\ drain = "none"
    BY DEF Init
  <2>2. queue \in Seq(Dec)
    BY <2>1, EmptyQueue
  <2>3. 0 \in 0 .. MaxDec
    BY BridgeBounds
  <2>4. QED
    BY <2>1, <2>2, <2>3 DEF SessInv, PeerOK, Holds
<1>2. SessInv /\ [Next]_vars => SessInv'
  <2> SUFFICES ASSUME SessInv, [Next]_vars PROVE SessInv'
    OBVIOUS
  <2>1. CASE Main
    BY <2>1, MainKeeps
  <2>2. CASE DrainThread
    BY <2>2, DrainKeeps
  <2>3. CASE Signal
    BY <2>3 DEF Signal, SessInv, PeerOK, Holds, appVars, sockVars, sessVars
  <2>4. ASSUME NEW t \in Display, VideoThread(t) PROVE SessInv'
    BY <2>4, AppKeeps
  <2>5. ASSUME NEW d \in Dec, RenderThread(d) PROVE SessInv'
    BY <2>5 DEF RenderThread, RenderFrame, RenderEof, SessInv, PeerOK, Holds,
       sockVars, sessVars
  <2>6. CASE UNCHANGED vars
    BY <2>6 DEF vars, appVars, sockVars, sessVars, SessInv, PeerOK, Holds
  <2>7. QED
    BY <2>1, <2>2, <2>3, <2>4, <2>5, <2>6 DEF Next
<1>3. QED
  BY <1>1, <1>2, PTL DEF Spec

(* Whatever step of a session fails, `out` leaves no AVPLAY resource, no   *)
(* mapping and no thread behind.                                           *)
THEOREM SessionReleases == Spec => []HardwareReleased
<1>1. SessInv => HardwareReleased
  BY DEF SessInv, Holds, HardwareReleased
<1>2. QED
  BY <1>1, BridgeInvariant, PTL

(* drain_loop runs only while the decoder is started and its connection is *)
(* the one being served.                                                   *)
THEOREM DrainConfined == Spec => []DrainWithinSession
<1>1. SessInv => DrainWithinSession
  BY DEF SessInv, PeerOK, Holds, DrainWithinSession
<1>2. QED
  BY <1>1, BridgeInvariant, PTL

(* The one hardware decoder is used by a running session alone and is free *)
(* after it: what session and drain_loop of the daemon owe each other.     *)
THEOREM HardwareStaysSafe == Spec => []HardwareSafe
<1>1. HardwareReleased /\ DrainWithinSession => HardwareSafe
  BY DEF HardwareSafe
<1>2. QED
  BY <1>1, SessionReleases, DrainConfined, PTL

-----------------------------------------------------------------------------
(* The second argument: no frame overtakes a drop.  A frame of decoder e   *)
(* comes from an access unit, which only the video thread whose current    *)
(* decoder is e can have sent, after it joined the one before.             *)

BridgeTypes ==
  /\ vt \in [Display -> [pc : {"run", "hello", "drop", "join"},
                         cur : Dec \cup {NoDec}, new : Dec \cup {NoDec}]]
  /\ owner \in [Dec -> Display]
  /\ render \in [Dec -> {"none", "run", "dead"}]
  /\ up \in [Dec -> Nat] /\ down \in [Dec -> Nat]
  /\ hw \in Nat /\ peer \in Dec \cup {NoDec}

(* What a video thread knows of its decoders: the one being made is the    *)
(* last of its display, and not drawing before the hello was written.      *)
ThreadOK(t) ==
  /\ vt[t].cur # NoDec => vt[t].cur <= created /\ owner[vt[t].cur] = t
  /\ vt[t].new # NoDec =>
       /\ vt[t].new <= created /\ owner[vt[t].new] = t
       /\ \A e \in Dec : e <= created /\ owner[e] = t => e <= vt[t].new
  /\ vt[t].pc = "run" => vt[t].new = NoDec
  /\ vt[t].pc = "hello" => vt[t].new # NoDec /\ render[vt[t].new] # "run"

(* A decoder that draws is one its video thread still has.                 *)
DrawingOK(d) ==
  render[d] = "run" => /\ d <= created
                       /\ d = vt[owner[d]].cur \/ d = vt[owner[d]].new

(* An access unit of decoder e, or a frame made of one, is on its way.     *)
Touched(e) ==
  \/ up[e] > 0 \/ down[e] > 0
  \/ peer = e /\ (hw > 0 \/ main = "feed" \/ drain = "write")

(* No decoder that draws has a successor with a unit on its way.           *)
Replaced(e) ==
  e <= created /\ \A d \in Dec : d < e /\ owner[d] = owner[e] => render[d] # "run"

(* Outside a session the hardware holds no frame.                          *)
HwIdle == main \in {"top", "accept", "hello", "setup", "close", "exit"} => hw = 0

FrameInv ==
  /\ BridgeTypes
  /\ HwIdle
  /\ \A t \in Display : ThreadOK(t)
  /\ \A d \in Dec : DrawingOK(d)
  /\ \A e \in Dec : Touched(e) => Replaced(e)

(* A step of the daemon brings no new unit on its way.                     *)
LEMMA DaemonTouches ==
  ASSUME SessInv, BridgeTypes, HwIdle, Main \/ DrainThread
  PROVE  BridgeTypes' /\ HwIdle' /\ \A e \in Dec : Touched(e)' => Touched(e)
<1> USE DEF BridgeTypes, HwIdle, Touched, NoDec, appVars, sockVars, sessVars
<1> USE BridgeBounds
<1>1. CASE MainLoop
  BY <1>1 DEF MainLoop, StopListening
<1>2. CASE Accept
  <2>1. peer' \in Dec
    BY <1>2 DEF Accept, SessInv, PeerOK
  <2>2. hw = 0 /\ drain = "none"
    BY <1>2 DEF Accept, SessInv, Holds
  <2>3. QED
    BY <1>2, <2>1, <2>2 DEF Accept
<1>3. CASE AcceptFails
  BY <1>3 DEF AcceptFails, StopListening
<1>4. CASE HelloRead
  BY <1>4 DEF HelloRead
<1>5. CASE HelloFails
  BY <1>5 DEF HelloFails
<1>6. CASE SetupStep
  BY <1>6 DEF SetupStep
<1>7. CASE StartDrain
  BY <1>7 DEF StartDrain
<1>8. CASE ReadLoop
  BY <1>8 DEF ReadLoop
<1>9. CASE ReadUnit
  <2>1. peer \in Dec
    BY <1>9 DEF ReadUnit, SessInv, PeerOK
  <2>2. QED
    BY <1>9, <2>1 DEF ReadUnit
<1>10. CASE ReadEof
  BY <1>10 DEF ReadEof
<1>11. CASE FeedUnit
  BY <1>11 DEF FeedUnit
<1>12. CASE FeedFails
  BY <1>12 DEF FeedFails
<1>13. CASE SessionEnd
  BY <1>13 DEF SessionEnd
<1>14. CASE JoinDrain
  BY <1>14 DEF JoinDrain
<1>15. CASE SessionOut
  BY <1>15 DEF SessionOut
<1>16. CASE CloseConn
  <2>1. \A e \in Dec : e # 0
    BY DEF Dec
  <2>2. QED
    BY <1>16, <2>1 DEF CloseConn
<1>17. CASE DrainStart
  BY <1>17 DEF DrainStart
<1>18. CASE DrainLoop
  BY <1>18 DEF DrainLoop
<1>19. CASE RecvFrame
  <2>1. CASE hw = 0
    BY <1>19, <2>1 DEF RecvFrame
  <2>2. CASE hw # 0
    BY <1>19, <2>2 DEF RecvFrame
  <2>3. QED
    BY <2>1, <2>2
<1>20. CASE RecvUnsupported
  BY <1>20 DEF RecvUnsupported
<1>21. CASE WriteFrame
  <2>1. peer \in Dec
    BY <1>21 DEF WriteFrame, SessInv, PeerOK, Holds
  <2>2. QED
    BY <1>21, <2>1 DEF WriteFrame
<1>22. QED
  BY <1>1, <1>2, <1>3, <1>4, <1>5, <1>6, <1>7, <1>8, <1>9, <1>10, <1>11,
     <1>12, <1>13, <1>14, <1>15, <1>16, <1>17, <1>18, <1>19, <1>20, <1>21
     DEF Main, MainStep, DrainThread

(* So the daemon keeps the second invariant: it has no part in vt, owner   *)
(* and render.                                                             *)
LEMMA DaemonDraws ==
  ASSUME SessInv, FrameInv, Main \/ DrainThread
  PROVE  FrameInv'
<1>1. BridgeTypes' /\ HwIdle' /\ \A e \in Dec : Touched(e)' => Touched(e)
  BY DaemonTouches DEF FrameInv
<1>2. UNCHANGED appVars
  BY DEF Main, MainStep, DrainThread, MainLoop, Accept, AcceptFails, HelloRead,
     HelloFails, SetupStep, StartDrain, ReadLoop, ReadUnit, ReadEof, FeedUnit,
     FeedFails, SessionEnd, JoinDrain, SessionOut, CloseConn, DrainStart,
     DrainLoop, RecvFrame, RecvUnsupported, WriteFrame
<1>3. (\A t \in Display : ThreadOK(t)') /\ (\A d \in Dec : DrawingOK(d)')
  BY <1>2 DEF FrameInv, appVars, ThreadOK, DrawingOK
<1>4. \A e \in Dec : Replaced(e) => Replaced(e)'
  BY <1>2 DEF appVars, Replaced
<1>5. QED
  BY <1>1, <1>3, <1>4 DEF FrameInv

(* A thread that draws takes frames off the socket or ends.                *)
LEMMA RenderDraws ==
  ASSUME FrameInv, NEW r \in Dec, RenderThread(r)
  PROVE  FrameInv'
<1>1. /\ UNCHANGED <<vt, created, owner, up, peer, hw, main, drain>>
      /\ render' \in [Dec -> {"none", "run", "dead"}] /\ down' \in [Dec -> Nat]
      /\ \A d \in Dec : render'[d] = "run" => render[d] = "run"
      /\ \A e \in Dec : down'[e] > 0 => down[e] > 0
  <2>1. CASE RenderFrame(r)
    <3>1. render' = render \/ render' = [render EXCEPT ![r] = "dead"]
      BY <2>1 DEF RenderFrame
    <3>2. /\ render' \in [Dec -> {"none", "run", "dead"}]
          /\ \A d \in Dec : render'[d] = "run" => render[d] = "run"
      BY <3>1 DEF FrameInv, BridgeTypes
    <3>3. down \in [Dec -> Nat] /\ down[r] > 0 /\ down' = [down EXCEPT ![r] = @ - 1]
      BY <2>1 DEF RenderFrame, FrameInv, BridgeTypes
    <3>4. down' \in [Dec -> Nat] /\ \A e \in Dec : down'[e] > 0 => down[e] > 0
      BY <3>3
    <3>5. QED
      BY <2>1, <3>2, <3>4 DEF RenderFrame, sessVars
  <2>2. CASE RenderEof(r)
    BY <2>2 DEF RenderEof, FrameInv, BridgeTypes, sockVars, sessVars
  <2>3. QED
    BY <2>1, <2>2 DEF RenderThread
<1>2. BridgeTypes' /\ HwIdle'
  BY <1>1 DEF FrameInv, BridgeTypes, HwIdle
<1>3. ASSUME NEW t \in Display PROVE ThreadOK(t)'
  <2>1. vt[t].new \in Dec \cup {NoDec}
    BY DEF FrameInv, BridgeTypes
  <2>2. QED
    BY <1>1, <2>1 DEF FrameInv, ThreadOK
<1>4. \A d \in Dec : DrawingOK(d)'
  BY <1>1 DEF FrameInv, DrawingOK
<1>5. \A e \in Dec : Touched(e)' => Replaced(e)'
  BY <1>1 DEF FrameInv, Touched, Replaced
<1>6. QED
  BY <1>2, <1>3, <1>4, <1>5 DEF FrameInv

(* A step of video thread t that creates no decoder and sends no unit, and *)
(* leaves t with the decoders that draw for it.                            *)
Moves(t) ==
  /\ BridgeTypes' /\ HwIdle' /\ ThreadOK(t)'
  /\ \A u \in Display \ {t} : vt'[u] = vt[u]
  /\ UNCHANGED <<created, owner, up, down, hw, peer, main, drain>>
  /\ \A d \in Dec : owner[d] # t => render'[d] = render[d]
  /\ \A d \in Dec : owner[d] = t => DrawingOK(d)'
  /\ \A d \in Dec : render'[d] = "run" /\ render[d] # "run" => d = vt[t].new

(* Such a step keeps the invariant.                                        *)
LEMMA ThreadMoves ==
  ASSUME FrameInv, NEW t \in Display, Moves(t)
  PROVE  FrameInv'
<1> USE DEF Moves
<1>1. ASSUME NEW u \in Display \ {t} PROVE ThreadOK(u)'
  <2>1. vt[u].new \in Dec \cup {NoDec} /\ ThreadOK(u) /\ vt'[u] = vt[u]
    BY DEF FrameInv, BridgeTypes
  <2>2. vt[u].new # NoDec => render'[vt[u].new] = render[vt[u].new]
    BY <2>1 DEF ThreadOK
  <2>3. QED
    BY <2>1, <2>2 DEF ThreadOK
<1>2. ASSUME NEW d \in Dec, owner[d] # t PROVE DrawingOK(d)'
  <2>1. owner[d] \in Display \ {t}
    BY <1>2 DEF FrameInv, BridgeTypes
  <2>2. QED
    BY <1>2, <2>1 DEF FrameInv, DrawingOK
<1>3. ASSUME NEW e \in Dec, Touched(e)' PROVE Replaced(e)'
  <2>1. Touched(e) /\ Replaced(e)
    BY <1>3 DEF FrameInv, Touched
  <2>2. ASSUME NEW d \in Dec, d < e, owner[d] = owner[e], render'[d] = "run"
        PROVE  FALSE
    <3>1. d = vt[t].new /\ d # NoDec
      BY <2>1, <2>2, BridgeBounds DEF Replaced, Dec, NoDec
    <3>2. e <= created /\ owner[e] = t
      BY <2>1, <2>2, <3>1 DEF FrameInv, ThreadOK, Replaced
    <3>3. e <= d
      BY <3>1, <3>2 DEF FrameInv, ThreadOK
    <3>4. QED
      BY <2>2, <3>3, BridgeBounds DEF Dec
  <2>3. QED
    BY <2>1, <2>2 DEF Replaced
<1>4. QED
  BY <1>1, <1>2, <1>3 DEF FrameInv

(* What the invariants say of video thread t.                              *)
Known(t) ==
  /\ BridgeTypes /\ HwIdle /\ ThreadOK(t) /\ created \in Nat
  /\ vt[t].pc \in {"run", "hello", "drop", "join"}
  /\ vt[t].cur \in Dec \cup {0} /\ vt[t].new \in Dec \cup {0}
  /\ \A d \in Dec : d \in Nat /\ d # 0
  /\ \A d \in Dec : owner[d] = t /\ render[d] = "run" => d = vt[t].cur \/ d = vt[t].new
  /\ \A d \in Dec : render[d] = "run" => d <= created

(* It follows from the invariants.                                         *)
LEMMA ThreadKnows ==
  ASSUME SessInv, FrameInv, NEW t \in Display
  PROVE  Known(t)
<1> USE BridgeBounds DEF NoDec, Known
<1>1. BridgeTypes /\ HwIdle /\ ThreadOK(t) /\ \A d \in Dec : DrawingOK(d)
  BY DEF FrameInv
<1>2. created \in Nat /\ \A d \in Dec : d \in Nat /\ d # 0
  BY DEF SessInv, PeerOK, Dec
<1>3. /\ vt[t].pc \in {"run", "hello", "drop", "join"}
      /\ vt[t].cur \in Dec \cup {0} /\ vt[t].new \in Dec \cup {0}
  BY <1>1 DEF BridgeTypes
<1>4. QED
  BY <1>1, <1>2, <1>3 DEF DrawingOK

(* The decoder goes without a successor.                                   *)
LEMMA GiveUpDraws ==
  ASSUME SessInv, FrameInv, NEW t \in Display, GokeNewNone(t) \/ GokeDecodeFails(t)
  PROVE  FrameInv'
<1> USE BridgeBounds DEF NoDec, Known
<1>0. Known(t)
  BY ThreadKnows
<1>1. /\ vt'[t].pc = "drop" /\ vt'[t].new = 0 /\ vt'[t].cur = vt[t].cur /\ vt[t].new = 0
      /\ vt' \in [Display -> [pc : {"run", "hello", "drop", "join"},
                              cur : Dec \cup {0}, new : Dec \cup {0}]]
      /\ \A u \in Display \ {t} : vt'[u] = vt[u]
      /\ UNCHANGED <<created, owner, render, up, down, hw, peer, main, drain>>
  <2>1. /\ vt' = [vt EXCEPT ![t].pc = "drop", ![t].new = 0] /\ vt[t].pc = "run"
        /\ UNCHANGED <<created, owner, render, up, down, hw, peer, main, drain>>
    BY DEF GokeNewNone, GokeDecodeFails, At, sockVars, sessVars
  <2>2. vt[t].new = 0
    BY <1>0, <2>1 DEF ThreadOK
  <2>3. vt \in [Display -> [pc : {"run", "hello", "drop", "join"},
                            cur : Dec \cup {0}, new : Dec \cup {0}]]
    BY <1>0 DEF BridgeTypes
  <2>4. vt' \in [Display -> [pc : {"run", "hello", "drop", "join"},
                             cur : Dec \cup {0}, new : Dec \cup {0}]]
    <3> DEFINE r == [vt[t] EXCEPT !.pc = "drop", !.new = 0]
    <3>1. r \in [pc : {"run", "hello", "drop", "join"}, cur : Dec \cup {0}, new : Dec \cup {0}]
      BY <2>3
    <3>2. vt' = [vt EXCEPT ![t] = r]
      BY <2>1, <2>3
    <3> HIDE DEF r
    <3>3. QED
      BY <2>3, <3>1, <3>2
  <2>5. /\ vt'[t].pc = "drop" /\ vt'[t].new = 0 /\ vt'[t].cur = vt[t].cur
        /\ \A u \in Display \ {t} : vt'[u] = vt[u]
    BY <2>1, <2>3
  <2>6. QED
    BY <2>1, <2>2, <2>4, <2>5
<1>2. BridgeTypes' /\ HwIdle' /\ ThreadOK(t)'
  BY <1>0, <1>1 DEF BridgeTypes, HwIdle, ThreadOK
<1>3. \A d \in Dec : owner[d] = t => DrawingOK(d)'
  BY <1>0, <1>1 DEF DrawingOK
<1>4. Moves(t)
  BY <1>1, <1>2, <1>3 DEF Moves
<1>5. QED
  BY <1>4, ThreadMoves

(* The hello makes the new decoder draw beside the old one; or it is gone. *)
LEMMA HelloDraws ==
  ASSUME SessInv, FrameInv, NEW t \in Display, GokeNewHello(t)
  PROVE  FrameInv'
<1> USE BridgeBounds DEF NoDec, Known
<1>0. Known(t)
  BY ThreadKnows
<1>1. /\ vt' \in [Display -> [pc : {"run", "hello", "drop", "join"},
                              cur : Dec \cup {0}, new : Dec \cup {0}]]
      /\ \A u \in Display \ {t} : vt'[u] = vt[u]
      /\ UNCHANGED <<created, owner, up, down, hw, peer, main, drain>>
      /\ vt'[t].pc = "drop" /\ vt'[t].cur = vt[t].cur
      /\ vt[t].new # 0 /\ vt[t].new \in Dec /\ render[vt[t].new] # "run"
  <2>1. /\ \/ vt' = [vt EXCEPT ![t].pc = "drop"]
           \/ vt' = [vt EXCEPT ![t].pc = "drop", ![t].new = 0]
        /\ vt[t].pc = "hello"
        /\ UNCHANGED <<created, owner, up, down, hw, peer, main, drain>>
    BY DEF GokeNewHello, At, sessVars
  <2>2. vt[t].new # 0 /\ render[vt[t].new] # "run"
    BY <1>0, <2>1 DEF ThreadOK
  <2>3. /\ vt' \in [Display -> [pc : {"run", "hello", "drop", "join"},
                                cur : Dec \cup {0}, new : Dec \cup {0}]]
        /\ \A u \in Display \ {t} : vt'[u] = vt[u]
        /\ vt'[t].pc = "drop" /\ vt'[t].cur = vt[t].cur
    <3>1. CASE vt' = [vt EXCEPT ![t].pc = "drop"]
      BY <1>0, <3>1 DEF BridgeTypes
    <3>2. CASE vt' = [vt EXCEPT ![t].pc = "drop", ![t].new = 0]
      <4>1. vt \in [Display -> [pc : {"run", "hello", "drop", "join"},
                                cur : Dec \cup {0}, new : Dec \cup {0}]]
        BY <1>0 DEF BridgeTypes
      <4>2. QED
        BY <3>2, <4>1
    <3>3. QED
      BY <2>1, <3>1, <3>2
  <2>4. QED
    BY <1>0, <2>1, <2>2, <2>3
<1>2. CASE sock[vt[t].new] = "open"
  <2>1. vt'[t].new = vt[t].new /\ render' = [render EXCEPT ![vt[t].new] = "run"]
    BY <1>0, <1>2 DEF GokeNewHello, BridgeTypes
  <2>2. /\ render' \in [Dec -> {"none", "run", "dead"}]
        /\ \A d \in Dec : d # vt[t].new => render'[d] = render[d]
    BY <1>0, <1>1, <2>1 DEF BridgeTypes
  <2>3. BridgeTypes' /\ HwIdle'
    BY <1>0, <1>1, <2>2 DEF BridgeTypes, HwIdle
  <2>4. ThreadOK(t)'
    BY <1>0, <1>1, <2>1 DEF ThreadOK
  <2>5. ASSUME NEW d \in Dec, owner[d] = t PROVE DrawingOK(d)'
    BY <1>0, <1>1, <2>1, <2>2, <2>5 DEF DrawingOK, ThreadOK
  <2>6. \A d \in Dec : owner[d] # t => d # vt[t].new
    BY <1>0, <1>1 DEF ThreadOK
  <2>7. Moves(t)
    BY <1>1, <2>2, <2>3, <2>4, <2>5, <2>6 DEF Moves
  <2>8. QED
    BY <2>7, ThreadMoves
<1>3. CASE sock[vt[t].new] # "open"
  <2>1. vt'[t].new = 0 /\ render' = render
    BY <1>0, <1>3 DEF GokeNewHello, BridgeTypes
  <2>2. BridgeTypes' /\ HwIdle'
    BY <1>0, <1>1, <2>1 DEF BridgeTypes, HwIdle
  <2>3. ThreadOK(t)'
    BY <1>0, <1>1, <2>1 DEF ThreadOK
  <2>4. ASSUME NEW d \in Dec, owner[d] = t PROVE DrawingOK(d)'
    BY <1>0, <1>1, <2>1, <2>4 DEF DrawingOK
  <2>5. Moves(t)
    BY <1>1, <2>1, <2>2, <2>3, <2>4 DEF Moves
  <2>6. QED
    BY <2>5, ThreadMoves
<1>4. QED
  BY <1>2, <1>3

(* The old decoder is dropped, and forgotten once its thread has ended.    *)
LEMMA DropDraws ==
  ASSUME SessInv, FrameInv, NEW t \in Display, GokeDrop(t) \/ GokeJoin(t)
  PROVE  FrameInv'
<1> USE BridgeBounds DEF NoDec, Known
<1>0. Known(t)
  BY ThreadKnows
<1>1. /\ vt' \in [Display -> [pc : {"run", "hello", "drop", "join"},
                              cur : Dec \cup {0}, new : Dec \cup {0}]]
      /\ \A u \in Display \ {t} : vt'[u] = vt[u]
      /\ UNCHANGED <<created, owner, render, up, down, hw, peer, main, drain>>
      /\ vt[t].pc \in {"drop", "join"}
  BY <1>0 DEF GokeDrop, GokeJoin, BridgeTypes, At, sessVars, sockVars
<1>2. \/ vt'[t].pc = "join" /\ vt'[t].cur = vt[t].cur /\ vt'[t].new = vt[t].new
      \/ /\ vt'[t].pc = "run" /\ vt'[t].cur = vt[t].new /\ vt'[t].new = 0
         /\ vt[t].cur = 0 \/ render[vt[t].cur] = "dead"
  BY <1>0 DEF GokeDrop, GokeJoin, BridgeTypes
<1>3. BridgeTypes' /\ HwIdle'
  BY <1>0, <1>1 DEF BridgeTypes, HwIdle
<1>4. ThreadOK(t)'
  BY <1>0, <1>1, <1>2 DEF ThreadOK
<1>5. ASSUME NEW d \in Dec, owner[d] = t PROVE DrawingOK(d)'
  BY <1>0, <1>1, <1>2, <1>5 DEF DrawingOK
<1>6. Moves(t)
  BY <1>1, <1>3, <1>4, <1>5 DEF Moves
<1>7. QED
  BY <1>6, ThreadMoves

(* A unit is sent while the current decoder is the only one that draws.    *)
LEMMA DecodeDraws ==
  ASSUME SessInv, FrameInv, NEW t \in Display, GokeDecode(t)
  PROVE  FrameInv'
<1> USE BridgeBounds DEF NoDec, Known
<1>0. Known(t)
  BY ThreadKnows
<1>1. /\ UNCHANGED <<vt, created, owner, render, down, hw, peer, main, drain>>
      /\ vt[t].pc = "run" /\ vt[t].cur \in Dec /\ vt[t].cur # 0 /\ vt[t].new = 0
      /\ up' = [up EXCEPT ![vt[t].cur] = @ + 1]
  BY <1>0 DEF GokeDecode, ThreadOK, At, appVars, sessVars
<1>2. /\ up' \in [Dec -> Nat]
      /\ \A e \in Dec : e # vt[t].cur => up'[e] = up[e]
  BY <1>0, <1>1 DEF BridgeTypes
<1>3. BridgeTypes' /\ HwIdle'
  BY <1>0, <1>1, <1>2 DEF BridgeTypes, HwIdle
<1>4. (\A u \in Display : ThreadOK(u)') /\ (\A d \in Dec : DrawingOK(d)')
  BY <1>1 DEF FrameInv, ThreadOK, DrawingOK
<1>5. ASSUME NEW e \in Dec, Touched(e)' PROVE Replaced(e)'
  <2>1. CASE e = vt[t].cur
    <3>1. e \in Nat /\ e <= created /\ owner[e] = t
      BY <1>0, <1>1, <2>1 DEF ThreadOK
    <3>2. \A d \in Dec : owner[d] = t /\ render[d] = "run" => d = e
      BY <1>0, <1>1, <2>1
    <3>3. QED
      BY <1>1, <3>1, <3>2 DEF Replaced
  <2>2. CASE e # vt[t].cur
    <3>1. Touched(e)
      BY <1>1, <1>2, <1>5, <2>2 DEF Touched
    <3>2. QED
      BY <1>1, <3>1 DEF FrameInv, Replaced
  <2>3. QED
    BY <2>1, <2>2
<1>6. QED
  BY <1>3, <1>4, <1>5 DEF FrameInv

(* The newest decoder of a display has nothing on the way yet.             *)
LEMMA ConnectDraws ==
  ASSUME SessInv, FrameInv, NEW t \in Display, GokeNewConnect(t)
  PROVE  FrameInv'
<1> USE BridgeBounds DEF NoDec, Known
<1>0. Known(t)
  BY ThreadKnows
<1> DEFINE n == created + 1
<1>1. /\ n \in Dec /\ created' = n /\ vt[t].pc = "run"
      /\ owner' = [owner EXCEPT ![n] = t]
      /\ vt' = [vt EXCEPT ![t].pc = "hello", ![t].new = n]
      /\ UNCHANGED <<render, up, down, hw, peer, main, drain>>
  BY <1>0 DEF GokeNewConnect, At, sessVars, Dec
<1>2. /\ owner' \in [Dec -> Display] /\ owner'[n] = t
      /\ \A d \in Dec : d # n => owner'[d] = owner[d]
      /\ vt' \in [Display -> [pc : {"run", "hello", "drop", "join"},
                              cur : Dec \cup {0}, new : Dec \cup {0}]]
      /\ vt'[t].pc = "hello" /\ vt'[t].new = n /\ vt'[t].cur = vt[t].cur
      /\ \A u \in Display \ {t} : vt'[u] = vt[u]
  <2>1. /\ owner \in [Dec -> Display]
        /\ vt \in [Display -> [pc : {"run", "hello", "drop", "join"},
                               cur : Dec \cup {0}, new : Dec \cup {0}]]
    BY <1>0 DEF BridgeTypes
  <2>2. /\ owner' \in [Dec -> Display] /\ owner'[n] = t
        /\ \A d \in Dec : d # n => owner'[d] = owner[d]
    BY <1>1, <2>1
  <2>3. vt' \in [Display -> [pc : {"run", "hello", "drop", "join"},
                             cur : Dec \cup {0}, new : Dec \cup {0}]]
    <3> DEFINE r == [vt[t] EXCEPT !.pc = "hello", !.new = n]
    <3>1. r \in [pc : {"run", "hello", "drop", "join"}, cur : Dec \cup {0}, new : Dec \cup {0}]
      BY <1>1, <2>1
    <3>2. vt' = [vt EXCEPT ![t] = r]
      BY <1>1, <2>1
    <3> HIDE DEF r
    <3>3. QED
      BY <2>1, <3>1, <3>2
  <2>4. /\ vt'[t].pc = "hello" /\ vt'[t].new = n /\ vt'[t].cur = vt[t].cur
        /\ \A u \in Display \ {t} : vt'[u] = vt[u]
    BY <1>1, <2>1
  <2>5. QED
    BY <2>2, <2>3, <2>4
<1>3. BridgeTypes' /\ HwIdle'
  BY <1>0, <1>1, <1>2 DEF BridgeTypes, HwIdle
<1>4. ~Touched(n) /\ render[n] # "run"
  BY <1>0, <1>1 DEF FrameInv, Replaced
<1>5. ThreadOK(t)'
  BY <1>0, <1>1, <1>2, <1>4 DEF ThreadOK
<1>6. ASSUME NEW u \in Display \ {t} PROVE ThreadOK(u)'
  <2>1. ThreadOK(u) /\ vt[u].cur \in Dec \cup {0} /\ vt[u].new \in Dec \cup {0}
    BY DEF FrameInv, BridgeTypes
  <2>2. QED
    BY <1>0, <1>1, <1>2, <2>1 DEF ThreadOK
<1>7. ASSUME NEW d \in Dec PROVE DrawingOK(d)'
  <2>1. CASE d = n
    BY <1>1, <1>4, <2>1 DEF DrawingOK
  <2>2. CASE d # n /\ render[d] = "run"
    <3>1. d <= created /\ owner'[d] = owner[d] /\ owner[d] \in Display
      BY <1>0, <1>2, <2>2 DEF BridgeTypes
    <3>2. d = vt[owner[d]].cur \/ d = vt[owner[d]].new
      BY <2>2 DEF FrameInv, DrawingOK
    <3>3. CASE owner[d] = t
      <4>1. d = vt[t].cur
        BY <1>0, <1>1, <3>2, <3>3 DEF ThreadOK
      <4>2. QED
        BY <1>0, <1>1, <1>2, <3>1, <3>3, <4>1 DEF DrawingOK
    <3>4. CASE owner[d] # t
      BY <1>0, <1>1, <1>2, <3>1, <3>2, <3>4 DEF DrawingOK
    <3>5. QED
      BY <3>3, <3>4
  <2>3. CASE render[d] # "run"
    BY <1>1, <2>3 DEF DrawingOK
  <2>4. QED
    BY <2>1, <2>2, <2>3
<1>8. ASSUME NEW e \in Dec, Touched(e)' PROVE Replaced(e)'
  <2>1. Touched(e) /\ Replaced(e) /\ e # n
    BY <1>1, <1>4, <1>8 DEF FrameInv, Touched
  <2>2. \A d \in Dec : d < e => d # n
    BY <1>0, <1>1, <2>1 DEF Replaced
  <2>3. QED
    BY <1>0, <1>1, <1>2, <2>1, <2>2 DEF Replaced
<1>9. QED
  BY <1>3, <1>5, <1>6, <1>7, <1>8 DEF FrameInv

(* The video thread: between connecting a decoder and joining the one it   *)
(* replaces, both may draw, but only the older one has units on the way.   *)
LEMMA ThreadDraws ==
  ASSUME SessInv, FrameInv, NEW t \in Display, VideoThread(t)
  PROVE  FrameInv'
  BY GiveUpDraws, HelloDraws, DropDraws, DecodeDraws, ConnectDraws DEF VideoThread

(* The second invariant holds of every behaviour of the bridge.            *)
THEOREM FrameInvariant == Spec => [](SessInv /\ FrameInv)
<1>1. Init => FrameInv
  <2> SUFFICES ASSUME Init PROVE FrameInv
    OBVIOUS
  <2>1. BridgeTypes /\ HwIdle
    BY BridgeBounds DEF Init, BridgeTypes, HwIdle, NoDec
  <2>2. \A t \in Display : ThreadOK(t)
    BY DEF Init, ThreadOK, NoDec
  <2>3. \A d \in Dec : DrawingOK(d)
    BY DEF Init, DrawingOK
  <2>4. \A e \in Dec : ~Touched(e)
    BY DEF Init, Touched
  <2>5. QED
    BY <2>1, <2>2, <2>3, <2>4 DEF FrameInv
<1>2. SessInv /\ FrameInv /\ [Next]_vars => FrameInv'
  <2> SUFFICES ASSUME SessInv, FrameInv, [Next]_vars PROVE FrameInv'
    OBVIOUS
  <2>1. CASE Main \/ DrainThread
    BY <2>1, DaemonDraws
  <2>2. CASE Signal \/ UNCHANGED vars
    <3>1. UNCHANGED <<vt, created, owner, render, up, down, hw, peer, main, drain>>
      BY <2>2 DEF Signal, vars, appVars, sockVars, sessVars
    <3>2. QED
      BY <3>1 DEF FrameInv, BridgeTypes, HwIdle, ThreadOK, DrawingOK, Touched, Replaced
  <2>3. ASSUME NEW t \in Display, VideoThread(t) PROVE FrameInv'
    BY <2>3, ThreadDraws
  <2>4. ASSUME NEW d \in Dec, RenderThread(d) PROVE FrameInv'
    BY <2>4, RenderDraws
  <2>5. QED
    BY <2>1, <2>2, <2>3, <2>4 DEF Next
<1>3. QED
  BY <1>1, <1>2, BridgeInvariant, PTL DEF Spec

(* Drop for GokeDecoder joins the render thread before the next access     *)
(* unit is sent: a replaced decoder draws no frame once its successor has  *)
(* one, whatever displays share the daemon.                                *)
THEOREM NoFrameOvertakes == Spec => []NoStaleFrame
<1>1. SessInv /\ FrameInv => NoStaleFrame
  <2> SUFFICES ASSUME SessInv, FrameInv, NEW d \in Dec, NEW e \in Dec,
                      owner[d] = owner[e], d < e, render[d] = "run"
               PROVE  down[e] = 0
    BY DEF NoStaleFrame
  <2>1. ~Touched(e)
    BY DEF FrameInv, Replaced
  <2>2. down[e] \in Nat
    BY DEF FrameInv, BridgeTypes
  <2>3. QED
    BY <2>1, <2>2 DEF Touched
<1>2. QED
  BY <1>1, FrameInvariant, PTL
=============================================================================
