---------------------------- MODULE WindowsProofs ----------------------------
(***************************************************************************)
(* The two services that only Windows has, which share no variable.        *)
(* The portable service, for any number of launches: RUNNING stays set     *)
(* while a helper that answered is served, and the token the IPC server    *)
(* waits for is the one in the memory shared with the helper to come.      *)
(* Both rest on the life of one launch, which its call, its helper and     *)
(* its task go through one after the other, although nothing orders the    *)
(* three processes of different launches.                                  *)
(* The privacy mode, for any number of connections: when nobody has it on  *)
(* nothing of it is left, its owner is entitled to it, and disabled        *)
(* displays can be recovered.                                              *)
(***************************************************************************)
EXTENDS PortableLaunch, PrivacyMode, TLAPS

-----------------------------------------------------------------------------
(* The portable service.                                                   *)

Types ==
  /\ STARTING_TOKEN \in Nat
  /\ entry # "no" => STARTING_TOKEN < MaxLaunch
  /\ call \in [Launch -> {"no", "clear", "create", "token", "run", "undo", "reset", "done"}]
  /\ helper \in [Launch -> {"no", "spawned", "connect", "auth", "loop", "gone"}]
  /\ task \in [Launch -> {"no", "lock", "loop", "pong", "end", "done"}]
  /\ ponged \in [Launch -> BOOLEAN]
  /\ RUNNING \in BOOLEAN /\ overlap \in BOOLEAN
  /\ token \in Nat /\ shmem \in Nat
  /\ server \in [conn : {0} \cup Launch, consumed : BOOLEAN, name : Nat]

\* A launch has a call when it has a number, a helper when its call has returned, and a
\* task when its helper was let in.
InTurn ==
  \A l \in Launch : /\ l > STARTING_TOKEN => call[l] = "no"
                    /\ helper[l] # "no" => call[l] = "done"
                    /\ task[l] # "no" => helper[l] \in {"loop", "gone"}

\* The receiver's lock: one task at a time is past it, and only that one has answered.
Serving(l) == task[l] \in {"loop", "pong", "end"}
OneServed ==
  /\ \A k, l \in Launch : Serving(k) /\ Serving(l) => k = l
  /\ \A l \in Launch : ponged[l] => task[l] \in {"loop", "pong"}

\* What the preparation of a launch has done to the memory, unless two overlapped.
Preparing(l) == call[l] \notin {"no", "done"}
Prepared ==
  ~overlap =>
    /\ \A k, l \in Launch : Preparing(k) /\ Preparing(l) => k = l
    /\ \A l \in Launch : /\ call[l] = "create" => token = 0 /\ shmem = 0
                         /\ call[l] = "token" => shmem = l /\ l \in written
    /\ server.conn # 0 /\ server.consumed => server.name = server.conn
    /\ TokenInMemory

\* The accept loop is idle, holds a connection of a helper, or has given one up.
ServerOK == server.conn \in Launch => helper[server.conn] \in {"auth", "gone"}

LifeInv == Types /\ InTurn /\ OneServed /\ RunningKept /\ ServerOK
LaunchInv == LifeInv /\ Prepared

USE DEF Launch

-----------------------------------------------------------------------------
(* The life of a launch.                                                   *)

StartStep == ReadRunning \/ Enter \/ AuthFailedReset
CallStep(l) == Clear(l) \/ Create(l) \/ set_runtime_ipc_token(l) \/ Run(l) \/ StartFailed(l)
ServeStep(l) == \/ Watch(l) \/ HelperStart(l) \/ HelperExits(l) \/ Accept(l) \/ AuthResult(l)
                \/ AuthFails(l) \/ TakeReceiver(l) \/ Pong(l) \/ PongStarting(l)
                \/ Closed(l) \/ ClosedStarting(l)

\* A new launch takes the number after the latest one, which nothing has used.
LEMMA StartKeepsLife ==
  ASSUME MaxLaunch \in Nat, LifeInv, StartStep
  PROVE  LifeInv'
  <1>1. CASE ReadRunning
    BY <1>1 DEF ReadRunning, memory, LifeInv, Types, InTurn, OneServed, Serving, RunningKept, ServerOK
  <1>2. CASE Enter
    <2>1. Types'
      <3>1. overlap' \in BOOLEAN
        BY <1>2, Zenon DEF Enter, LifeInv, Types
      <3>2. STARTING_TOKEN' \in Nat /\ entry' = "no"
        BY <1>2 DEF Enter, LifeInv, Types
      <3>3. call' \in [Launch -> {"no", "clear", "create", "token", "run", "undo", "reset", "done"}]
        BY <1>2 DEF Enter, LifeInv, Types
      <3> QED BY <1>2, <3>1, <3>2, <3>3 DEF Enter, memory, LifeInv, Types
    <2>2. InTurn'
      BY <1>2 DEF Enter, memory, LifeInv, Types, InTurn
    <2> QED BY <1>2, <2>1, <2>2 DEF Enter, memory, LifeInv, OneServed, Serving, RunningKept, ServerOK
  <1>3. CASE AuthFailedReset
    BY <1>3 DEF AuthFailedReset, Idle, launch, memory, LifeInv, Types, InTurn, OneServed, Serving, RunningKept, ServerOK
  <1> QED BY <1>1, <1>2, <1>3 DEF StartStep

\* The call of a launch touches neither its task nor, before its last step, its helper.
LEMMA CallKeepsLife ==
  ASSUME MaxLaunch \in Nat, NEW l \in Launch, LifeInv, CallStep(l)
  PROVE  LifeInv'
  <1>1. CASE Clear(l)
    BY <1>1 DEF Clear, ClearMemory, LifeInv, Types, InTurn, OneServed, Serving, RunningKept, ServerOK
  <1>2. CASE Create(l)
    BY <1>2 DEF Create, LifeInv, Types, InTurn, OneServed, Serving, RunningKept, ServerOK
  <1>3. CASE set_runtime_ipc_token(l)
    BY <1>3 DEF set_runtime_ipc_token, LifeInv, Types, InTurn, OneServed, Serving, RunningKept, ServerOK
  <1>4. CASE Run(l)
    BY <1>4 DEF Run, memory, LifeInv, Types, InTurn, OneServed, Serving, RunningKept, ServerOK
  <1>5. CASE StartFailed(l)
    BY <1>5 DEF StartFailed, memory, LifeInv, Types, InTurn, OneServed, Serving, RunningKept, ServerOK
  <1> QED BY <1>1, <1>2, <1>3, <1>4, <1>5 DEF CallStep

\* The watchdog, the helper, the accept loop and the task.
LEMMA ServeKeepsLife ==
  ASSUME MaxLaunch \in Nat, NEW l \in Launch, LifeInv, ServeStep(l)
  PROVE  LifeInv'
  <1> USE DEF launch, memory, LifeInv, Types, InTurn, OneServed, Serving, RunningKept, ServerOK, Idle
  <1>1. CASE Watch(l)
    BY <1>1 DEF Watch
  <1>2. CASE HelperStart(l)
    BY <1>2 DEF HelperStart
  <1>3. CASE HelperExits(l)
    BY <1>3 DEF HelperExits
  <1>4. CASE Accept(l)
    BY <1>4 DEF Accept
  <1>5. CASE AuthResult(l)
    <2>1. CASE server.consumed
      <3>1. task[l] = "no" /\ task' = [task EXCEPT ![l] = "lock"] /\ helper' = [helper EXCEPT ![l] = "loop"]
        BY <1>5, <2>1 DEF AuthResult
      <3>2. Types'
        BY <1>5, <3>1 DEF AuthResult
      <3>3. InTurn' /\ OneServed'
        BY <1>5, <3>1 DEF AuthResult
      <3> QED BY <1>5, <3>1, <3>2, <3>3 DEF AuthResult
    <2>2. CASE ~server.consumed
      <3>1. Types' /\ server'.conn = 0
        BY <1>5, <2>2 DEF AuthResult
      <3>2. InTurn'
        BY <1>5, <2>2 DEF AuthResult
      <3> QED BY <1>5, <2>2, <3>1, <3>2 DEF AuthResult
    <2> QED BY <2>1, <2>2
  <1>6. CASE AuthFails(l)
    <2>1. token' \in Nat
      BY <1>6 DEF AuthFails, restore
    <2>2. server' \in [conn : {0} \cup Launch, consumed : BOOLEAN, name : Nat] /\ server'.conn = 0
      BY <1>6 DEF AuthFails
    <2> QED BY <1>6, <2>1, <2>2 DEF AuthFails
  <1>7. CASE TakeReceiver(l)
    <2>1. Types' /\ InTurn'
      BY <1>7 DEF TakeReceiver
    <2>2. OneServed' /\ ~ponged[l]
      <3>1. ASSUME NEW k \in Launch, k # l PROVE ~Serving(k)'
        <4>1. task'[k] = task[k] /\ task[k] \in {"no", "lock", "done"}
          BY <1>7, <3>1 DEF TakeReceiver
        <4> QED BY <4>1
      <3>2. ~ponged[l] /\ \A k \in Launch : ~ponged[k]
        BY <1>7 DEF TakeReceiver
      <3> QED BY <1>7, <3>1, <3>2 DEF TakeReceiver
    <2> QED BY <1>7, <2>1, <2>2 DEF TakeReceiver
  <1>8. CASE Pong(l)
    BY <1>8 DEF Pong
  <1>9. CASE PongStarting(l)
    BY <1>9 DEF PongStarting
  <1>10. CASE Closed(l)
    <2>1. Types'
      BY <1>10 DEF Closed
    <2>2. InTurn' /\ OneServed'
      <3>1. \A k \in Launch : Serving(k)' => Serving(k)
        BY <1>10 DEF Closed
      <3>2. \A k \in Launch : task'[k] # "no" => task[k] # "no"
        BY <1>10 DEF Closed
      <3>3. InTurn'
        BY <1>10, <3>2 DEF Closed
      <3> QED BY <1>10, <3>1, <3>3 DEF Closed
    <2>3. RunningKept'
      BY <1>10 DEF Closed
    <2> QED BY <1>10, <2>1, <2>2, <2>3 DEF Closed
  <1>11. CASE ClosedStarting(l)
    BY <1>11 DEF ClosedStarting
  <1> QED BY <1>1, <1>2, <1>3, <1>4, <1>5, <1>6, <1>7, <1>8, <1>9, <1>10, <1>11 DEF ServeStep

-----------------------------------------------------------------------------
(* The memory and its token.                                               *)

\* A launch that begins while another one is prepared sets overlap.
LEMMA StartKeepsMemory ==
  ASSUME MaxLaunch \in Nat, LaunchInv, StartStep
  PROVE  Prepared'
  <1>1. CASE ReadRunning
    BY <1>1 DEF ReadRunning, memory, LaunchInv, Prepared, Preparing, TokenInMemory
  <1>2. CASE Enter
    <2>1. CASE UNCHANGED <<STARTING, STARTING_TOKEN, call, overlap>>
      BY <1>2, <2>1 DEF Enter, memory, LaunchInv, Prepared, Preparing, TokenInMemory
    <2>2. CASE /\ call' = [call EXCEPT ![STARTING_TOKEN + 1] = "clear"]
               /\ overlap' = (overlap \/ \E l \in Launch : call[l] \notin {"no", "done"})
      <3> SUFFICES ASSUME ~overlap' PROVE Prepared'
        BY DEF Prepared
      <3>1. ~overlap /\ \A l \in Launch : ~Preparing(l)
        BY <2>2 DEF Preparing
      <3>2. \A k \in Launch : Preparing(k)' => k = STARTING_TOKEN + 1 /\ call'[k] = "clear"
        BY <2>2, <3>1 DEF Preparing, LaunchInv, LifeInv, Types
      <3>3. \A k \in Launch : call'[k] \notin {"create", "token"}
        BY <2>2, <3>1 DEF Preparing, LaunchInv, LifeInv, Types
      <3> QED BY <1>2, <3>1, <3>2, <3>3 DEF Enter, memory, LaunchInv, Prepared, TokenInMemory
    <2> QED BY <1>2, <2>1, <2>2 DEF Enter
  <1>3. CASE AuthFailedReset
    BY <1>3 DEF AuthFailedReset, Idle, launch, memory, LaunchInv, Prepared, Preparing, TokenInMemory
  <1> QED BY <1>1, <1>2, <1>3 DEF StartStep

\* The call clears the token before it makes the memory, and gives it last.
LEMMA CallKeepsMemory ==
  ASSUME MaxLaunch \in Nat, NEW l \in Launch, LaunchInv, CallStep(l)
  PROVE  Prepared'
  <1> USE DEF memory, LaunchInv, LifeInv, Types, Prepared, Preparing, TokenInMemory
  <1>1. CASE Clear(l)
    <2> SUFFICES ASSUME ~overlap PROVE Prepared'
      BY <1>1 DEF Clear
    <2>1. Preparing(l) /\ \A k \in Launch : k # l => call[k] \in {"no", "done"}
      BY <1>1 DEF Clear
    <2>2. \A k \in Launch : k # l => call'[k] \in {"no", "done"}
      BY <1>1, <2>1 DEF Clear
    <2>3. call'[l] \in {"create", "reset"}
      BY <1>1 DEF Clear
    <2> QED BY <1>1, <2>2, <2>3 DEF Clear, ClearMemory
  <1>2. CASE Create(l)
    <2> SUFFICES ASSUME ~overlap PROVE Prepared'
      BY <1>2, Zenon DEF Create
    <2>1. Preparing(l) /\ \A k \in Launch : k # l => call[k] \in {"no", "done"}
      BY <1>2 DEF Create
    <2>2. \A k \in Launch : k # l => call'[k] \in {"no", "done"}
      BY <1>2, <2>1 DEF Create
    <2>3. token = 0
      BY <1>2 DEF Create
    <2>4. \/ call'[l] = "reset"
          \/ call'[l] = "token" /\ shmem' = l /\ l \in written'
      <3>1. call' = [call EXCEPT ![l] = "token"] => call'[l] = "token"
        OBVIOUS
      <3>2. call' = [call EXCEPT ![l] = "reset"] => call'[l] = "reset"
        OBVIOUS
      <3> QED BY <1>2, <3>1, <3>2, Zenon DEF Create
    <2> QED BY <1>2, <2>2, <2>3, <2>4 DEF Create
  <1>3. CASE set_runtime_ipc_token(l)
    BY <1>3 DEF set_runtime_ipc_token
  <1>4. CASE Run(l)
    BY <1>4 DEF Run
  <1>5. CASE StartFailed(l)
    BY <1>5 DEF StartFailed
  <1> QED BY <1>1, <1>2, <1>3, <1>4, <1>5 DEF CallStep

\* A token is consumed with its memory's copy and put back only into that memory: the
\* helper that connects belongs to a launch whose call has returned.
LEMMA ServeKeepsMemory ==
  ASSUME MaxLaunch \in Nat, NEW l \in Launch, LaunchInv, ServeStep(l)
  PROVE  Prepared'
  <1>1. CASE Accept(l)
    BY <1>1 DEF Accept, launch, Idle, LaunchInv, LifeInv, Types, InTurn, Prepared, Preparing, TokenInMemory
  <1>2. CASE AuthFails(l)
    BY <1>2 DEF AuthFails, restore, Idle, launch, LaunchInv, LifeInv, Types, InTurn, Prepared, Preparing, TokenInMemory
  <1>3. CASE AuthResult(l)
    BY <1>3 DEF AuthResult, Idle, launch, memory, LaunchInv, Prepared, Preparing, TokenInMemory
  <1>4. CASE UNCHANGED <<launch, memory, server, overlap>>
    BY <1>4 DEF launch, memory, LaunchInv, Prepared, Preparing, TokenInMemory
  <1> QED BY <1>1, <1>2, <1>3, <1>4 DEF ServeStep, Watch, HelperStart, HelperExits, TakeReceiver, Pong,
             PongStarting, Closed, ClosedStarting

-----------------------------------------------------------------------------
\* The invariant of the launch holds in every state, for any number of launches.
THEOREM LaunchInvariant ==
  ASSUME MaxLaunch \in Nat
  PROVE  Spec => []LaunchInv
  <1>1. Init => LaunchInv
    <2> SUFFICES ASSUME Init PROVE LaunchInv
      OBVIOUS
    <2>1. Types
      BY DEF Init, Idle, Types
    <2>2. InTurn /\ OneServed /\ RunningKept
      BY DEF Init, InTurn, OneServed, Serving, RunningKept
    <2>3. ServerOK
      BY DEF Init, Idle, ServerOK
    <2>4. Prepared
      BY DEF Init, Idle, Prepared, Preparing, TokenInMemory
    <2> QED BY <2>1, <2>2, <2>3, <2>4 DEF LaunchInv, LifeInv
  <1>2. LaunchInv /\ [Next]_vars => LaunchInv'
    <2> SUFFICES ASSUME LaunchInv, [Next]_vars
                 PROVE  LaunchInv'
      OBVIOUS
    <2>1. CASE StartStep
      BY <2>1, StartKeepsLife, StartKeepsMemory DEF LaunchInv
    <2>2. ASSUME NEW l \in Launch, CallStep(l)
          PROVE  LaunchInv'
      BY <2>2, CallKeepsLife, CallKeepsMemory DEF LaunchInv
    <2>3. ASSUME NEW l \in Launch, ServeStep(l)
          PROVE  LaunchInv'
      BY <2>3, ServeKeepsLife, ServeKeepsMemory DEF LaunchInv
    <2>4. CASE UNCHANGED vars
      BY <2>4 DEF vars, launch, memory, LaunchInv, LifeInv, Types, InTurn, OneServed, Serving, RunningKept,
         ServerOK, Prepared, Preparing, TokenInMemory
    <2> QED BY <2>1, <2>2, <2>3, <2>4 DEF Next, StartStep, CallStep, ServeStep
  <1> QED BY <1>1, <1>2, PTL DEF Spec

\* RUNNING stays set while the connection of a helper that has answered is served: the
\* end of an earlier connection cannot clear it (the lock of the receiver in the tasks of
\* the IPC server), however many launches there are.
THEOREM RunningIsKept ==
  ASSUME MaxLaunch \in Nat
  PROVE  Spec => []RunningKept
  BY LaunchInvariant, PTL DEF LaunchInv, LifeInv

\* The token the IPC server waits for is in the memory of the helper to come, also after
\* restore_runtime_ipc_token_after_failed_handshake, unless two launches overlapped.
THEOREM TokenIsInMemory ==
  ASSUME MaxLaunch \in Nat
  PROVE  Spec => []TokenInMemory
  <1>1. LaunchInv => TokenInMemory
    BY DEF LaunchInv, Prepared, TokenInMemory
  <1> QED BY <1>1, LaunchInvariant, PTL

-----------------------------------------------------------------------------
(* The privacy mode.                                                       *)

\* Connections have ids other than 0, and there are two implementations.
Ids == Conn # {} /\ 0 \notin Conn /\ Impl \subseteq {"window", "idd"}

Mode == [impl : Impl, owner : Conn \cup {0}, hook : {None, "on", "exiting"}, covered : BOOLEAN,
         broker : {None, "ours", "foreign"}, displays : {"normal", "off"}, recovery : BOOLEAN]

Place == {"new", "idle", "await", "ok", "err", "false", "reset", "ending", "resetting", "closed", "down"}

ModeTypes ==
  /\ pm \in Mode /\ lock \in Conn \cup {0} /\ st \in [Conn -> Place]
  /\ job \in [Conn -> Impl \cup {None, "disabled"}] /\ perm \in [Conn -> BOOLEAN]

\* The mutex is held for a job, by a connection that took it when nobody had the mode on.
Held ==
  /\ lock # 0 => /\ pm.owner = 0 /\ job[lock] \in {pm.impl, "disabled"}
                 /\ job[lock] = "disabled" => pm.impl = "idd"
  /\ \A c \in Conn : job[c] = "disabled" => lock = c

\* Between a crash and the restart there is nobody.
Down == \E c \in Conn : st[c] = "down"
AllDown == Down => /\ \A c \in Conn : st[c] = "down" /\ job[c] = None
                   /\ lock = 0 /\ pm.owner = 0 /\ pm.hook = None

\* Without an owner the local input is free, and only an owner of windows covers the screens.
Free ==
  /\ pm.owner = 0 => pm.hook # "on"
  /\ ~crashed => /\ pm.broker # "foreign"
                 /\ pm.covered => pm.owner # 0 /\ pm.impl = "window"

\* Displays are disabled while a job is between its two steps or a virtual display has an owner.
Changing == lock # 0 /\ job[lock] = "disabled"
Screens ==
  ~torn =>
    /\ ~Down => (pm.displays = "off" \/ pm.recovery => Changing \/ (pm.owner # 0 /\ pm.impl = "idd"))
    /\ pm.displays = "off" => Changing \/ pm.recovery

\* Whoever is to get the answer of a job waits for it and is permitted.
Waiting == \A c \in Conn : job[c] # None /\ c \notin late => st[c] = "await" /\ perm[c]

ModeInv ==
  /\ ModeTypes /\ Held /\ AllDown /\ Waiting
  /\ ~postfail => Free /\ Screens /\ OwnerEntitled

-----------------------------------------------------------------------------
(* What the implementations do to the mode.                                *)

\* The mode q is p turned off: the input is free, the windows are gone or the displays are back.
IsOff(p, q) ==
  /\ q.owner = 0 /\ q.hook # "on" /\ q.broker = p.broker
  /\ p.impl = "idd" => q.displays = "normal" /\ ~q.recovery /\ q.covered = p.covered
  /\ p.impl # "idd" => ~q.covered /\ q.displays = p.displays /\ q.recovery = p.recovery

\* Stopping the broker takes its windows away and touches nothing else.
LEMMA StopDoes ==
  ASSUME NEW p \in Mode
  PROVE  /\ stop(p) \in Mode
         /\ stop(p).impl = p.impl /\ stop(p).owner = p.owner /\ stop(p).hook = p.hook
         /\ stop(p).displays = p.displays /\ stop(p).recovery = p.recovery
         /\ stop(p).covered => p.covered
         /\ stop(p).broker = "foreign" => p.broker = "foreign"
         /\ p.broker = "ours" => ~stop(p).covered
  <1>1. CASE p.broker = "ours"
    <2>1. [p EXCEPT !.broker = None, !.covered = FALSE] \in Mode
      BY DEF Mode, None
    <2> QED BY <1>1, <2>1 DEF stop, Mode, None
  <1>2. CASE p.broker # "ours"
    BY <1>2 DEF stop
  <1> QED BY <1>1, <1>2

\* turn_off_privacy keeps the implementation, leaves the mode of another connection alone, and turns
\* the mode off when its messages arrive.
LEMMA TurnOffDoes ==
  ASSUME NEW p \in Mode, NEW id \in Conn \cup {0}, NEW post \in BOOLEAN, NEW hide \in BOOLEAN, Ids
  PROVE  LET q == turn_off_privacy(p, id, post, hide) IN
         /\ q \in Mode /\ q.impl = p.impl
         /\ q.owner \in {0, p.owner}
         /\ p.hook = None => q.hook = None
         /\ NotOwner(p, id) => q = p
         /\ ~NotOwner(p, id) /\ ~Failed(p, post, hide) => IsOff(p, q)
  <1> DEFINE u == [unhook(p, post) EXCEPT !.owner = 0]
             q == turn_off_privacy(p, id, post, hide)
  <1>1. u \in Mode
    <2>1. unhook(p, post) \in Mode
      BY DEF unhook, Mode, None
    <2> QED BY <2>1 DEF Mode
  <1>2. /\ u.impl = p.impl /\ u.owner = 0 /\ u.broker = p.broker /\ u.covered = p.covered
        /\ u.displays = p.displays /\ u.recovery = p.recovery
        /\ (p.hook = None => u.hook = None) /\ (p.hook # None /\ post => u.hook = "exiting")
    BY DEF unhook, Mode, None
  <1>3. CASE NotOwner(p, id) \/ (p.hook # None /\ ~post)
    BY <1>3 DEF turn_off_privacy, Failed
  <1>4. CASE ~(NotOwner(p, id) \/ (p.hook # None /\ ~post)) /\ p.impl = "idd"
    <2>1. q = Displays_on(u)
      BY <1>4 DEF turn_off_privacy
    <2> HIDE DEF u, q
    <2>2. q \in Mode /\ q.impl = p.impl /\ q.owner = 0 /\ q.broker = p.broker /\ q.covered = p.covered
          /\ q.hook = u.hook /\ q.displays = "normal" /\ q.recovery = FALSE
      BY <1>1, <1>2, <2>1 DEF Displays_on, Mode
    <2>3. p.hook = None \/ post
      BY <1>4
    <2>4. q.hook # "on" /\ (p.hook = None => q.hook = None)
      BY <1>2, <2>2, <2>3 DEF None
    <2> QED BY <1>4, <2>2, <2>4 DEF IsOff, q
  <1>5. CASE ~(NotOwner(p, id) \/ (p.hook # None /\ ~post)) /\ p.impl # "idd"
    <2>1. q = Windows_off(u, hide)
      BY <1>5 DEF turn_off_privacy
    <2> HIDE DEF u, q
    <2>2. u.hook # "on" /\ (p.hook = None => u.hook = None)
      BY <1>2, <1>5 DEF None
    <2>3. CASE hide \/ u.broker = None
      <3>1. q = [u EXCEPT !.covered = FALSE]
        BY <2>1, <2>3 DEF Windows_off
      <3>2. q \in Mode /\ q.impl = p.impl /\ q.owner = 0 /\ q.broker = p.broker /\ q.covered = FALSE
            /\ q.hook = u.hook /\ q.displays = p.displays /\ q.recovery = p.recovery
        BY <1>1, <1>2, <3>1 DEF Mode
      <3> QED BY <1>5, <2>2, <3>2 DEF IsOff, q
    <2>4. CASE ~(hide \/ u.broker = None)
      <3>1. q = stop(u) /\ Failed(p, post, hide)
        BY <1>2, <2>1, <2>4 DEF Windows_off, Failed
      <3> QED BY <1>1, <1>2, <1>5, <2>2, <3>1, StopDoes DEF q
    <2> QED BY <2>3, <2>4
  <1> QED BY <1>3, <1>4, <1>5

\* The mode that Replace leaves to the new implementation, apart from the broker's windows.
OffFirst(p, post, hide) == IF p.owner = 0 THEN p ELSE turn_off_privacy(p, p.owner, post, hide)
Created(p, k, post, hide) ==
  LET r == Replace(p, k, post, hide)
      q == OffFirst(p, post, hide) IN
  /\ r \in Mode /\ r.impl = k /\ r.owner = 0
  /\ r.hook = q.hook /\ r.displays = q.displays /\ r.recovery = q.recovery
  /\ r.covered => q.covered
  /\ r.broker = "foreign" => q.broker = "foreign"
  /\ p.hook = None => r.hook = None
  /\ p.owner # 0 /\ ~Failed(p, post, hide) => IsOff(p, q)

\* Another implementation starts with the mode off; what the old one showed is gone if it was
\* turned off.
LEMMA ReplaceDoes ==
  ASSUME NEW p \in Mode, NEW k \in Impl, NEW post \in BOOLEAN, NEW hide \in BOOLEAN, Ids
  PROVE  Created(p, k, post, hide)
  <1> DEFINE q == OffFirst(p, post, hide)
             r == Replace(p, k, post, hide)
  <1>1. p.owner \in Conn \cup {0} /\ ~NotOwner(p, p.owner)
    BY DEF Mode, NotOwner
  <1>2. q \in Mode /\ (p.hook = None => q.hook = None) /\ (p.owner # 0 /\ ~Failed(p, post, hide) => IsOff(p, q))
    BY <1>1, TurnOffDoes DEF OffFirst
  <1>3. r = [stop(q) EXCEPT !.impl = k, !.owner = 0]
    BY DEF Replace, OffFirst
  <1> HIDE DEF q, r
  <1>4. stop(q) \in Mode /\ stop(q).hook = q.hook /\ stop(q).displays = q.displays /\ stop(q).recovery = q.recovery
        /\ (stop(q).covered => q.covered) /\ (stop(q).broker = "foreign" => q.broker = "foreign")
    BY <1>2, StopDoes
  <1>5. r \in Mode /\ r.impl = k /\ r.owner = 0 /\ r.hook = q.hook /\ r.displays = q.displays
        /\ r.recovery = q.recovery /\ r.covered = stop(q).covered /\ r.broker = stop(q).broker
    BY <1>3, <1>4 DEF Mode
  <1> QED BY <1>2, <1>4, <1>5 DEF Created, q, r

-----------------------------------------------------------------------------
(* The steps.                                                              *)

\* What a step that turns the mode off, or leaves it as it is, does for connection c (0: the hot key).
Turned(c) ==
  /\ UNCHANGED <<lock, job, late, torn, crashed>>
  /\ st' \in [Conn -> Place] /\ perm' \in [Conn -> BOOLEAN]
  /\ \A d \in Conn \ {c} : st'[d] = st[d] /\ perm'[d] = perm[d]
  /\ c \in Conn => st[c] # "await" /\ st'[c] # "down"

\* The owner may stay the owner.
Entitled(c) ==
  ~postfail' /\ c \notin late /\ c \in Conn /\ pm'.owner = c =>
    perm'[c] /\ st'[c] \notin {"ending", "resetting", "closed", "new"}

\* Where messages arrive the mode is off afterwards; otherwise nothing is claimed.
LEMMA OffDoes ==
  ASSUME Ids, ModeInv, NEW c, NEW id \in Conn \cup {0}, NEW post \in BOOLEAN, NEW hide \in BOOLEAN,
         Off(c, id, post, hide)
  PROVE  /\ pm' \in Mode /\ pm'.impl = pm.impl /\ pm'.owner \in {0, pm.owner}
         /\ ~postfail' => ~postfail /\ (IF NotOwner(pm, id) THEN pm' = pm ELSE IsOff(pm, pm'))
  <1>1. pm \in Mode /\ pm' = turn_off_privacy(pm, id, post, hide)
    BY DEF ModeInv, ModeTypes, Off
  <1>2. ~postfail' => ~postfail /\ ~Failed(pm, post, hide)
    BY Zenon DEF Off
  <1>3. /\ pm' \in Mode /\ pm'.impl = pm.impl /\ pm'.owner \in {0, pm.owner}
        /\ NotOwner(pm, id) => pm' = pm
        /\ ~NotOwner(pm, id) /\ ~Failed(pm, post, hide) => IsOff(pm, pm')
    BY <1>1, TurnOffDoes
  <1> QED BY <1>2, <1>3

\* Turning the mode off where it may be, or not touching it, keeps the invariant.
LEMMA TurnedKeeps ==
  ASSUME Ids, ModeInv, lock = 0, ~Down, NEW c \in Conn \cup {0}, Turned(c), Entitled(c),
         pm' \in Mode, pm'.impl = pm.impl, pm'.owner \in {0, pm.owner},
         ~postfail' => ~postfail /\ (pm' = pm \/ IsOff(pm, pm'))
  PROVE  ModeInv'
  <1> USE DEF Ids
  <1>1. ModeTypes'
    BY DEF ModeInv, ModeTypes, Turned
  <1>2. Held'
    BY DEF ModeInv, Held, Turned
  <1>3. ~Down'
    BY DEF Down, Turned
  <1>4. AllDown'
    BY <1>3 DEF AllDown
  <1>5. Waiting'
    BY DEF ModeInv, Waiting, Turned
  <1>6. ASSUME ~postfail' PROVE Free'
    BY <1>6 DEF ModeInv, Free, IsOff, Turned, Mode, ModeTypes
  <1>7. ASSUME ~postfail' PROVE Screens'
    <2>1. ~torn => (pm.displays = "off" \/ pm.recovery => pm.owner # 0 /\ pm.impl = "idd")
      BY <1>7 DEF ModeInv, Screens, Changing
    <2>2. ~torn /\ pm.displays = "off" => pm.recovery
      BY <1>7 DEF ModeInv, Screens, Changing
    <2>3. CASE pm' = pm
      BY <2>1, <2>2, <2>3, <1>3 DEF Screens, Changing, Turned
    <2>4. CASE IsOff(pm, pm')
      <3>1. ~torn => pm'.displays # "off" /\ ~pm'.recovery
        BY <2>1, <2>4 DEF IsOff
      <3> QED BY <3>1 DEF Screens, Turned
    <2> QED BY <1>7, <2>3, <2>4
  <1>8. ASSUME ~postfail' PROVE OwnerEntitled'
    BY <1>8 DEF ModeInv, OwnerEntitled, Turned, Entitled
  <1> QED BY <1>1, <1>2, <1>4, <1>5, <1>6, <1>7, <1>8 DEF ModeInv

\* A step with Off is such a step.
LEMMA OffKeeps ==
  ASSUME Ids, ModeInv, lock = 0, ~Down, NEW c \in Conn \cup {0}, Turned(c),
         NEW id \in Conn \cup {0}, NEW post \in BOOLEAN, NEW hide \in BOOLEAN, Off(c, id, post, hide), Entitled(c)
  PROVE  ModeInv'
  BY OffDoes, TurnedKeeps

\* So is one that leaves the mode alone.
LEMMA LeftKeeps ==
  ASSUME Ids, ModeInv, lock = 0, ~Down, NEW c \in Conn \cup {0}, Turned(c), UNCHANGED <<pm, postfail>>, Entitled(c)
  PROVE  ModeInv'
  <1>1. pm' \in Mode /\ pm'.impl = pm.impl /\ pm'.owner \in {0, pm.owner}
    BY DEF ModeInv, ModeTypes
  <1> QED BY <1>1, TurnedKeeps

\* The steps of a connection's task that turn the mode off, and the hot key.
OffStep(c, post, hide) ==
  \/ Succeeded(c, post, hide) \/ ResetAfterError(c, post, hide) \/ RequestOff(c, post, hide)
  \/ \E e \in BOOLEAN : SwitchPermission(c, e, post, hide)
  \/ Close(c, post, hide) \/ reset_all(c, post, hide)

\* Each of them turns the mode off for its owner, or leaves an owner who is entitled.
LEMMA OffStepKeeps ==
  ASSUME Ids, ModeInv, NEW c \in Conn, NEW post \in BOOLEAN, NEW hide \in BOOLEAN, OffStep(c, post, hide)
  PROVE  ModeInv'
  <1>1. lock = 0 /\ st[c] \in {"ok", "reset", "idle", "resetting"}
    BY DEF OffStep, Succeeded, ResetAfterError, RequestOff, SwitchPermission, Close, reset_all
  <1>2. st \in [Conn -> Place] /\ perm \in [Conn -> BOOLEAN] /\ pm \in Mode
    BY DEF ModeInv, ModeTypes
  <1>3. ~Down
    BY <1>1 DEF ModeInv, AllDown
  <1>4. ~postfail /\ c \notin late /\ pm.owner = c => perm[c] /\ st[c] \notin {"ending", "resetting", "closed", "new"}
    BY DEF ModeInv, OwnerEntitled
  <1>5. c # 0 /\ ~NotOwner(pm, 0) /\ (pm.owner \in {0, c} => ~NotOwner(pm, c))
    BY DEF Ids, NotOwner
  <1>6. CASE Succeeded(c, post, hide)
    <2>1. Turned(c)
      BY <1>1, <1>2, <1>6 DEF Succeeded, Turned, Place
    <2>2. perm' = perm /\ st'[c] = "idle"
      BY <1>2, <1>6 DEF Succeeded
    <2>3. CASE UNCHANGED <<pm, postfail>>
      <3>1. Entitled(c)
        BY <1>4, <2>2, <2>3 DEF Entitled
      <3> QED BY <1>1, <1>3, <2>1, <2>3, <3>1, LeftKeeps
    <2>4. CASE Off(c, c, post, hide)
      <3>1. Entitled(c)
        BY <1>4, <1>5, <2>2, <2>4, OffDoes DEF Entitled
      <3> QED BY <1>1, <1>3, <2>1, <2>4, <3>1, OffKeeps
    <2> QED BY <1>6, <2>3, <2>4 DEF Succeeded
  <1>7. CASE ResetAfterError(c, post, hide) \/ reset_all(c, post, hide)
    <2>1. Turned(c) /\ Off(c, 0, post, hide)
      BY <1>1, <1>2, <1>7 DEF ResetAfterError, reset_all, Turned, Place
    <2>2. Entitled(c)
      BY <1>5, <2>1, OffDoes DEF Entitled, IsOff
    <2> QED BY <1>1, <1>3, <2>1, <2>2, OffKeeps
  <1>8. CASE RequestOff(c, post, hide)
    <2>1. Turned(c) /\ Off(c, c, post, hide) /\ perm' = perm /\ st' = st
      BY <1>1, <1>2, <1>8 DEF RequestOff, Turned
    <2>2. Entitled(c)
      BY <1>4, <1>5, <2>1, OffDoes DEF Entitled
    <2> QED BY <1>1, <1>3, <2>1, <2>2, OffKeeps
  <1>9. ASSUME NEW e \in BOOLEAN, SwitchPermission(c, e, post, hide) PROVE ModeInv'
    <2>1. Turned(c) /\ st' = st /\ st[c] = "idle"
      BY <1>1, <1>2, <1>9 DEF SwitchPermission, Turned
    <2>2. CASE ~e /\ pm.owner = c
      <3>1. Off(c, c, post, hide)
        BY <1>9, <2>2 DEF SwitchPermission
      <3>2. Entitled(c)
        BY <1>5, <2>2, <3>1, OffDoes DEF Entitled, IsOff
      <3> QED BY <1>1, <1>3, <2>1, <3>1, <3>2, OffKeeps
    <2>3. CASE ~(~e /\ pm.owner = c)
      <3>1. UNCHANGED <<pm, postfail>> /\ perm' = [perm EXCEPT ![c] = e]
        BY <1>9, <2>3 DEF SwitchPermission
      <3>2. Entitled(c)
        BY <1>2, <2>1, <2>3, <3>1 DEF Entitled
      <3> QED BY <1>1, <1>3, <2>1, <3>1, <3>2, LeftKeeps
    <2> QED BY <2>2, <2>3
  <1>10. CASE Close(c, post, hide)
    <2>1. Turned(c)
      BY <1>1, <1>2, <1>10 DEF Close, Turned, Place
    <2>2. CASE pm.owner = c
      <3>1. Off(c, c, post, hide)
        BY <1>10, <2>2 DEF Close
      <3>2. Entitled(c)
        BY <1>5, <2>2, <3>1, OffDoes DEF Entitled, IsOff
      <3> QED BY <1>1, <1>3, <2>1, <3>1, <3>2, OffKeeps
    <2>3. CASE pm.owner # c
      <3>1. UNCHANGED <<pm, postfail>>
        BY <1>10, <2>3 DEF Close
      <3>2. Entitled(c)
        BY <2>3, <3>1 DEF Entitled
      <3> QED BY <1>1, <1>3, <2>1, <3>1, <3>2, LeftKeeps
    <2> QED BY <2>2, <2>3
  <1> QED BY <1>6, <1>7, <1>8, <1>9, <1>10 DEF OffStep

\* The hot key turns the mode off, whosever it is.
LEMMA HotKeyKeeps ==
  ASSUME Ids, ModeInv, NEW post \in BOOLEAN, NEW hide \in BOOLEAN, HotKey(post, hide)
  PROVE  ModeInv'
  <1>1. lock = 0 /\ ~Down /\ Off(0, 0, post, hide)
    BY DEF HotKey, ModeInv, AllDown
  <1>2. Turned(0) /\ Entitled(0)
    BY DEF HotKey, Turned, Entitled, Ids, ModeInv, ModeTypes
  <1> QED BY <1>1, <1>2, OffKeeps

\* A step that only moves connection c to another place.
PlaceStep(c) == Timeout(c) \/ Login(c) \/ Unsucceeded(c) \/ DropConn(c)

\* Who times out is late from then on; who logs in or drops does not own the mode.
LEMMA PlaceStepKeeps ==
  ASSUME Ids, ModeInv, NEW c \in Conn, PlaceStep(c)
  PROVE  ModeInv'
  <1>1. UNCHANGED <<pm, lock, job, perm, postfail, torn, crashed>>
    BY DEF PlaceStep, Timeout, Login, Unsucceeded, DropConn
  <1>2. st \in [Conn -> Place] /\ st[c] # "down"
    BY DEF PlaceStep, Timeout, Login, Unsucceeded, DropConn, ModeInv, ModeTypes
  <1>3. /\ st' = [st EXCEPT ![c] = st'[c]] /\ st'[c] \in Place \ {"down"}
        /\ late \subseteq late' /\ (st[c] = "await" => c \in late')
    <2>1. CASE Timeout(c)
      BY <1>2, <2>1 DEF Timeout, Place
    <2>2. CASE Login(c)
      BY <1>2, <2>2 DEF Login, Place
    <2>3. CASE Unsucceeded(c)
      BY <1>2, <2>3 DEF Unsucceeded, Place
    <2>4. CASE DropConn(c)
      BY <1>2, <2>4 DEF DropConn, Place
    <2> QED BY <2>1, <2>2, <2>3, <2>4 DEF PlaceStep
  <1>4. ~postfail /\ pm.owner = c /\ c \notin late' => st'[c] \notin {"ending", "resetting", "closed", "new"}
    <2>1. ~postfail /\ pm.owner = c /\ c \notin late => st[c] \notin {"ending", "resetting", "closed", "new"}
      BY DEF ModeInv, OwnerEntitled
    <2>2. CASE Timeout(c)
      BY <1>2, <2>2 DEF Timeout
    <2>3. CASE Login(c)
      BY <1>3, <2>1, <2>3 DEF Login
    <2>4. CASE Unsucceeded(c)
      BY <1>2, <2>4 DEF Unsucceeded
    <2>5. CASE DropConn(c)
      BY <1>3, <2>1, <2>5 DEF DropConn
    <2> QED BY <2>2, <2>3, <2>4, <2>5 DEF PlaceStep
  <1>5. ModeTypes'
    BY <1>1, <1>2, <1>3 DEF ModeInv, ModeTypes
  <1>6. Held'
    BY <1>1 DEF ModeInv, Held
  <1>7. ~Down /\ ~Down'
    BY <1>2, <1>3 DEF ModeInv, AllDown, Down
  <1>8. Waiting'
    BY <1>1, <1>2, <1>3 DEF ModeInv, Waiting
  <1>9. ASSUME ~postfail PROVE Free' /\ Screens'
    BY <1>1, <1>7, <1>9 DEF ModeInv, Free, Screens, Changing
  <1>10. ASSUME ~postfail PROVE OwnerEntitled'
    BY <1>1, <1>2, <1>3, <1>4, <1>10 DEF ModeInv, OwnerEntitled
  <1> QED BY <1>1, <1>5, <1>6, <1>7, <1>8, <1>9, <1>10 DEF ModeInv, AllDown

-----------------------------------------------------------------------------
(* turn_on_privacy.                                                        *)

\* A request starts a job while the mutex is free, with the permission.
LEMMA RequestOnKeeps ==
  ASSUME Ids, ModeInv, NEW c \in Conn, NEW k \in Impl, RequestOn(c, k)
  PROVE  ModeInv'
  <1>1. /\ st[c] = "idle" /\ perm[c] /\ lock = 0 /\ UNCHANGED <<pm, lock, perm, postfail, late, torn, crashed>>
        /\ st' = [st EXCEPT ![c] = "await"] /\ job' = [job EXCEPT ![c] = k]
    BY DEF RequestOn
  <1>2. ModeTypes'
    BY <1>1 DEF ModeInv, ModeTypes, Place
  <1>3. Held'
    BY <1>1 DEF ModeInv, Held, ModeTypes, Ids
  <1>4. ~Down /\ ~Down'
    BY <1>1 DEF ModeInv, ModeTypes, AllDown, Down
  <1>5. Waiting'
    BY <1>1 DEF ModeInv, ModeTypes, Waiting
  <1>6. ASSUME ~postfail PROVE Free' /\ Screens'
    BY <1>1, <1>4, <1>6 DEF ModeInv, Free, Screens, Changing
  <1>7. ASSUME ~postfail PROVE OwnerEntitled'
    BY <1>1, <1>7 DEF ModeInv, ModeTypes, OwnerEntitled
  <1> QED BY <1>1, <1>2, <1>3, <1>4, <1>5, <1>6, <1>7 DEF ModeInv, AllDown

\* What holds of the mode when a job is answered: nobody's displays are disabled, nobody's input is
\* blocked, and the new owner, if any, is the one who gets the answer "ok".
Settled(c, res) ==
  /\ pm' \in Mode
  /\ ~postfail' =>
       /\ ~postfail /\ Free'
       /\ ~torn => /\ pm'.displays = "off" \/ pm'.recovery => pm'.owner # 0 /\ pm'.impl = "idd"
                   /\ pm'.displays = "off" => pm'.recovery
       /\ pm'.owner # pm.owner => pm'.owner = c /\ res = "ok"

\* The answer to a job frees the mutex; the new owner waited for it or had given up.
LEMMA AnswerKeeps ==
  ASSUME Ids, ModeInv, NEW c \in Conn, NEW res \in {"ok", "err", "false"}, Answer(c, res),
         lock \in {0, c}, job[c] # None, Settled(c, res), UNCHANGED <<perm, torn, crashed>>
  PROVE  ModeInv'
  <1>1. /\ st \in [Conn -> Place] /\ job \in [Conn -> Impl \cup {None, "disabled"}] /\ perm \in [Conn -> BOOLEAN]
        /\ ~Down
    BY DEF ModeInv, ModeTypes, AllDown
  <1>2. /\ lock' = 0 /\ late' = late /\ job' = [job EXCEPT ![c] = None]
        /\ st'[c] = IF st[c] = "await" THEN res ELSE st[c]
        /\ \A d \in Conn \ {c} : st'[d] = st[d]
        /\ st' \in [Conn -> Place]
    BY <1>1 DEF Answer, Place
  <1>3. ModeTypes'
    BY <1>1, <1>2 DEF ModeTypes, Settled
  <1>4. Held'
    BY <1>1, <1>2 DEF ModeInv, Held, Ids, None
  <1>5. ~Down'
    BY <1>1, <1>2 DEF Down
  <1>6. Waiting'
    BY <1>1, <1>2 DEF ModeInv, Waiting
  <1>7. ASSUME ~postfail' PROVE Screens'
    BY <1>2, <1>5, <1>7 DEF Screens, Changing, Settled
  <1>8. ASSUME ~postfail' PROVE OwnerEntitled'
    <2>1. ASSUME NEW d \in Conn, pm'.owner = d, d \notin late
          PROVE  perm[d] /\ st'[d] \notin {"ending", "resetting", "closed", "new"}
      <3>1. CASE pm.owner = d
        <4>1. perm[d] /\ st[d] \notin {"ending", "resetting", "closed", "new"}
          BY <1>8, <2>1, <3>1 DEF ModeInv, OwnerEntitled, Settled
        <4> QED BY <1>2, <4>1
      <3>2. CASE pm.owner # d
        <4>1. d = c /\ res = "ok"
          BY <1>8, <2>1, <3>2 DEF Settled
        <4>2. st[c] = "await" /\ perm[c]
          BY <2>1, <4>1 DEF ModeInv, Waiting
        <4> QED BY <1>2, <4>1, <4>2
      <3> QED BY <3>1, <3>2
    <2> QED BY <1>2, <2>1 DEF OwnerEntitled
  <1>9. ~postfail' => Free'
    BY DEF Settled
  <1> QED BY <1>3, <1>4, <1>5, <1>6, <1>7, <1>8, <1>9 DEF ModeInv, AllDown

\* With the mutex free, or held by a job that has not touched the displays, and no owner, nothing is left.
LEMMA NothingOn ==
  ASSUME ModeInv, ~postfail, ~Down, ~Changing, pm.owner = 0
  PROVE  /\ Free /\ pm.hook # "on" /\ (~crashed => ~pm.covered)
         /\ ~torn => pm.displays # "off" /\ ~pm.recovery
  BY DEF ModeInv, Free, Screens

\* A replaced implementation has nothing on.
LEMMA ReplaceSettles ==
  ASSUME Ids, ModeInv, ~postfail, ~Changing, NEW k \in Impl, NEW post \in BOOLEAN, NEW hide \in BOOLEAN,
         ~Failed(pm, post, hide), ~Down, pm' = Replace(pm, k, post, hide), crashed' = crashed
  PROVE  Free' /\ (~torn => pm'.displays # "off" /\ ~pm'.recovery)
  <1> DEFINE q == OffFirst(pm, post, hide)
  <1>0. Created(pm, k, post, hide)
    BY ReplaceDoes DEF ModeInv, ModeTypes
  <1>1. /\ pm'.owner = 0 /\ pm'.hook = q.hook /\ pm'.displays = q.displays /\ pm'.recovery = q.recovery
        /\ pm'.covered => q.covered
        /\ pm'.broker = "foreign" => q.broker = "foreign"
        /\ pm.owner # 0 => IsOff(pm, q)
    BY <1>0 DEF Created
  <1>2. /\ ~crashed => pm.broker # "foreign" /\ (pm.covered => pm.impl = "window")
        /\ ~torn => (pm.displays = "off" \/ pm.recovery => pm.impl = "idd")
    BY DEF ModeInv, Free, Screens
  <1>3. CASE pm.owner = 0
    <2>1. q = pm
      BY <1>3 DEF OffFirst
    <2> HIDE DEF q
    <2> QED BY <1>1, <1>2, <1>3, <2>1, NothingOn DEF Free
  <1>4. CASE pm.owner # 0
    <2> HIDE DEF q
    <2> QED BY <1>1, <1>2, <1>4 DEF IsOff, Free
  <1> QED BY <1>3, <1>4

\* The head of turn_on_privacy takes the mutex with the mode off, or answers at once.
LEMMA SyncKeeps ==
  ASSUME Ids, ModeInv, NEW c \in Conn, NEW post \in BOOLEAN, NEW hide \in BOOLEAN, turn_on_privacy_sync(c, post, hide)
  PROVE  ModeInv'
  <1>1. job[c] # None /\ lock = 0 /\ UNCHANGED <<perm, torn, crashed>> /\ ~Down /\ pm \in Mode
    BY DEF turn_on_privacy_sync, ModeInv, ModeTypes, AllDown
  <1>2. ASSUME NEW res \in {"ok", "err", "false"}, Answer(c, res), UNCHANGED <<pm, postfail>> PROVE ModeInv'
    <2>1. ~postfail => Free'
      BY <1>1, <1>2 DEF ModeInv, Free
    <2>2. Settled(c, res)
      BY <1>1, <1>2, <2>1 DEF ModeInv, Screens, Changing, Settled
    <2> QED BY <1>1, <1>2, <2>2, AnswerKeeps
  <1>3. CASE /\ pm.owner \in {0, c} /\ ~(pm.owner = c /\ pm.impl = job[c])
             /\ pm' = IF pm.impl = job[c] THEN pm ELSE Replace(pm, job[c], post, hide)
             /\ postfail' = (postfail \/ (pm.impl # job[c] /\ Failed(pm, post, hide)))
             /\ lock' = c /\ UNCHANGED <<st, job, late>>
    <2>1. job[c] \in Impl /\ c # 0 /\ job[c] # "disabled"
      BY <1>1 DEF ModeInv, ModeTypes, Held, Ids
    <2>2. pm' \in Mode /\ pm'.owner = 0 /\ pm'.impl = job[c]
      <3>1. CASE pm.impl = job[c]
        BY <1>1, <1>3, <3>1
      <3>2. CASE pm.impl # job[c]
        <4>1. Created(pm, job[c], post, hide)
          BY <1>1, <2>1, ReplaceDoes
        <4> QED BY <1>3, <3>2, <4>1 DEF Created
      <3> QED BY <3>1, <3>2
    <2>3. ModeTypes'
      BY <1>1, <1>3, <2>2 DEF ModeInv, ModeTypes
    <2>4. Held'
      BY <1>1, <1>3, <2>1, <2>2 DEF ModeInv, Held, Ids
    <2>5. ~Down'
      BY <1>1, <1>3 DEF Down
    <2>6. Waiting'
      BY <1>1, <1>3 DEF ModeInv, Waiting
    <2>7. ASSUME ~postfail' PROVE Free' /\ Screens' /\ OwnerEntitled'
      <3>1. ~postfail /\ ~Changing
        BY <1>1, <1>3, <2>7, Zenon DEF Changing
      <3>2. Free' /\ (~torn => pm'.displays # "off" /\ ~pm'.recovery)
        <4>1. CASE pm.impl = job[c]
          <5>1. pm' = pm /\ pm.owner = 0
            BY <1>3, <4>1
          <5> QED BY <1>1, <3>1, <5>1, NothingOn DEF Free
        <4>2. CASE pm.impl # job[c]
          <5>1. pm' = Replace(pm, job[c], post, hide) /\ ~Failed(pm, post, hide)
            BY <1>3, <2>7, <4>2, Zenon
          <5> QED BY <1>1, <2>1, <3>1, <5>1, ReplaceSettles
        <4> QED BY <4>1, <4>2
      <3>3. Screens'
        BY <1>1, <3>2 DEF Screens
      <3>4. OwnerEntitled'
        BY <2>2 DEF OwnerEntitled, Ids
      <3> QED BY <3>2, <3>3, <3>4
    <2> QED BY <2>3, <2>4, <2>5, <2>6, <2>7 DEF ModeInv, AllDown
  <1> QED BY <1>2, <1>3 DEF turn_on_privacy_sync

\* The windows: nothing is on before, and without an answer "ok" nothing is on afterwards.
LEMMA WindowKeeps ==
  ASSUME Ids, ModeInv, NEW c \in Conn, WindowUnavailable(c) \/ \E post, hide \in BOOLEAN : show_privacy_windows(c, post, hide)
  PROVE  ModeInv'
  <1>1. lock = c /\ pm.impl = "window" /\ UNCHANGED <<perm, torn, crashed>> /\ pm \in Mode /\ c # 0
    BY DEF WindowUnavailable, show_privacy_windows, ModeInv, ModeTypes, Ids
  <1>2. pm.owner = 0 /\ job[c] = "window" /\ ~Changing /\ ~Down
    BY <1>1 DEF ModeInv, Held, Changing, AllDown
  <1>3. ~postfail => /\ pm.hook # "on" /\ (~crashed => ~pm.covered /\ pm.broker # "foreign")
                     /\ ~torn => pm.displays # "off" /\ ~pm.recovery
    BY <1>2, NothingOn DEF Free
  <1>4. job[c] # None
    BY <1>2 DEF None
  <1>5. ASSUME NEW res \in {"ok", "err", "false"}, Answer(c, res), pm' \in Mode,
               pm'.displays = pm.displays, pm'.recovery = pm.recovery,
               ~postfail' => ~postfail /\ Free' /\ (pm'.owner = 0 \/ (pm'.owner = c /\ res = "ok"))
        PROVE  ModeInv'
    <2>1. Settled(c, res)
      BY <1>2, <1>3, <1>5 DEF Settled
    <2> QED BY <1>1, <1>4, <1>5, <2>1, AnswerKeeps
  <1>6. CASE WindowUnavailable(c)
    <2>1. (pm' = pm \/ pm' = stop(pm)) /\ postfail' = postfail /\ (Answer(c, "false") \/ Answer(c, "err"))
      BY <1>6 DEF WindowUnavailable
    <2>2. /\ pm' \in Mode /\ pm'.displays = pm.displays /\ pm'.recovery = pm.recovery
          /\ pm'.owner = 0 /\ pm'.hook = pm.hook /\ (pm'.covered => pm.covered)
          /\ (pm'.broker = "foreign" => pm.broker = "foreign")
      BY <1>1, <1>2, <2>1, StopDoes
    <2>3. ~postfail' => ~postfail /\ Free' /\ (pm'.owner = 0)
      BY <1>1, <1>3, <2>1, <2>2 DEF Free
    <2> QED BY <1>5, <2>1, <2>2, <2>3
  <1>7. ASSUME NEW post \in BOOLEAN, NEW hide \in BOOLEAN, show_privacy_windows(c, post, hide) PROVE ModeInv'
    <2> DEFINE p == started(pm)
    <2>1. /\ p \in Mode /\ p.impl = "window" /\ p.owner = 0 /\ p.hook = pm.hook /\ p.covered = pm.covered
          /\ p.displays = pm.displays /\ p.recovery = pm.recovery
          /\ (p.broker = "foreign" => pm.broker = "foreign")
      BY <1>1, <1>2 DEF started, Mode, None
    <2> HIDE DEF p
    <2>2. CASE /\ pm' = [hooked(p) EXCEPT !.owner = c, !.covered = TRUE] /\ Answer(c, "ok") /\ postfail' = postfail
      <3>1. hooked(p) \in Mode /\ hooked(p).broker = p.broker /\ hooked(p).impl = "window"
            /\ hooked(p).displays = p.displays /\ hooked(p).recovery = p.recovery
        BY <2>1 DEF hooked, Mode
      <3>2. /\ pm' \in Mode /\ pm'.impl = "window" /\ pm'.owner = c /\ pm'.broker = p.broker
            /\ pm'.displays = pm.displays /\ pm'.recovery = pm.recovery
        BY <2>1, <2>2, <3>1 DEF Mode
      <3>3. ~postfail' => ~postfail /\ Free'
        BY <1>1, <1>3, <2>1, <2>2, <3>2 DEF Free
      <3> QED BY <1>5, <2>2, <3>2, <3>3
    <2>3. CASE /\ pm' = stop(unhook([hooked(p) EXCEPT !.covered = ~hide], post))
               /\ postfail' = (postfail \/ ~post \/ ~hide) /\ Answer(c, "err")
      <3> DEFINE r == [hooked(p) EXCEPT !.covered = ~hide]
                 u == unhook(r, post)
      <3>1. r \in Mode /\ r.hook = "on" /\ r.owner = 0 /\ r.impl = "window" /\ r.broker = p.broker
            /\ r.displays = pm.displays /\ r.recovery = pm.recovery /\ r.covered = ~hide
        BY <2>1 DEF hooked, Mode
      <3> HIDE DEF r
      <3>2. u \in Mode /\ u.owner = 0 /\ u.broker = p.broker /\ u.displays = pm.displays
            /\ u.recovery = pm.recovery /\ u.covered = r.covered /\ (post => u.hook = "exiting")
        BY <3>1 DEF unhook, Mode, None
      <3> HIDE DEF u
      <3>3. pm' = stop(u)
        BY <2>3 DEF u, r
      <3>4. /\ pm' \in Mode /\ pm'.owner = 0 /\ pm'.hook = u.hook /\ pm'.displays = pm.displays
            /\ pm'.recovery = pm.recovery /\ (pm'.covered => u.covered)
            /\ (pm'.broker = "foreign" => p.broker = "foreign")
        BY <3>2, <3>3, StopDoes
      <3>5. ~postfail' => ~postfail /\ post /\ hide
        BY <2>3, Zenon
      <3>6. ~postfail' => Free'
        BY <1>1, <1>3, <2>1, <3>1, <3>2, <3>4, <3>5 DEF Free
      <3> QED BY <1>5, <2>3, <3>4, <3>5, <3>6
    <2>4. CASE pm' = stop(p) /\ Answer(c, "err") /\ postfail' = postfail
      <3>1. /\ pm' \in Mode /\ pm'.displays = pm.displays /\ pm'.recovery = pm.recovery
            /\ pm'.owner = 0 /\ pm'.hook = pm.hook /\ (pm'.covered => pm.covered)
            /\ (pm'.broker = "foreign" => pm.broker = "foreign")
        BY <2>1, <2>4, StopDoes
      <3>2. ~postfail' => ~postfail /\ Free'
        BY <1>1, <1>3, <2>4, <3>1 DEF Free
      <3> QED BY <1>5, <2>4, <3>1, <3>2
    <2> QED BY <1>7, <2>2, <2>3, <2>4 DEF show_privacy_windows, p
  <1> QED BY <1>6, <1>7

\* The virtual display: the displays are disabled between the two steps of its job, and afterwards for
\* the owner only, with the recovery saved.
LEMMA IddKeeps ==
  ASSUME Ids, ModeInv, NEW c \in Conn, NEW post \in BOOLEAN, IddUnavailable(c, post) \/ IddSave(c, post)
  PROVE  ModeInv'
  <1>1. /\ lock = c /\ c # 0 /\ UNCHANGED <<perm, torn, crashed>> /\ pm \in Mode
        /\ job[c] \in {"idd", "disabled"} /\ job[c] # None
    BY DEF IddUnavailable, IddSave, ModeInv, ModeTypes, Ids, None
  <1>2. pm.owner = 0 /\ pm.impl = "idd" /\ ~Down
    BY <1>1 DEF ModeInv, Held, AllDown
  <1>3. ~postfail => /\ pm.hook # "on" /\ (~crashed => ~pm.covered /\ pm.broker # "foreign")
                     /\ job[c] = "idd" /\ ~torn => pm.displays # "off" /\ ~pm.recovery
    BY <1>1, <1>2 DEF ModeInv, Free, Screens, Changing
  <1>4. CASE pm' = pm /\ job[c] = "idd" /\ Answer(c, "err") /\ (~postfail' => ~postfail)
    <2>1. ~postfail' => Free'
      BY <1>1, <1>3, <1>4 DEF Free
    <2>2. Settled(c, "err")
      BY <1>1, <1>3, <1>4, <2>1 DEF Settled
    <2> QED BY <1>1, <1>4, <2>2, AnswerKeeps
  <1>5. CASE /\ pm' = turn_off_privacy(pm, 0, post, TRUE) /\ Answer(c, "err")
             /\ postfail' = (postfail \/ Failed(pm, post, TRUE))
    <2>1. Off(c, 0, post, TRUE) /\ ~NotOwner(pm, 0)
      BY <1>5 DEF Off, NotOwner
    <2>2. pm' \in Mode /\ (~postfail' => ~postfail /\ IsOff(pm, pm'))
      BY <2>1, OffDoes
    <2>3. ~postfail' => Free'
      BY <1>1, <1>2, <1>3, <2>2 DEF Free, IsOff
    <2>4. Settled(c, "err")
      BY <1>2, <2>2, <2>3 DEF Settled, IsOff
    <2> QED BY <1>1, <1>5, <2>4, AnswerKeeps
  <1>6. ASSUME NEW h \in {pm.hook} \cup (IF pm.hook = None THEN {"on"} ELSE {}),
               pm' = [pm EXCEPT !.owner = c, !.recovery = TRUE, !.hook = h], Answer(c, "ok"), postfail' = postfail
        PROVE  ModeInv'
    <2>1. h \in {None, "on", "exiting"}
      BY <1>1, <1>6 DEF Mode
    <2>2. /\ pm' \in Mode /\ pm'.owner = c /\ pm'.impl = "idd" /\ pm'.recovery = TRUE
          /\ pm'.broker = pm.broker /\ pm'.covered = pm.covered
      BY <1>1, <1>2, <1>6, <2>1 DEF Mode
    <2>3. ~postfail' => Free'
      BY <1>1, <1>3, <1>6, <2>2 DEF Free
    <2>4. Settled(c, "ok")
      BY <1>1, <1>6, <2>2, <2>3 DEF Settled
    <2> QED BY <1>1, <1>6, <2>4, AnswerKeeps
  <1>7. CASE IddUnavailable(c, post)
    <2>1. postfail' = (postfail \/ Failed(pm, post, TRUE)) /\ Answer(c, "err") /\ job[c] = "idd"
      BY <1>7 DEF IddUnavailable
    <2>2. ~postfail' => ~postfail
      BY <2>1, Zenon
    <2> QED BY <1>4, <1>5, <1>7, <2>1, <2>2 DEF IddUnavailable
  <1>8. CASE IddSave(c, post)
    BY <1>5, <1>6, <1>8 DEF IddSave
  <1> QED BY <1>7, <1>8

\* The displays are disabled by the job that holds the mutex.
LEMMA IddChangeKeeps ==
  ASSUME Ids, ModeInv, NEW c \in Conn, IddChange(c)
  PROVE  ModeInv'
  <1>1. /\ lock = c /\ job[c] = "idd" /\ UNCHANGED <<lock, st, perm, postfail, late, torn, crashed>>
        /\ pm' = [pm EXCEPT !.displays = "off"] /\ job' = [job EXCEPT ![c] = "disabled"]
        /\ pm \in Mode /\ job \in [Conn -> Impl \cup {None, "disabled"}] /\ c # 0
    BY DEF IddChange, ModeInv, ModeTypes, Ids
  <1>2. pm.owner = 0 /\ pm.impl = "idd" /\ ~Down
    BY <1>1 DEF ModeInv, Held, AllDown, None
  <1>3. /\ pm' \in Mode /\ pm'.owner = 0 /\ pm'.impl = "idd" /\ pm'.hook = pm.hook
        /\ pm'.covered = pm.covered /\ pm'.broker = pm.broker
    BY <1>1, <1>2 DEF Mode
  <1>4. job' \in [Conn -> Impl \cup {None, "disabled"}] /\ job'[c] = "disabled" /\ \A d \in Conn \ {c} : job'[d] = job[d]
    BY <1>1
  <1>5. ModeTypes'
    BY <1>1, <1>3, <1>4 DEF ModeInv, ModeTypes
  <1>6. Held' /\ Changing'
    BY <1>1, <1>2, <1>3, <1>4 DEF ModeInv, Held, Changing
  <1>7. ~Down'
    BY <1>1, <1>2 DEF Down
  <1>8. Waiting'
    BY <1>1, <1>4 DEF ModeInv, Waiting, None
  <1>9. ASSUME ~postfail PROVE Free' /\ Screens'
    BY <1>1, <1>2, <1>3, <1>6, <1>9 DEF ModeInv, Free, Screens
  <1>10. OwnerEntitled'
    BY <1>3 DEF OwnerEntitled, Ids
  <1> QED BY <1>1, <1>5, <1>6, <1>7, <1>8, <1>9, <1>10 DEF ModeInv, AllDown

-----------------------------------------------------------------------------
(* The local side.                                                         *)

\* A hook thread that was told to end does.
LEMMA HookExitsKeeps ==
  ASSUME Ids, ModeInv, HookExits
  PROVE  ModeInv'
  <1>1. /\ UNCHANGED <<lock, st, job, perm, postfail, late, torn, crashed>>
        /\ pm' = [pm EXCEPT !.hook = None] /\ pm \in Mode
    BY DEF HookExits, unhook_clears, ModeInv, ModeTypes
  <1>2. /\ pm' \in Mode /\ pm'.owner = pm.owner /\ pm'.impl = pm.impl /\ pm'.hook = None
        /\ pm'.covered = pm.covered /\ pm'.broker = pm.broker
        /\ pm'.displays = pm.displays /\ pm'.recovery = pm.recovery
    BY <1>1 DEF Mode
  <1>3. (Down' <=> Down) /\ (Changing' <=> Changing)
    BY <1>1 DEF Down, Changing
  <1>4. ModeTypes' /\ Held' /\ Waiting'
    BY <1>1, <1>2 DEF ModeInv, ModeTypes, Held, Waiting
  <1>5. AllDown'
    BY <1>1, <1>2, <1>3 DEF ModeInv, AllDown
  <1>6. ASSUME ~postfail PROVE Free' /\ Screens'
    BY <1>1, <1>2, <1>3, <1>6 DEF ModeInv, Free, Screens, None
  <1>7. ASSUME ~postfail PROVE OwnerEntitled'
    BY <1>1, <1>2, <1>7 DEF ModeInv, OwnerEntitled
  <1> QED BY <1>1, <1>4, <1>5, <1>6, <1>7 DEF ModeInv

\* The user may change the implementation at any time, also between a crash and the restart.
LEMMA SwitchKeeps ==
  ASSUME Ids, ModeInv, NEW k \in Impl, NEW post \in BOOLEAN, NEW hide \in BOOLEAN, switch(k, post, hide)
  PROVE  ModeInv'
  <1>1. /\ lock = 0 /\ UNCHANGED <<lock, st, job, perm, late, torn, crashed>> /\ pm \in Mode
        /\ pm' = Replace(pm, k, post, hide)
    BY DEF switch, ModeInv, ModeTypes
  <1>2. pm' \in Mode /\ pm'.owner = 0 /\ pm'.impl = k /\ (pm.hook = None => pm'.hook = None)
    <2>1. Created(pm, k, post, hide)
      BY <1>1, ReplaceDoes
    <2> QED BY <1>1, <2>1 DEF Created
  <1>3. ModeTypes' /\ Held' /\ Waiting'
    BY <1>1, <1>2 DEF ModeInv, ModeTypes, Held, Waiting
  <1>4. (Down' <=> Down) /\ ~Changing /\ ~Changing'
    BY <1>1 DEF Down, Changing
  <1>5. AllDown'
    BY <1>1, <1>2, <1>4 DEF ModeInv, AllDown
  <1>6. ~postfail' => ~postfail /\ ~Failed(pm, post, hide)
    BY Zenon DEF switch
  <1>7. ASSUME ~postfail', ~Down PROVE Free' /\ Screens'
    <2>1. Free' /\ (~torn => pm'.displays # "off" /\ ~pm'.recovery)
      BY <1>1, <1>4, <1>6, <1>7, ReplaceSettles
    <2> QED BY <1>1, <2>1 DEF Screens
  <1>8. ASSUME ~postfail', Down PROVE Free' /\ Screens'
    <2>1. pm.owner = 0 /\ Free /\ Screens
      BY <1>6, <1>8 DEF ModeInv, AllDown
    <2>2. /\ pm'.hook = pm.hook /\ pm'.displays = pm.displays /\ pm'.recovery = pm.recovery
          /\ (pm'.covered => pm.covered) /\ (pm'.broker = "foreign" => pm.broker = "foreign")
      <3>1. Created(pm, k, post, hide)
        BY <1>1, ReplaceDoes
      <3> QED BY <1>1, <2>1, <3>1 DEF Created, OffFirst
    <2> QED BY <1>1, <1>2, <1>4, <1>8, <2>1, <2>2 DEF Free, Screens
  <1>9. OwnerEntitled'
    BY <1>2 DEF OwnerEntitled, Ids
  <1> QED BY <1>3, <1>5, <1>7, <1>8, <1>9 DEF ModeInv

\* After a crash the displays are disabled with the recovery saved, or the history says so.
LEMMA CrashKeeps ==
  ASSUME Ids, ModeInv, Crash
  PROVE  ModeInv'
  <1>1. /\ st' = [c \in Conn |-> "down"] /\ lock' = 0 /\ job' = [c \in Conn |-> None] /\ crashed' = TRUE
        /\ torn' = (pm.displays = "off" /\ ~pm.recovery) /\ UNCHANGED <<perm, postfail, late>>
        /\ pm' = [pm EXCEPT !.owner = 0, !.hook = None, !.broker = IF @ = "ours" THEN "foreign" ELSE @]
        /\ pm \in Mode
    BY DEF Crash, ModeInv, ModeTypes
  <1>2. /\ pm' \in Mode /\ pm'.owner = 0 /\ pm'.hook = None
        /\ pm'.displays = pm.displays /\ pm'.recovery = pm.recovery
    BY <1>1 DEF Mode, None
  <1>3. ModeTypes' /\ Held' /\ Waiting'
    BY <1>1, <1>2 DEF ModeInv, ModeTypes, Held, Waiting, Place, None
  <1>4. AllDown'
    BY <1>1, <1>2 DEF AllDown
  <1>5. Free'
    BY <1>1, <1>2 DEF Free, None
  <1>6. ASSUME ~postfail PROVE Screens'
    <2>1. ~torn' => (pm'.displays = "off" => pm'.recovery)
      BY <1>1, <1>2, Zenon
    <2>2. Down'
      BY <1>1 DEF Down, Ids
    <2> QED BY <2>1, <2>2 DEF Screens
  <1>7. OwnerEntitled'
    BY <1>2 DEF OwnerEntitled, Ids
  <1> QED BY <1>1, <1>3, <1>4, <1>5, <1>6, <1>7 DEF ModeInv

\* The restart enables the displays if the recovery was saved.
LEMMA RestartKeeps ==
  ASSUME Ids, ModeInv, restore_reg_connectivity
  PROVE  ModeInv'
  <1>1. /\ st' = [c \in Conn |-> "new"] /\ perm' = [c \in Conn |-> TRUE] /\ late' = {}
        /\ UNCHANGED <<lock, job, postfail, torn, crashed>> /\ Down /\ pm \in Mode
        /\ pm' = IF pm.recovery THEN [pm EXCEPT !.displays = "normal", !.recovery = FALSE] ELSE pm
    BY DEF restore_reg_connectivity, Ids, Down, ModeInv, ModeTypes
  <1>2. /\ lock = 0 /\ pm.owner = 0 /\ \A c \in Conn : job[c] = None
    BY <1>1 DEF ModeInv, AllDown
  <1>3. /\ pm' \in Mode /\ pm'.owner = 0 /\ pm'.hook = pm.hook /\ pm'.covered = pm.covered
        /\ pm'.broker = pm.broker /\ ~pm'.recovery /\ (pm'.displays = "off" => pm.displays = "off" /\ ~pm.recovery)
    BY <1>1, <1>2 DEF Mode
  <1>4. ModeTypes'
    BY <1>1, <1>3 DEF ModeInv, ModeTypes, Place
  <1>5. Held' /\ Waiting'
    BY <1>1, <1>2 DEF Held, Waiting, None
  <1>6. AllDown'
    BY <1>1 DEF AllDown, Down
  <1>7. ASSUME ~postfail PROVE Free' /\ Screens'
    BY <1>1, <1>2, <1>3, <1>7 DEF ModeInv, Free, Screens, Changing
  <1>8. OwnerEntitled'
    BY <1>3 DEF OwnerEntitled, Ids
  <1> QED BY <1>1, <1>4, <1>5, <1>6, <1>7, <1>8 DEF ModeInv

\* Every step keeps the invariant.
LEMMA ModeStep ==
  ASSUME Ids, ModeInv, [PrivacyNext]_privacyVars
  PROVE  ModeInv'
  <1>1. Posts \subseteq BOOLEAN /\ Hides \subseteq BOOLEAN
    BY DEF Posts, Hides
  <1>2. ASSUME NEW post \in Posts, NEW hide \in Hides, HotKey(post, hide) PROVE ModeInv'
    BY <1>1, <1>2, HotKeyKeeps
  <1>3. ASSUME NEW post \in Posts, NEW hide \in Hides, NEW k \in Impl, switch(k, post, hide) PROVE ModeInv'
    BY <1>1, <1>3, SwitchKeeps
  <1>4. ASSUME NEW post \in Posts, NEW hide \in Hides, NEW c \in Conn, turn_on_privacy_sync(c, post, hide) PROVE ModeInv'
    BY <1>1, <1>4, SyncKeeps
  <1>5. ASSUME NEW post \in Posts, NEW hide \in Hides, NEW c \in Conn, OffStep(c, post, hide) PROVE ModeInv'
    BY <1>1, <1>5, OffStepKeeps
  <1>6. ASSUME NEW c \in Conn, NEW k \in Impl, RequestOn(c, k) PROVE ModeInv'
    BY <1>6, RequestOnKeeps
  <1>7. ASSUME NEW c \in Conn, WindowUnavailable(c) \/ \E post, hide \in BOOLEAN : show_privacy_windows(c, post, hide)
        PROVE  ModeInv'
    BY <1>7, WindowKeeps
  <1>8. ASSUME NEW c \in Conn, IddChange(c) \/ PlaceStep(c) PROVE ModeInv'
    BY <1>8, IddChangeKeeps, PlaceStepKeeps
  <1>9. ASSUME NEW c \in Conn, NEW post \in Posts, IddUnavailable(c, post) \/ IddSave(c, post) PROVE ModeInv'
    BY <1>1, <1>9, IddKeeps
  <1>10. CASE HookExits \/ Crash \/ restore_reg_connectivity
    BY <1>10, HookExitsKeeps, CrashKeeps, RestartKeeps
  <1>11. CASE UNCHANGED privacyVars
    BY <1>11 DEF privacyVars, ModeInv, ModeTypes, Held, AllDown, Down, Waiting, Free, Screens, Changing, OwnerEntitled
  <1> QED BY <1>2, <1>3, <1>4, <1>5, <1>6, <1>7, <1>8, <1>9, <1>10, <1>11, Zenon DEF PrivacyNext, OffStep, PlaceStep

\* The invariant holds from the start and for ever.
LEMMA ModeAlways ==
  ASSUME Ids
  PROVE  PrivacySpec => []ModeInv
  <1>1. PrivacyInit => ModeInv
    <2> SUFFICES ASSUME PrivacyInit PROVE ModeInv
      OBVIOUS
    <2>1. PICK k \in Impl : pm = [impl |-> k, owner |-> 0, hook |-> None, covered |-> FALSE, broker |-> None,
                                  displays |-> "normal", recovery |-> FALSE]
      BY DEF PrivacyInit
    <2>2. pm \in Mode /\ pm.owner = 0 /\ pm.hook = None /\ ~pm.covered /\ pm.broker = None
          /\ pm.displays = "normal" /\ ~pm.recovery
      BY <2>1 DEF Mode
    <2>3. ModeTypes
      BY <2>2 DEF PrivacyInit, ModeTypes, Place
    <2>4. Held /\ Waiting /\ AllDown
      BY DEF PrivacyInit, Held, Waiting, AllDown, Down, None
    <2>5. Free /\ Screens /\ OwnerEntitled
      BY <2>2 DEF Free, Screens, OwnerEntitled, Ids, None
    <2> QED BY <2>3, <2>4, <2>5 DEF ModeInv
  <1>2. ModeInv /\ [PrivacyNext]_privacyVars => ModeInv'
    BY ModeStep
  <1> QED BY <1>1, <1>2, PTL DEF PrivacySpec

\* When nobody has the privacy mode on and the mutex is free, the local input is not blocked, no window
\* covers a screen, the displays are enabled and nothing is left to recover, whichever step of turn_on_privacy
\* or turn_off_privacy failed or came late, unless a message could not be posted or a crash came between
\* disabling the displays and saving the recovery.
THEOREM NothingIsLeft ==
  ASSUME Ids
  PROVE  PrivacySpec => []NothingLeft
  <1>1. ModeInv => NothingLeft
    <2> SUFFICES ASSUME ModeInv, pm.owner = 0, lock = 0, ~postfail
                 PROVE  /\ pm.hook # "on"
                        /\ ~crashed => ~pm.covered
                        /\ ~torn /\ (\A c \in Conn : st[c] # "down") => pm.displays = "normal" /\ ~pm.recovery
      BY DEF NothingLeft
    <2>1. pm.hook # "on" /\ (~crashed => ~pm.covered)
      BY DEF ModeInv, Free
    <2>2. ASSUME ~torn, \A c \in Conn : st[c] # "down" PROVE pm.displays = "normal" /\ ~pm.recovery
      <3>1. ~Down /\ ~Changing
        BY <2>2 DEF Down, Changing
      <3>2. pm.displays # "off" /\ ~pm.recovery /\ pm.displays \in {"normal", "off"}
        BY <2>2, <3>1, NothingOn DEF ModeInv, ModeTypes, Mode
      <3> QED BY <3>2
    <2> QED BY <2>1, <2>2
  <1> QED BY <1>1, ModeAlways, PTL

\* A connection that ended or lost its permission does not own the privacy mode (the switch of the
\* connection manager and on_close), unless it had given up waiting for turn_on_privacy.
THEOREM OwnerStaysEntitled ==
  ASSUME Ids
  PROVE  PrivacySpec => []OwnerEntitled
  <1>1. ModeInv => OwnerEntitled
    BY DEF ModeInv, OwnerEntitled
  <1> QED BY <1>1, ModeAlways, PTL

\* Disabled displays can be enabled again after a crash: the recovery is saved whenever the mutex is free.
THEOREM DisplaysRecoverable ==
  ASSUME Ids
  PROVE  PrivacySpec => []Recoverable
  <1>1. ModeInv => Recoverable
    BY DEF ModeInv, Screens, Changing, Recoverable
  <1> QED BY <1>1, ModeAlways, PTL
==============================================================================
