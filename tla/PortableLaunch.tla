--------------------------- MODULE PortableLaunch ---------------------------
(***************************************************************************)
(* The life of the portable service (portable_service.rs): the main        *)
(* process prepares a shared memory with a one-time token, launches the    *)
(* helper, and an IPC server takes its connection. STARTING and RUNNING    *)
(* keep a second launch away. They are written by the caller, by a         *)
(* watchdog thread per launch, by the accept loop and by one task per      *)
(* connection, each under a lock of its own. Launches, their memories,     *)
(* tokens and helpers are numbered.                                        *)
(***************************************************************************)
EXTENDS Naturals

CONSTANT MaxLaunch   \* bound on the number of launches

Launch == 1..MaxLaunch

VARIABLES
  STARTING, RUNNING,
  STARTING_TOKEN,   \* number of the latest launch
  token,            \* IPC_RUNTIME_TOKEN, 0 for None
  shmem,            \* SHMEM and SHMEM_RUNTIME_NAME, 0 for None
  written,          \* memories that hold their token
  entry,            \* a caller that has read RUNNING: "no", "TRUE" or "FALSE"
  call,             \* [Launch -> place in start_portable_service]
  watch,            \* [Launch -> place of the launch's watchdog]
  helper,           \* [Launch -> place of the helper process]
  server,           \* the accept loop: [conn, consumed, name]
  task,             \* [Launch -> place of the task that serves the helper]
  ponged,           \* [Launch -> the task has set RUNNING]
  overlap           \* history: two launches were being prepared at once

launch == <<STARTING_TOKEN, entry, call>>
memory == <<token, shmem, written>>
vars == <<STARTING, RUNNING, launch, memory, watch, helper, server, task, ponged, overlap>>

Idle == [conn |-> 0, consumed |-> FALSE, name |-> 0]

Init ==
  /\ STARTING = FALSE /\ RUNNING = FALSE /\ STARTING_TOKEN = 0
  /\ token = 0 /\ shmem = 0 /\ written = {}
  /\ entry = "no" /\ call = [l \in Launch |-> "no"] /\ watch = [l \in Launch |-> "no"]
  /\ helper = [l \in Launch |-> "no"] /\ server = Idle
  /\ task = [l \in Launch |-> "no"] /\ ponged = [l \in Launch |-> FALSE]
  /\ overlap = FALSE

-----------------------------------------------------------------------------
(* start_portable_service.                                                 *)

ReadRunning ==
  /\ entry = "no" /\ STARTING_TOKEN < MaxLaunch
  /\ entry' = IF RUNNING THEN "TRUE" ELSE "FALSE"
  /\ UNCHANGED <<STARTING, RUNNING, STARTING_TOKEN, call, memory, watch, helper, server, task, ponged, overlap>>

\* A helper process exists.
HelperAlive == \E l \in Launch : helper[l] \notin {"no", "gone"}

\* A mutant: the launch gets no new number.
EnterSameNumber ==
  /\ entry # "no"
  /\ entry' = "no"
  /\ IF entry = "TRUE" \/ STARTING
     THEN UNCHANGED <<STARTING, call>>
     ELSE /\ STARTING' = TRUE
          /\ call' = [call EXCEPT ![STARTING_TOKEN + 1] = "clear"]
  /\ UNCHANGED <<RUNNING, STARTING_TOKEN, memory, watch, helper, server, task, ponged, overlap>>

\* Under the lock of STARTING.
Enter ==
  /\ entry # "no"
  /\ entry' = "no"
  /\ LET stale == STARTING /\ entry = "FALSE" /\ ~HelperAlive
     IN IF entry = "TRUE" \/ (STARTING /\ ~stale)
        THEN UNCHANGED <<STARTING, STARTING_TOKEN, call, overlap>>
        ELSE /\ STARTING' = TRUE
             /\ STARTING_TOKEN' = STARTING_TOKEN + 1
             /\ call' = [call EXCEPT ![STARTING_TOKEN + 1] = "clear"]
             /\ overlap' = (overlap \/ \E l \in Launch : call[l] \notin {"no", "done"})
  /\ UNCHANGED <<RUNNING, memory, watch, helper, server, task, ponged>>

\* clear_runtime_shmem_state
ClearMemory == token' = 0 /\ shmem' = 0 /\ written' = written \ {shmem}

Clear(l) ==
  /\ call[l] \in {"clear", "undo"}
  /\ ClearMemory
  /\ call' = [call EXCEPT ![l] = IF @ = "clear" THEN "create" ELSE "reset"]
  /\ UNCHANGED <<STARTING, RUNNING, STARTING_TOKEN, entry, watch, helper, server, task, ponged, overlap>>

\* The memory is created, cleared and gets its token, under SHMEM's lock.
Create(l) ==
  /\ call[l] = "create"
  /\ \/ /\ shmem' = l /\ written' = written \cup {l}
        /\ call' = [call EXCEPT ![l] = "token"]
     \/ call' = [call EXCEPT ![l] = "reset"] /\ UNCHANGED <<shmem, written>>
  /\ UNCHANGED <<STARTING, RUNNING, STARTING_TOKEN, entry, token, watch, helper, server, task, ponged, overlap>>

set_runtime_ipc_token(l) ==
  /\ call[l] = "token"
  /\ token' = l
  /\ call' = [call EXCEPT ![l] = "run"]
  /\ UNCHANGED <<STARTING, RUNNING, STARTING_TOKEN, entry, shmem, written, watch, helper, server, task, ponged, overlap>>

\* A mutant: no watchdog.
RunUnwatched(l) ==
  /\ call[l] = "run"
  /\ \/ /\ helper' = [helper EXCEPT ![l] = "spawned"]
        /\ call' = [call EXCEPT ![l] = "done"]
     \/ call' = [call EXCEPT ![l] = "undo"] /\ UNCHANGED helper
  /\ UNCHANGED <<STARTING, RUNNING, STARTING_TOKEN, entry, memory, watch, server, task, ponged, overlap>>

\* The helper process is launched; schedule_starting_timeout_reset.
Run(l) ==
  /\ call[l] = "run"
  /\ \/ /\ helper' = [helper EXCEPT ![l] = "spawned"]
        /\ watch' = [watch EXCEPT ![l] = "token"]
        /\ call' = [call EXCEPT ![l] = "done"]
     \/ call' = [call EXCEPT ![l] = "undo"] /\ UNCHANGED <<helper, watch>>
  /\ UNCHANGED <<STARTING, RUNNING, STARTING_TOKEN, entry, memory, server, task, ponged, overlap>>

StartFailed(l) ==
  /\ call[l] = "reset"
  /\ STARTING' = FALSE
  /\ call' = [call EXCEPT ![l] = "done"]
  /\ UNCHANGED <<RUNNING, STARTING_TOKEN, entry, memory, watch, helper, server, task, ponged, overlap>>

\* The watchdog, after its sleep: three reads, then the write.
Watch(l) ==
  /\ watch[l] \in {"token", "starting", "running", "reset"}
  /\ watch' = [watch EXCEPT ![l] =
       CASE @ = "token" -> IF STARTING_TOKEN = l THEN "starting" ELSE "done"
         [] @ = "starting" -> IF STARTING THEN "running" ELSE "done"
         [] @ = "running" -> IF RUNNING THEN "done" ELSE "reset"
         [] OTHER -> "done"]
  /\ STARTING' = (STARTING /\ watch[l] # "reset")
  /\ UNCHANGED <<RUNNING, launch, memory, helper, server, task, ponged, overlap>>

-----------------------------------------------------------------------------
(* The helper and the IPC server.                                          *)

\* run_portable_service reads the token, then connects.
HelperStart(l) ==
  /\ helper[l] = "spawned"
  /\ helper' = [helper EXCEPT ![l] = IF l \in written THEN "connect" ELSE "gone"]
  /\ UNCHANGED <<STARTING, RUNNING, launch, memory, watch, server, task, ponged, overlap>>

\* It dies, finds no connection left to serve, gets no answer to its pings, or
\* cannot connect.
HelperExits(l) ==
  /\ helper[l] \notin {"no", "gone"}
  /\ helper' = [helper EXCEPT ![l] = "gone"]
  /\ UNCHANGED <<STARTING, RUNNING, launch, memory, watch, server, task, ponged, overlap>>

\* The accept loop takes a connection and reads the token;
\* consume_runtime_ipc_token_if_match.
Accept(l) ==
  /\ server = Idle /\ helper[l] = "connect"
  /\ helper' = [helper EXCEPT ![l] = "auth"]
  /\ server' = [conn |-> l, consumed |-> token = l, name |-> IF token = l THEN shmem ELSE 0]
  /\ IF token = l THEN token' = 0 /\ written' = written \ {shmem} ELSE UNCHANGED <<token, written>>
  /\ UNCHANGED <<STARTING, RUNNING, launch, shmem, watch, task, ponged, overlap>>

\* The answer is sent; with a token consumed, the connection gets its task.
AuthResult(l) ==
  /\ server.conn = l /\ helper[l] = "auth"
  /\ server' = Idle
  /\ IF server.consumed
     THEN task' = [task EXCEPT ![l] = "lock"] /\ helper' = [helper EXCEPT ![l] = "loop"]
     ELSE helper' = [helper EXCEPT ![l] = "gone"] /\ UNCHANGED task
  /\ UNCHANGED <<STARTING, RUNNING, launch, memory, watch, ponged, overlap>>

\* A mutant: the token is put back whatever the memory is.
restore_always(t, name) == token' = t /\ written' = written \cup {shmem}

\* restore_runtime_ipc_token_after_failed_handshake
restore(t, name) ==
  IF token \notin {0, t} THEN UNCHANGED <<token, written>>
  ELSE IF shmem # name \/ shmem = 0 THEN token' = (IF token = t THEN 0 ELSE token) /\ UNCHANGED written
  ELSE token' = t /\ written' = written \cup {shmem}

\* The answer cannot be sent.
AuthFails(l) ==
  /\ server.conn = l /\ helper[l] = "gone"
  /\ IF server.consumed THEN restore(l, server.name) ELSE UNCHANGED <<token, written>>
  /\ server' = IF server.consumed THEN [server EXCEPT !.conn = 0, !.consumed = TRUE] ELSE Idle
  /\ UNCHANGED <<STARTING, RUNNING, launch, shmem, watch, helper, task, ponged, overlap>>

AuthFailedReset ==
  /\ server.conn = 0 /\ server.consumed
  /\ STARTING' = FALSE /\ server' = Idle
  /\ UNCHANGED <<RUNNING, launch, memory, watch, helper, task, ponged, overlap>>

\* A mutant: the task does not wait for its predecessor.
TakeReceiverShared(l) ==
  /\ task[l] = "lock"
  /\ task' = [task EXCEPT ![l] = "loop"]
  /\ UNCHANGED <<STARTING, RUNNING, launch, memory, watch, helper, server, ponged, overlap>>

\* The task locks the receiver, which it keeps to its end.
TakeReceiver(l) ==
  /\ task[l] = "lock"
  /\ \A k \in Launch : task[k] \in {"no", "lock", "done"}
  /\ task' = [task EXCEPT ![l] = "loop"]
  /\ UNCHANGED <<STARTING, RUNNING, launch, memory, watch, helper, server, ponged, overlap>>

\* Pong: RUNNING, then STARTING.
Pong(l) ==
  /\ task[l] = "loop" /\ helper[l] = "loop"
  /\ RUNNING' = TRUE
  /\ ponged' = [ponged EXCEPT ![l] = TRUE]
  /\ task' = [task EXCEPT ![l] = "pong"]
  /\ UNCHANGED <<STARTING, launch, memory, watch, helper, server, overlap>>

PongStarting(l) ==
  /\ task[l] = "pong"
  /\ STARTING' = FALSE
  /\ task' = [task EXCEPT ![l] = "loop"]
  /\ UNCHANGED <<RUNNING, launch, memory, watch, helper, server, ponged, overlap>>

\* The connection is closed: RUNNING, then STARTING.
Closed(l) ==
  /\ task[l] = "loop" /\ helper[l] = "gone"
  /\ RUNNING' = FALSE
  /\ ponged' = [ponged EXCEPT ![l] = FALSE]
  /\ task' = [task EXCEPT ![l] = "end"]
  /\ UNCHANGED <<STARTING, launch, memory, watch, helper, server, overlap>>

ClosedStarting(l) ==
  /\ task[l] = "end"
  /\ STARTING' = FALSE
  /\ task' = [task EXCEPT ![l] = "done"]
  /\ UNCHANGED <<RUNNING, launch, memory, watch, helper, server, ponged, overlap>>

Next ==
  \/ ReadRunning \/ Enter \/ AuthFailedReset
  \/ \E l \in Launch : \/ Clear(l) \/ Create(l) \/ set_runtime_ipc_token(l) \/ Run(l) \/ StartFailed(l)
                       \/ Watch(l) \/ HelperStart(l) \/ HelperExits(l) \/ Accept(l) \/ AuthResult(l)
                       \/ AuthFails(l) \/ TakeReceiver(l) \/ Pong(l) \/ PongStarting(l)
                       \/ Closed(l) \/ ClosedStarting(l)

Spec == Init /\ [][Next]_vars

\* The threads and tasks of the main process run, and a helper that is alive
\* answers pings. Nothing else is assumed of helpers.
FairSpec ==
  /\ Spec /\ WF_vars(Enter) /\ WF_vars(AuthFailedReset)
  /\ \A l \in Launch : /\ WF_vars(Clear(l) \/ Create(l) \/ set_runtime_ipc_token(l) \/ Run(l) \/ StartFailed(l))
                       /\ WF_vars(Watch(l)) /\ WF_vars(Pong(l)) /\ WF_vars(AuthFails(l)) /\ WF_vars(AuthResult(l))
                       /\ WF_vars(TakeReceiver(l) \/ PongStarting(l) \/ Closed(l) \/ ClosedStarting(l))

-----------------------------------------------------------------------------
(* Properties.                                                             *)

TypeOK ==
  /\ {STARTING, RUNNING, overlap} \subseteq BOOLEAN
  /\ {STARTING_TOKEN, token, shmem} \subseteq 0..MaxLaunch
  /\ written \subseteq Launch
  /\ \A l \in Launch : call[l] = "no" <=> l > STARTING_TOKEN

\* Once a helper has answered, RUNNING stays set while its connection is served:
\* the end of an earlier connection, which clears RUNNING, cannot fall into it
\* (each task keeps the receiver's lock to its end).
RunningKept == \A l \in Launch : task[l] \in {"loop", "pong"} /\ ponged[l] => RUNNING

\* The token the IPC server waits for is the one in the memory it shares with the
\* helper to come, also when an answer could not be sent and the token was put
\* back (restore_runtime_ipc_token_after_failed_handshake), unless two launches
\* were prepared at once.
TokenInMemory == token # 0 /\ ~overlap => shmem = token /\ token \in written

\* STARTING is set back in the end, however a launch ends or does not end; with
\* STARTING left set no further launch would be tried (the watchdog, the tasks
\* and the failure paths).
StartingEnds == []<>~STARTING

\* "only the watchdog that matches the latest STARTING_TOKEN may reset STARTING".
\* Violated: the comparison and the reset are two steps.
StaleWatchdog ==
  [][\A l \in Launch : watch[l] = "reset" /\ watch'[l] = "done" /\ STARTING => STARTING_TOKEN = l]_vars
=============================================================================
