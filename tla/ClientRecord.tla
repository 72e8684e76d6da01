---------------------------- MODULE ClientRecord ----------------------------
(***************************************************************************)
(* Recording of a session at the client: io_loop keeps record_state and    *)
(* record_permission and tells the video threads; a thread that makes its  *)
(* handler reads both, one lock after the other.                           *)
(***************************************************************************)
EXTENDS Naturals, Sequences

CONSTANTS
  Display,    \* the displays of the session
  AutoRecord, \* the option allow-auto-record-outgoing
  MaxChanges  \* bound: changes of the state by the user, of the permission by the peer

VARIABLES
  chan,       \* [Display -> Seq]: "frame", "start" or "stop"
  pc,         \* [Display -> "none", "recv" or "perm" (between the two reads)]
  seen,       \* [Display -> BOOLEAN]: record_state as the thread read it
  rec,        \* [Display -> "none" (no handler), "off" or "on"]
  lc,         \* [state, permission]: record_state, record_permission
  last,       \* last_record_state
  io,         \* "idle", or "update" before update_record_state
  changes,    \* number of changes so far
  torn        \* history: displays whose reads had a change in between

vars == <<chan, pc, seen, rec, lc, last, io, changes, torn>>

Init ==
  /\ chan = [d \in Display |-> <<>>]
  /\ pc = [d \in Display |-> "none"]
  /\ seen = [d \in Display |-> FALSE]
  /\ rec = [d \in Display |-> "none"]
  /\ lc = [state |-> FALSE, permission |-> TRUE]
  /\ last = FALSE /\ io = "idle" /\ changes = 0 /\ torn = {}

-----------------------------------------------------------------------------
(* io_loop.                                                                *)

Running == {d \in Display : pc[d] # "none"}
Reading == {d \in Display : pc[d] = "perm"}

Change(rs) == lc' = rs /\ torn' = torn \cup Reading

\* A frame of a display without a thread starts one; the session's first thread
\* also sets the state from the option.
new_video_thread(d) ==
  /\ io = "idle" /\ pc[d] = "none"
  /\ pc' = [pc EXCEPT ![d] = "recv"]
  /\ IF Running = {}
     THEN Change([lc EXCEPT !.state = AutoRecord]) /\ io' = "update"
     ELSE UNCHANGED <<lc, torn, io>>
  /\ UNCHANGED <<chan, seen, rec, last, changes>>

\* Later frames change nothing once there is a handler.
VideoFrame(d) ==
  /\ io = "idle" /\ pc[d] # "none" /\ rec[d] = "none" /\ chan[d] = <<>>
  /\ chan' = [chan EXCEPT ![d] = Append(@, "frame")]
  /\ UNCHANGED <<pc, seen, rec, lc, last, io, changes, torn>>

RecordScreen(start) ==
  /\ io = "idle" /\ changes < MaxChanges
  /\ changes' = changes + 1 /\ io' = "update"
  /\ Change([lc EXCEPT !.state = start])
  /\ UNCHANGED <<chan, pc, seen, rec, last>>

RecordingPermission(enabled) ==
  /\ io = "idle" /\ changes < MaxChanges
  /\ changes' = changes + 1 /\ io' = "update"
  /\ Change([lc EXCEPT !.permission = enabled])
  /\ UNCHANGED <<chan, pc, seen, rec, last>>

\* Only running threads are told.
told(start) ==
  [d \in Display |-> IF d \in Running THEN Append(chan[d], IF start THEN "start" ELSE "stop")
                                      ELSE chan[d]]

\* A mutant: compares with record_state instead of last_record_state.
update_by_state ==
  LET start == lc.state /\ lc.permission IN
  /\ io = "update" /\ io' = "idle"
  /\ Change([lc EXCEPT !.state = start])
  /\ last' = start
  /\ chan' = IF lc.state = start THEN chan ELSE told(start)
  /\ UNCHANGED <<pc, seen, rec, changes>>

\* A mutant: the state survives the loss of the permission.
update_keeps_state ==
  LET start == lc.state /\ lc.permission IN
  /\ io = "update" /\ io' = "idle"
  /\ last' = start
  /\ chan' = IF start = last THEN chan ELSE told(start)
  /\ UNCHANGED <<pc, seen, rec, lc, changes, torn>>

update_record_state ==
  LET start == lc.state /\ lc.permission IN
  /\ io = "update" /\ io' = "idle"
  /\ IF lc.permission THEN UNCHANGED <<lc, torn>> ELSE Change([lc EXCEPT !.state = FALSE])
  /\ last' = start
  /\ chan' = IF start = last THEN chan ELSE told(start)
  /\ UNCHANGED <<pc, seen, rec, changes>>

-----------------------------------------------------------------------------
(* The video thread.                                                       *)

record_screen(d, start) ==
  rec' = [rec EXCEPT ![d] = IF start THEN "on" ELSE "off"]

\* A message about recording counts only when there is a handler.
RecvRecord(d) ==
  /\ pc[d] = "recv" /\ chan[d] # <<>> /\ Head(chan[d]) # "frame"
  /\ IF rec[d] = "none" THEN UNCHANGED rec ELSE record_screen(d, Head(chan[d]) = "start")
  /\ chan' = [chan EXCEPT ![d] = Tail(@)]
  /\ UNCHANGED <<pc, seen, lc, last, io, changes, torn>>

\* The first frame makes the handler: record_state is read ...
RecvFrame(d) ==
  /\ pc[d] = "recv" /\ chan[d] # <<>> /\ Head(chan[d]) = "frame"
  /\ chan' = [chan EXCEPT ![d] = Tail(@)]
  /\ IF rec[d] # "none" THEN UNCHANGED <<pc, seen>>
     ELSE pc' = [pc EXCEPT ![d] = "perm"] /\ seen' = [seen EXCEPT ![d] = lc.state]
  /\ UNCHANGED <<rec, lc, last, io, changes, torn>>

\* ... and then record_permission.
ReadPermission(d) ==
  /\ pc[d] = "perm"
  /\ record_screen(d, seen[d] /\ lc.permission)
  /\ pc' = [pc EXCEPT ![d] = "recv"]
  /\ seen' = [seen EXCEPT ![d] = FALSE]
  /\ UNCHANGED <<chan, lc, last, io, changes, torn>>

Next ==
  \/ \E d \in Display : \/ new_video_thread(d) \/ VideoFrame(d)
                        \/ RecvRecord(d) \/ RecvFrame(d) \/ ReadPermission(d)
  \/ \E b \in BOOLEAN : RecordScreen(b) \/ RecordingPermission(b)
  \/ update_record_state

Spec == Init /\ [][Next]_vars

-----------------------------------------------------------------------------
\* What the thread will do with its recorder once it has read its messages.
Settled(d) ==
  IF \E i \in DOMAIN chan[d] : chan[d][i] # "frame"
  THEN LET told_last == CHOOSE i \in DOMAIN chan[d] :
             /\ chan[d][i] # "frame"
             /\ \A j \in DOMAIN chan[d] : j > i => chan[d][j] = "frame"
       IN chan[d][told_last] = "start"
  ELSE rec[d] = "on"

\* A thread that has a handler ends up recording exactly when the session says that
\* it records (update_record_status, client_record_status), whatever the order of
\* the first frame, the user's changes and the peer's. The exception is a change
\* between the thread's two reads.
RecordSettled ==
  io = "idle" => \A d \in Display \ torn : rec[d] # "none" => Settled(d) = last

\* Between two events the session records only with the peer's permission, and a
\* wish to record that was not permitted is forgotten: a later permission does not
\* start a recording by itself (update_record_state clears record_state).
RecordPermitted == io = "idle" => (last = lc.state /\ (last => lc.permission))
=============================================================================
