---------------------------- MODULE CursorService ----------------------------
(***************************************************************************)
(* A service driven by ServiceTmpl::repeat: the mouse cursor service       *)
(* (new_cursor and run_cursor in src/rustdesk/src/server/input_service.rs) *)
(* on the thread loop of src/rustdesk/src/server/service.rs.               *)
(*                                                                         *)
(* The thread looks at the local cursor every 33 ms.  A change is sent to  *)
(* `subscribes`; a snapshot then sends the current cursor to               *)
(* `new_subscribes` and promotes them.  Each use of the service's lock is  *)
(* a step of its own, so that connection tasks interleave between them.    *)
(***************************************************************************)
EXTENDS ServiceTmpl

CONSTANTS
  Cursor,   \* handles the platform's get_cursor can return
  NoCursor  \* hcursor 0 / the empty message of a default StateCursor

VARIABLES
  pc,          \* where the service thread is
  may_reset,   \* local of repeat
  hcursor,     \* StateCursor.hcursor, and the message cached in cursor_data
  cursor,      \* the platform's cursor
  shown        \* per connection, the last cursor sent since it subscribed

svcVars == <<pc, may_reset, hcursor, cursor, shown>>
vars == <<tmplVars, svcVars>>

-----------------------------------------------------------------------------
deliver_only(s, m) == shown' = [c \in s |-> m]

(* A message sent to the connections in s: the subscriber remembers the    *)
(* cursor (MouseCursorSub sends it by id when it already has the pixels).  *)
Deliver(s, m) == shown' = [c \in Conn |-> IF c \in s THEN m ELSE shown[c]]

loop_for_ever ==
  /\ pc = "loop"
  /\ pc' = "subs"
  /\ UNCHANGED <<may_reset, hcursor, cursor, shown, tmplVars>>

LoopActive ==
  /\ pc = "loop"
  /\ pc' = IF active THEN "subs" ELSE "exit"
  /\ UNCHANGED <<may_reset, hcursor, cursor, shown, tmplVars>>

LoopHasSubscribes ==
  /\ pc = "subs"
  /\ IF has_subscribes
     THEN /\ may_reset' = TRUE
          /\ pc' = "callback"
          /\ UNCHANGED hcursor
     ELSE /\ may_reset' = FALSE
          /\ hcursor' = IF may_reset THEN NoCursor ELSE hcursor
          /\ pc' = "loop"
  /\ UNCHANGED <<cursor, shown, tmplVars>>

(* get_cursor or get_cursor_data fails: repeat logs, sleeps, loops.        *)
CallbackError ==
  /\ pc = "callback"
  /\ pc' = "loop"
  /\ UNCHANGED <<may_reset, hcursor, cursor, shown, tmplVars>>

(* get_cursor is None: nothing to compare with, straight to the snapshot.  *)
CallbackNoCursor ==
  /\ pc = "callback"
  /\ pc' = "snapshot"
  /\ UNCHANGED <<may_reset, hcursor, cursor, shown, tmplVars>>

CallbackStale ==
  /\ pc = "callback"
  /\ hcursor' = cursor
  /\ pc' = "snapshot"
  /\ UNCHANGED <<may_reset, cursor, shown, tmplVars>>

CallbackSend ==
  /\ pc = "callback"
  /\ hcursor' = cursor
  /\ IF cursor # hcursor THEN Deliver(subscribes, cursor) ELSE UNCHANGED shown
  /\ pc' = "snapshot"
  /\ UNCHANGED <<may_reset, cursor, tmplVars>>

snapshot_for_old ==
  /\ pc = "snapshot"
  /\ pc' = IF subscribes # {} THEN "send_new" ELSE "loop"
  /\ UNCHANGED <<may_reset, hcursor, cursor, shown, tmplVars>>

SnapshotCheck ==
  /\ pc = "snapshot"
  /\ pc' = IF new_subscribes # {} THEN "send_new" ELSE "loop"
  /\ UNCHANGED <<may_reset, hcursor, cursor, shown, tmplVars>>

SnapshotSend ==
  /\ pc = "send_new"
  /\ Deliver(new_subscribes, hcursor)
  /\ pc' = "swap"
  /\ UNCHANGED <<may_reset, hcursor, cursor, tmplVars>>

swap_replacing ==
  /\ pc = "swap"
  /\ subscribes' = new_subscribes /\ new_subscribes' = {}
  /\ UNCHANGED <<active, peers, call, wanted>>
  /\ pc' = "loop"
  /\ UNCHANGED <<may_reset, hcursor, cursor, shown>>

SnapshotSwap ==
  /\ pc = "swap"
  /\ Swap
  /\ pc' = "loop"
  /\ UNCHANGED <<may_reset, hcursor, cursor, shown>>

Thread ==
  \/ LoopActive \/ LoopHasSubscribes
  \/ CallbackError \/ CallbackNoCursor \/ CallbackSend
  \/ SnapshotCheck \/ SnapshotSend \/ SnapshotSwap

CursorMoves ==
  /\ cursor' \in Cursor \ {cursor}
  /\ UNCHANGED <<pc, may_reset, hcursor, shown, tmplVars>>

(* A subscription starts from nothing: MouseCursorSub::from has an empty   *)
(* cache.                                                                  *)
Connections ==
  /\ ServerNext
  /\ shown' = [c \in Conn |-> IF c \in subscribes' \cup new_subscribes'
                              THEN shown[c] ELSE NoCursor]
  /\ UNCHANGED <<pc, may_reset, hcursor, cursor>>

Init ==
  /\ TmplInit
  /\ pc = "loop"
  /\ may_reset = FALSE
  /\ hcursor = NoCursor
  /\ cursor \in Cursor
  /\ shown = [c \in Conn |-> NoCursor]

Next == Thread \/ CursorMoves \/ Connections

(* The thread is scheduled by the operating system and never waits for a   *)
(* connection: weak fairness.  That get_cursor does not fail for ever is   *)
(* an assumption on the platform.                                          *)
Fairness == WF_vars(Thread) /\ SF_vars(CallbackSend)

Spec == Init /\ [][Next]_vars /\ Fairness

-----------------------------------------------------------------------------
(* Type correctness of the thread's locals and of what was sent.           *)
TypeOK ==
  /\ TmplTypeOK
  /\ pc \in {"loop", "subs", "callback", "snapshot", "send_new", "swap", "exit"}
  /\ may_reset \in BOOLEAN
  /\ hcursor \in Cursor \cup {NoCursor}
  /\ cursor \in Cursor
  /\ shown \in [Conn -> Cursor \cup {NoCursor}]

(* A subscriber that has been sent any cursor was last sent the one the    *)
(* thread holds as current: no change is lost between the snapshot sent to *)
(* new_subscribes and the promotion to subscribes.                         *)
SubscribersCurrent ==
  \A c \in subscribes : shown[c] \in {NoCursor, hcursor}

(* join() ends the thread: clearing `active` leads to its exit.            *)
ThreadExits == []<>(active \/ pc = "exit")

(* A waiting subscriber does not wait for ever while the service runs.     *)
NewSubscribersServed ==
  \A c \in Conn : []<>(c \notin new_subscribes \/ ~active)
=============================================================================
