------------------------- MODULE CursorServiceProofs -------------------------
(***************************************************************************)
(* The cursor service implements ServiceTmpl, and no change of the cursor  *)
(* is lost between the message to new_subscribes and their promotion, for  *)
(* any set of connections and of cursors.                                  *)
(***************************************************************************)
EXTENDS CursorService, ServiceTmplProofs

(* Who is not promoted yet has been sent nothing, except between the two   *)
(* steps of a snapshot, when it may have been sent the thread's cursor.    *)
NewUntold ==
  \A c \in Conn \ subscribes :
    \/ shown[c] = NoCursor
    \/ pc = "swap" /\ c \in new_subscribes /\ shown[c] = hcursor

(* The inductive invariant.  NewUntold is needed for SubscribersCurrent:   *)
(* only what new_subscribes were sent decides whether the swap keeps it.   *)
CursorInv ==
  /\ shown \in [Conn -> Cursor \cup {NoCursor}]
  /\ hcursor \in Cursor \cup {NoCursor}
  /\ cursor \in Cursor
  /\ NewUntold
  /\ SubscribersCurrent

(* A step of a connection's task promotes nobody who waits for a snapshot  *)
(* and takes nobody back to waiting.                                       *)
LEMMA ServerMoves ==
  ASSUME TmplInv, ServerNext
  PROVE  /\ subscribes' \cap new_subscribes \subseteq subscribes
         /\ subscribes \cap new_subscribes' = {}
<1>0. MapsOK /\ TmplTypeOK
  BY DEF TmplInv
<1>1. ASSUME NEW c \in Conn, on_subscribe(c)
      PROVE  /\ subscribes' \cap new_subscribes \subseteq subscribes
             /\ subscribes \cap new_subscribes' = {}
  BY <1>0, <1>1 DEF on_subscribe, MapsOK, SubsDisjoint, NewOnlyForSnapshot
<1>2. ASSUME NEW c \in Conn, on_unsubscribe(c)
      PROVE  /\ subscribes' \cap new_subscribes \subseteq subscribes
             /\ subscribes \cap new_subscribes' = {}
  BY <1>0, <1>2 DEF on_unsubscribe, MapsOK, SubsDisjoint
<1>3. ASSUME UNCHANGED <<subscribes, new_subscribes>>
      PROVE  /\ subscribes' \cap new_subscribes \subseteq subscribes
             /\ subscribes \cap new_subscribes' = {}
  BY <1>0, <1>3 DEF MapsOK, SubsDisjoint
<1>4. CASE \E c \in Conn : add_connection(c) \/ remove_connection(c)
  BY <1>1, <1>2, <1>3, <1>4 DEF add_connection, remove_connection
<1>5. CASE \E c \in Conn, sub \in BOOLEAN : is_subed_first(c, sub)
  BY <1>3, <1>5 DEF is_subed_first
<1>6. CASE \E r \in call : is_subed_second(r) \/ subscribe_finish(r)
  <2>1. PICK r \in call : is_subed_second(r) \/ subscribe_finish(r)
    BY <1>6
  <2>2. r.conn \in Conn
    BY <1>0, <2>1 DEF TmplTypeOK, CallRecord
  <2>3. QED
    BY <1>1, <1>2, <1>3, <2>1, <2>2 DEF is_subed_second, subscribe_finish
<1>7. CASE join
  BY <1>3, <1>7 DEF join
<1>8. QED
  BY <1>4, <1>5, <1>6, <1>7 DEF ServerNext

(* What the maps see of a step of the service is a step of TmplNext.       *)
LEMMA CursorStepImplements == [Next]_vars => [TmplNext]_tmplVars
<1>1. ASSUME Thread PROVE [TmplNext]_tmplVars
  BY <1>1 DEF Thread, LoopActive, LoopHasSubscribes, CallbackError, CallbackNoCursor,
     CallbackSend, SnapshotCheck, SnapshotSend, SnapshotSwap, TmplNext
<1>2. ASSUME CursorMoves PROVE [TmplNext]_tmplVars
  BY <1>2 DEF CursorMoves
<1>3. ASSUME Connections PROVE [TmplNext]_tmplVars
  BY <1>3 DEF Connections, TmplNext
<1>4. ASSUME UNCHANGED vars PROVE [TmplNext]_tmplVars
  BY <1>4 DEF vars
<1>5. QED
  BY <1>1, <1>2, <1>3, <1>4 DEF Next

(* The cursor service implements the abstract bookkeeping: what is proved  *)
(* of ServiceTmpl holds for it.                                            *)
THEOREM CursorImplementsTmpl == Spec => TmplSpec
<1>1. Init => TmplInit
  BY DEF Init
<1>2. QED
  BY <1>1, CursorStepImplements, PTL DEF Spec, TmplSpec

(* A step of the thread keeps the invariant: run_cursor sends a change to  *)
(* every subscriber, and the snapshot what run_cursor has cached.          *)
LEMMA ThreadKeepsCursor ==
  ASSUME TmplInv, CursorInv, Thread
  PROVE  CursorInv'
<1>0. subscribes \subseteq Conn /\ new_subscribes \subseteq Conn
  BY DEF TmplInv, MapsOK
<1>1. CASE LoopActive \/ CallbackError \/ CallbackNoCursor \/ SnapshotCheck
  BY <1>1 DEF CursorInv, NewUntold, SubscribersCurrent, tmplVars,
     LoopActive, CallbackError, CallbackNoCursor, SnapshotCheck
<1>2. CASE LoopHasSubscribes
  BY <1>2 DEF CursorInv, NewUntold, SubscribersCurrent, tmplVars, LoopHasSubscribes, has_subscribes
<1>3. CASE CallbackSend
  BY <1>0, <1>3 DEF CursorInv, NewUntold, SubscribersCurrent, tmplVars, CallbackSend, Deliver
<1>4. CASE SnapshotSend
  BY <1>0, <1>4 DEF CursorInv, NewUntold, SubscribersCurrent, tmplVars, SnapshotSend, Deliver
<1>5. CASE SnapshotSwap
  BY <1>0, <1>5 DEF CursorInv, NewUntold, SubscribersCurrent, SnapshotSwap, Swap, swap_new_subscribes
<1>6. QED
  BY <1>1, <1>2, <1>3, <1>4, <1>5 DEF Thread

(* So does a step of a connection's task: who subscribes starts with       *)
(* nothing.                                                                *)
LEMMA ConnectionsKeepCursor ==
  ASSUME TmplInv, CursorInv, Connections
  PROVE  CursorInv'
<1>0. subscribes \subseteq Conn /\ new_subscribes \subseteq Conn
  BY DEF TmplInv, MapsOK
<1>1. /\ subscribes' \cap new_subscribes \subseteq subscribes
      /\ subscribes \cap new_subscribes' = {}
  BY ServerMoves DEF Connections
<1>2. /\ shown' = [c \in Conn |-> IF c \in subscribes' \cup new_subscribes'
                                  THEN shown[c] ELSE NoCursor]
      /\ UNCHANGED <<pc, hcursor, cursor>>
  BY DEF Connections
<1>3. NewUntold'
  BY <1>0, <1>1, <1>2 DEF CursorInv, NewUntold
<1>4. SubscribersCurrent'
  <2>1. TmplInv'
    BY TmplStep DEF Connections, TmplNext
  <2>2. QED
    BY <1>0, <1>1, <1>2, <2>1 DEF CursorInv, NewUntold, SubscribersCurrent, TmplInv, MapsOK
<1>5. QED
  BY <1>2, <1>3, <1>4 DEF CursorInv

(* A subscriber that has been sent any cursor was last sent the one        *)
(* run_cursor holds as current.                                            *)
THEOREM CursorsStayCurrent == Spec => []SubscribersCurrent
<1>1. Init => CursorInv
  BY DEF Init, TmplInit, CursorInv, NewUntold, SubscribersCurrent
<1>2. TmplInv /\ CursorInv /\ [Next]_vars => CursorInv'
  <2> SUFFICES ASSUME TmplInv, CursorInv, [Next]_vars PROVE CursorInv'
    OBVIOUS
  <2>1. CASE CursorMoves
    BY <2>1 DEF CursorMoves, tmplVars, CursorInv, NewUntold, SubscribersCurrent
  <2>2. CASE UNCHANGED vars
    BY <2>2 DEF vars, svcVars, tmplVars, CursorInv, NewUntold, SubscribersCurrent
  <2>3. QED
    BY <2>1, <2>2, ThreadKeepsCursor, ConnectionsKeepCursor DEF Next
<1>3. CursorInv => SubscribersCurrent
  BY DEF CursorInv
<1>4. QED
  BY <1>1, <1>2, <1>3, CursorImplementsTmpl, TmplInvariant, PTL DEF Spec
=============================================================================
