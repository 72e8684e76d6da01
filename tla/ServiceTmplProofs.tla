-------------------------- MODULE ServiceTmplProofs --------------------------
(***************************************************************************)
(* The subscription invariants of ServiceTmpl, for any set of connections  *)
(* and either value of need_snapshot.                                      *)
(***************************************************************************)
EXTENDS ServiceTmpl, TLAPS

(* What a pending Server::subscribe call may still rely on when it ends: a *)
(* call that saw its connection subscribed finds it subscribed, since only *)
(* the swap can intervene; and its connection is open.                     *)
CallInv ==
  \A r \in call :
    /\ peers[r.conn] = "open"
    /\ r.pc = "subed" => r.conn \in subscribes \cup new_subscribes

(* Without snapshots on_subscribe inserts into subscribes without looking  *)
(* into new_subscribes, which is right because that map stays empty.       *)
NewOnlyForSnapshot == need_snapshot \/ new_subscribes = {}

(* What the two map operations need of the maps, and give back.            *)
MapsOK ==
  /\ subscribes \subseteq Conn
  /\ new_subscribes \subseteq Conn
  /\ SubsDisjoint
  /\ NewOnlyForSnapshot

TmplInv ==
  /\ TmplTypeOK
  /\ MapsOK
  /\ ClosedUnsubscribed
  /\ WantedSubscribed
  /\ CallInv

-----------------------------------------------------------------------------
(* on_subscribe keeps the maps disjoint and puts c, and only c, into one   *)
(* of them.                                                                *)
LEMMA OnSubscribe ==
  ASSUME NEW c \in Conn, TmplInv, on_subscribe(c)
  PROVE  /\ MapsOK'
         /\ subscribes' \cup new_subscribes'
              = subscribes \cup new_subscribes \cup {c}
<1> USE DEF on_subscribe, TmplInv, MapsOK, SubsDisjoint, NewOnlyForSnapshot
<1>1. CASE c \in subscribes
  BY <1>1
<1>2. CASE c \notin subscribes /\ need_snapshot
  BY <1>2
<1>3. CASE c \notin subscribes /\ ~need_snapshot
  BY <1>3
<1>4. QED
  BY <1>1, <1>2, <1>3

(* on_unsubscribe takes c, and only c, out of both maps; disjointness is   *)
(* what makes its early return right.                                      *)
LEMMA OnUnsubscribe ==
  ASSUME NEW c \in Conn, TmplInv, on_unsubscribe(c)
  PROVE  /\ MapsOK'
         /\ subscribes' \cup new_subscribes'
              = (subscribes \cup new_subscribes) \ {c}
<1> USE DEF on_unsubscribe, TmplInv, MapsOK, SubsDisjoint, NewOnlyForSnapshot
<1>1. CASE c \in subscribes
  BY <1>1
<1>2. CASE c \notin subscribes
  BY <1>2
<1>3. QED
  BY <1>1, <1>2

(* Every step of a connection task or of the service thread preserves the  *)
(* invariant.                                                              *)
LEMMA TmplStep == TmplInv /\ [TmplNext]_tmplVars => TmplInv'
<1> SUFFICES ASSUME TmplInv, [TmplNext]_tmplVars PROVE TmplInv'
  OBVIOUS
<1>0. /\ MapsOK /\ active \in BOOLEAN /\ wanted \subseteq Conn
      /\ peers \in [Conn -> {"none", "open", "closed"}]
      /\ ClosedUnsubscribed /\ WantedSubscribed /\ CallInv
      /\ \A r \in call : r \in CallRecord
  BY DEF TmplInv, TmplTypeOK, MapsOK
<1>1. ASSUME NEW c \in Conn, add_connection(c) PROVE TmplInv'
  <2>1. /\ call' = {}
        /\ active' = active
        /\ peers' \in [Conn -> {"none", "open", "closed"}]
        /\ \A d \in Conn : peers'[d] = IF d = c THEN "open" ELSE peers[d]
    BY <1>0, <1>1 DEF add_connection, ServerFree
  <2>2. CASE on_subscribe(c) /\ wanted' = wanted \cup {c}
    <3>1. /\ MapsOK'
          /\ subscribes' \cup new_subscribes'
               = subscribes \cup new_subscribes \cup {c}
      BY <2>2, OnSubscribe
    <3>2. ClosedUnsubscribed'
      BY <1>0, <2>1, <3>1 DEF ClosedUnsubscribed
    <3>3. WantedSubscribed' /\ wanted' \subseteq Conn
      BY <1>0, <2>2, <3>1 DEF WantedSubscribed
    <3>4. QED
      BY <1>0, <2>1, <3>1, <3>2, <3>3 DEF TmplInv, TmplTypeOK, MapsOK, CallInv
  <2>3. CASE UNCHANGED <<subscribes, new_subscribes, wanted>>
    <3>1. MapsOK' /\ WantedSubscribed' /\ wanted' \subseteq Conn
      BY <1>0, <2>3 DEF MapsOK, SubsDisjoint, NewOnlyForSnapshot, WantedSubscribed
    <3>2. ClosedUnsubscribed'
      BY <1>0, <2>1, <2>3 DEF ClosedUnsubscribed
    <3>3. QED
      BY <1>0, <2>1, <3>1, <3>2 DEF TmplInv, TmplTypeOK, MapsOK, CallInv
  <2>4. QED
    BY <1>1, <2>2, <2>3 DEF add_connection
<1>2. ASSUME NEW c \in Conn, remove_connection(c) PROVE TmplInv'
  <2>1. /\ call' = {}
        /\ active' = active
        /\ wanted' = wanted \ {c}
        /\ peers' \in [Conn -> {"none", "open", "closed"}]
        /\ \A d \in Conn : peers'[d] = IF d = c THEN "closed" ELSE peers[d]
    BY <1>0, <1>2 DEF remove_connection, ServerFree
  <2>2. /\ MapsOK'
        /\ subscribes' \cup new_subscribes'
             = (subscribes \cup new_subscribes) \ {c}
    BY <1>2, OnUnsubscribe DEF remove_connection
  <2>3. ClosedUnsubscribed'
    BY <1>0, <2>1, <2>2 DEF ClosedUnsubscribed
  <2>4. WantedSubscribed'
    BY <1>0, <2>1, <2>2 DEF WantedSubscribed
  <2>5. QED
    BY <1>0, <2>1, <2>2, <2>3, <2>4 DEF TmplInv, TmplTypeOK, MapsOK, CallInv
<1>3. ASSUME NEW c \in Conn, NEW sub \in BOOLEAN, is_subed_first(c, sub)
      PROVE  TmplInv'
  <2> DEFINE q == [conn |-> c, sub |-> sub,
                   pc |-> IF c \in subscribes THEN "subed" ELSE "second"]
  <2>1. q \in CallRecord /\ q.conn = c /\ (q.pc = "subed" => c \in subscribes)
    BY DEF CallRecord
  <2>2. /\ call' = {q} /\ peers[c] = "open"
        /\ UNCHANGED <<subscribes, new_subscribes, active, peers, wanted>>
    BY <1>3 DEF is_subed_first
  <2> HIDE DEF q
  <2>3. CallInv'
    BY <2>1, <2>2 DEF CallInv
  <2>4. TmplTypeOK'
    BY <1>0, <2>1, <2>2 DEF TmplTypeOK, MapsOK
  <2>5. QED
    BY <2>2, <2>3, <2>4 DEF TmplInv, MapsOK, SubsDisjoint,
       NewOnlyForSnapshot, ClosedUnsubscribed, WantedSubscribed
<1>4. ASSUME NEW r \in call, is_subed_second(r) PROVE TmplInv'
  <2> DEFINE q == [r EXCEPT !.pc = IF r.conn \in new_subscribes
                                   THEN "subed" ELSE "unsubed"]
  <2>1. /\ q \in CallRecord /\ q.conn = r.conn
        /\ q.pc = "subed" => r.conn \in new_subscribes
    BY <1>0 DEF CallRecord
  <2>2. /\ call' = {q}
        /\ UNCHANGED <<subscribes, new_subscribes, active, peers, wanted>>
    BY <1>4 DEF is_subed_second
  <2> HIDE DEF q
  <2>3. CallInv'
    BY <1>0, <2>1, <2>2 DEF CallInv
  <2>4. TmplTypeOK'
    BY <1>0, <2>1, <2>2 DEF TmplTypeOK, MapsOK
  <2>5. QED
    BY <2>2, <2>3, <2>4 DEF TmplInv, MapsOK, SubsDisjoint,
       NewOnlyForSnapshot, ClosedUnsubscribed, WantedSubscribed
<1>5. ASSUME NEW r \in call, subscribe_finish(r) PROVE TmplInv'
  <2>1. /\ r.conn \in Conn
        /\ r.sub \in BOOLEAN
        /\ peers[r.conn] = "open"
        /\ r.pc = "subed" => r.conn \in subscribes \cup new_subscribes
    BY <1>0 DEF CallInv, CallRecord
  <2>2. call' = {} /\ peers' = peers /\ active' = active
    BY <1>5 DEF subscribe_finish
  <2>3. CASE UNCHANGED <<subscribes, new_subscribes>>
             /\ (r.pc = "subed") = r.sub
    <3>1. MapsOK' /\ ClosedUnsubscribed'
      BY <1>0, <2>2, <2>3 DEF MapsOK, SubsDisjoint, NewOnlyForSnapshot,
         ClosedUnsubscribed
    <3>2. wanted' \subseteq Conn /\ WantedSubscribed'
      BY <1>0, <1>5, <2>1, <2>3 DEF subscribe_finish, WantedSubscribed
    <3>3. QED
      BY <1>0, <2>2, <3>1, <3>2 DEF TmplInv, TmplTypeOK, MapsOK, CallInv
  <2>4. CASE r.sub /\ on_subscribe(r.conn)
    <3>1. /\ MapsOK'
          /\ subscribes' \cup new_subscribes'
               = subscribes \cup new_subscribes \cup {r.conn}
      BY <2>1, <2>4, OnSubscribe
    <3>2. wanted' = wanted \cup {r.conn}
      BY <1>5, <2>4 DEF subscribe_finish
    <3>3. ClosedUnsubscribed'
      BY <1>0, <2>1, <2>2, <3>1 DEF ClosedUnsubscribed
    <3>4. WantedSubscribed' /\ wanted' \subseteq Conn
      BY <1>0, <2>1, <3>1, <3>2 DEF WantedSubscribed
    <3>5. QED
      BY <1>0, <2>2, <3>1, <3>3, <3>4 DEF TmplInv, TmplTypeOK, MapsOK, CallInv
  <2>5. CASE ~r.sub /\ on_unsubscribe(r.conn)
    <3>1. /\ MapsOK'
          /\ subscribes' \cup new_subscribes'
               = (subscribes \cup new_subscribes) \ {r.conn}
      BY <2>1, <2>5, OnUnsubscribe
    <3>2. wanted' = wanted \ {r.conn}
      BY <1>5, <2>5 DEF subscribe_finish
    <3>3. ClosedUnsubscribed'
      BY <1>0, <2>2, <3>1 DEF ClosedUnsubscribed
    <3>4. WantedSubscribed' /\ wanted' \subseteq Conn
      BY <1>0, <3>1, <3>2 DEF WantedSubscribed
    <3>5. QED
      BY <1>0, <2>2, <3>1, <3>3, <3>4 DEF TmplInv, TmplTypeOK, MapsOK, CallInv
  <2>6. QED
    BY <1>5, <2>1, <2>3, <2>4, <2>5 DEF subscribe_finish
<1>6. CASE join
  <2>1. /\ UNCHANGED <<subscribes, new_subscribes, peers, call, wanted>>
        /\ active' = FALSE
    BY <1>6 DEF join
  <2>2. QED
    BY <2>1 DEF TmplInv, TmplTypeOK, MapsOK, SubsDisjoint,
       NewOnlyForSnapshot, ClosedUnsubscribed, WantedSubscribed, CallInv
<1>7. CASE Swap
  <2>1. /\ subscribes' = subscribes \cup new_subscribes
        /\ new_subscribes' = {}
        /\ UNCHANGED <<active, peers, call, wanted>>
    BY <1>7 DEF Swap, swap_new_subscribes
  <2>2. MapsOK'
    BY <1>0, <2>1 DEF MapsOK, SubsDisjoint, NewOnlyForSnapshot
  <2>3. ClosedUnsubscribed' /\ WantedSubscribed'
    BY <1>0, <2>1 DEF ClosedUnsubscribed, WantedSubscribed
  <2>4. CallInv'
    BY <1>0, <2>1 DEF CallInv
  <2>5. TmplTypeOK'
    BY <2>1, <2>2 DEF TmplInv, TmplTypeOK, MapsOK
  <2>6. QED
    BY <2>2, <2>3, <2>4, <2>5 DEF TmplInv, MapsOK
<1>8. CASE UNCHANGED tmplVars
  BY <1>8 DEF tmplVars, TmplInv, TmplTypeOK, MapsOK, SubsDisjoint,
     NewOnlyForSnapshot, ClosedUnsubscribed, WantedSubscribed, CallInv
<1>9. QED
  BY <1>1, <1>2, <1>3, <1>4, <1>5, <1>6, <1>7, <1>8 DEF TmplNext, ServerNext

-----------------------------------------------------------------------------
(* The inductive invariant holds of every behaviour of the framework.      *)
THEOREM TmplInvariant == TmplSpec => []TmplInv
<1>1. TmplInit => TmplInv
  BY DEF TmplInit, TmplInv, TmplTypeOK, MapsOK, SubsDisjoint,
     NewOnlyForSnapshot, ClosedUnsubscribed, WantedSubscribed, CallInv
<1>2. QED
  BY <1>1, TmplStep, PTL DEF TmplSpec

(* Type correctness of the subscription maps.                              *)
THEOREM TmplTypeCorrect == TmplSpec => []TmplTypeOK
<1>1. TmplInv => TmplTypeOK
  BY DEF TmplInv
<1>2. QED
  BY <1>1, TmplInvariant, PTL

(* A connection is never in both maps.                                     *)
THEOREM MapsDisjoint == TmplSpec => []SubsDisjoint
<1>1. TmplInv => SubsDisjoint
  BY DEF TmplInv, MapsOK
<1>2. QED
  BY <1>1, TmplInvariant, PTL

(* Nothing is ever sent to a connection after remove_connection: it is in  *)
(* neither map.                                                            *)
THEOREM ClosedStayUnsubscribed == TmplSpec => []ClosedUnsubscribed
<1>1. TmplInv => ClosedUnsubscribed
  BY DEF TmplInv
<1>2. QED
  BY <1>1, TmplInvariant, PTL

(* No subscription is lost, however is_subed's two reads and the service   *)
(* thread's swap interleave.                                               *)
THEOREM SubscriptionsKept == TmplSpec => []WantedSubscribed
<1>1. TmplInv => WantedSubscribed
  BY DEF TmplInv
<1>2. QED
  BY <1>1, TmplInvariant, PTL

(* The maps of a ServiceTmpl are right about every connection, through any *)
(* interleaving of its server's calls with the service thread's swaps.     *)
THEOREM SubscriptionsStayRight == TmplSpec => []SubscriptionsRight
<1>1. SubsDisjoint /\ ClosedUnsubscribed /\ WantedSubscribed => SubscriptionsRight
  BY DEF SubscriptionsRight
<1>2. QED
  BY <1>1, MapsDisjoint, ClosedStayUnsubscribed, SubscriptionsKept, PTL
=============================================================================
