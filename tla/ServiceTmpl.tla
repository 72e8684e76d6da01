----------------------------- MODULE ServiceTmpl -----------------------------
(***************************************************************************)
(* The subscriber bookkeeping every service of the controlled side shares  *)
(* (src/rustdesk/src/server/service.rs), together with the operations the  *)
(* Server performs on it on behalf of connections (src/rustdesk/src/       *)
(* server.rs).                                                             *)
(*                                                                         *)
(* A service keeps two maps under one RwLock: `subscribes`, the            *)
(* connections it sends to, and `new_subscribes`, those still waiting for  *)
(* a snapshot.  The service's own thread moves the second into the first   *)
(* when a ServiceSwap is dropped.  Connection tasks change the maps while  *)
(* they hold the write lock of the Server, which excludes one another but  *)
(* not the service thread.                                                 *)
(*                                                                         *)
(* TmplSpec is what every concrete service (CursorService, VideoService)   *)
(* is shown to implement: the thread is reduced to its one effect on the   *)
(* maps, a swap at any moment.                                             *)
(***************************************************************************)

CONSTANTS
  Conn,           \* connection ids; get_new_id never hands one out twice
  need_snapshot   \* the flag a service is created with

ASSUME NeedSnapshotBool == need_snapshot \in BOOLEAN

VARIABLES
  subscribes,     \* ServiceInner.subscribes, as the set of its keys
  new_subscribes, \* ServiceInner.new_subscribes, as the set of its keys
  active,         \* ServiceInner.active; FALSE once the Server is dropped
  peers,          \* life of a connection: not yet added, added, removed
  call,           \* the Server::subscribe call in progress ({} or one record)
  wanted          \* history: connections whose last request was to subscribe

tmplVars == <<subscribes, new_subscribes, active, peers, call, wanted>>

-----------------------------------------------------------------------------
(* Operations on ServiceInner, each under the service's lock.              *)

has_subscribes == subscribes # {} \/ new_subscribes # {}

ok == active /\ has_subscribes

on_subscribe_unchecked(c) ==
  /\ new_subscribes' = new_subscribes \cup {c}
  /\ UNCHANGED subscribes

on_subscribe(c) ==
  IF c \in subscribes THEN UNCHANGED <<subscribes, new_subscribes>>
  ELSE IF need_snapshot
  THEN /\ new_subscribes' = new_subscribes \cup {c}
       /\ UNCHANGED subscribes
  ELSE /\ subscribes' = subscribes \cup {c}
       /\ UNCHANGED new_subscribes

on_unsubscribe_subscribed_only(c) ==
  /\ subscribes' = subscribes \ {c}
  /\ UNCHANGED new_subscribes

on_unsubscribe(c) ==
  IF c \in subscribes
  THEN /\ subscribes' = subscribes \ {c}
       /\ UNCHANGED new_subscribes
  ELSE /\ new_subscribes' = new_subscribes \ {c}
       /\ UNCHANGED subscribes

swap_dropping_new ==
  /\ new_subscribes' = {}
  /\ UNCHANGED subscribes

swap_new_subscribes ==
  /\ subscribes' = subscribes \cup new_subscribes
  /\ new_subscribes' = {}

-----------------------------------------------------------------------------
(* Operations of the Server, each by a connection task that holds the      *)
(* Server's write lock for the whole operation.                            *)

ServerFree == active /\ call = {}

(* add_connection: a service the connection has no permission for is       *)
(* skipped (`noperms`), and so is a video service that is not the primary  *)
(* one.                                                                    *)
add_connection(c) ==
  /\ ServerFree
  /\ peers[c] = "none"
  /\ peers' = [peers EXCEPT ![c] = "open"]
  /\ \/ /\ on_subscribe(c)
        /\ wanted' = wanted \cup {c}
     \/ UNCHANGED <<subscribes, new_subscribes, wanted>>
  /\ UNCHANGED <<active, call>>

remove_connection(c) ==
  /\ ServerFree
  /\ peers[c] = "open"
  /\ peers' = [peers EXCEPT ![c] = "closed"]
  /\ on_unsubscribe(c)
  /\ wanted' = wanted \ {c}
  /\ UNCHANGED <<active, call>>

(* Server::subscribe(name, c, sub) starts with is_subed, which takes the   *)
(* service's read lock twice: for `subscribes`, and, when c is not there,  *)
(* again for `new_subscribes`.                                             *)
is_subed_first(c, sub) ==
  /\ ServerFree
  /\ peers[c] = "open"
  /\ call' = {[conn |-> c, sub |-> sub,
               pc |-> IF c \in subscribes THEN "subed" ELSE "second"]}
  /\ UNCHANGED <<subscribes, new_subscribes, active, peers, wanted>>

is_subed_second(r) ==
  /\ r.pc = "second"
  /\ call' = {[r EXCEPT !.pc = IF r.conn \in new_subscribes
                               THEN "subed" ELSE "unsubed"]}
  /\ UNCHANGED <<subscribes, new_subscribes, active, peers, wanted>>

subscribe_finish(r) ==
  /\ r.pc \in {"subed", "unsubed"}
  /\ IF (r.pc = "subed") = r.sub
     THEN UNCHANGED <<subscribes, new_subscribes>>
     ELSE IF r.sub THEN on_subscribe(r.conn) ELSE on_unsubscribe(r.conn)
  /\ wanted' = IF r.sub THEN wanted \cup {r.conn} ELSE wanted \ {r.conn}
  /\ call' = {}
  /\ UNCHANGED <<active, peers>>

(* Drop of the Server: join() clears `active`; no operation follows, since *)
(* connections only hold a Weak reference to the Server.                   *)
join ==
  /\ ServerFree
  /\ active' = FALSE
  /\ UNCHANGED <<subscribes, new_subscribes, peers, call, wanted>>

ServerNext ==
  \/ \E c \in Conn : add_connection(c) \/ remove_connection(c)
  \/ \E c \in Conn, sub \in BOOLEAN : is_subed_first(c, sub)
  \/ \E r \in call : is_subed_second(r) \/ subscribe_finish(r)
  \/ join

TmplInit ==
  /\ subscribes = {}
  /\ new_subscribes = {}
  /\ active = TRUE
  /\ peers = [c \in Conn |-> "none"]
  /\ call = {}
  /\ wanted = {}

(* The service thread as the maps see it.                                  *)
Swap ==
  /\ swap_new_subscribes
  /\ UNCHANGED <<active, peers, call, wanted>>

TmplNext == ServerNext \/ Swap

TmplSpec == TmplInit /\ [][TmplNext]_tmplVars

-----------------------------------------------------------------------------
CallRecord ==
  [conn : Conn, sub : BOOLEAN, pc : {"second", "subed", "unsubed"}]

(* Type correctness of the maps, the connection states and the one pending *)
(* subscribe call.                                                         *)
TmplTypeOK ==
  /\ subscribes \subseteq Conn
  /\ new_subscribes \subseteq Conn
  /\ active \in BOOLEAN
  /\ peers \in [Conn -> {"none", "open", "closed"}]
  /\ call = {} \/ \E r \in CallRecord : call = {r}
  /\ wanted \subseteq Conn

(* No connection is in both maps.  on_unsubscribe relies on it: it looks   *)
(* into new_subscribes only when the id was not in subscribes.             *)
SubsDisjoint == subscribes \cap new_subscribes = {}

(* A removed connection is in neither map, whatever the service thread     *)
(* swapped in the meantime: no frame is ever sent to a closed connection.  *)
ClosedUnsubscribed ==
  \A c \in Conn : peers[c] # "open" => c \notin subscribes \cup new_subscribes

(* A connection whose last completed request was to subscribe is in one of *)
(* the maps: neither the swap nor the two reads of is_subed lose it.       *)
WantedSubscribed == wanted \subseteq subscribes \cup new_subscribes

(* The three together: the maps say of every connection what it asked for  *)
(* last, but for an unsubscription lost between the reads of is_subed.     *)
SubscriptionsRight == SubsDisjoint /\ ClosedUnsubscribed /\ WantedSubscribed

(* The converse: a connection that asked to be unsubscribed no longer is.  *)
(* server.rs relies on it to stop capturing displays nobody looks at.      *)
UnsubscribeTakesEffect == subscribes \cup new_subscribes \subseteq wanted
=============================================================================
