---------------------------- MODULE TerminalService ----------------------------
(***************************************************************************)
(* The registry entry of one terminal service, the connections that use it *)
(* one after the other under the same service id, and the run loop of each *)
(* connection, which polls the sessions.  A connection whose peer is lost  *)
(* stays, and its run loop polls on, until it notices; meanwhile the       *)
(* client may have come back with the next one.  A handler runs in one     *)
(* step, under the service's lock; a poll gives every lock back between a  *)
(* session and the next, and before the cleanup.  Output is counted: of    *)
(* the chunks that found room in a session's channel the first taken[s]    *)
(* are in its output_buffer, the others in the channel.                    *)
(***************************************************************************)
EXTENDS Naturals, FiniteSets, FiniteSetsExt, Functions

CONSTANTS Conn,     \* 1..n, in the order in which they log in
          Ids,      \* terminal ids
          Session,  \* 1..m, in the order in which shells are started
          CHANNEL_BUFFER_SIZE,
          MaxOut,   \* output of a session
          MaxIdle   \* idle timeouts that pass

NoService == [inst |-> 0, is_persistent |-> FALSE, needs_session_sync |-> FALSE, sessions |-> <<>>, idle |-> 0]
Fresh == [child |-> "none", alive |-> FALSE, active |-> FALSE, pending |-> 0, told |-> FALSE, sent |-> 0, taken |-> 0]

VARIABLES conn,     \* "new", "up", "over" (being dropped) or "gone"
          loop,     \* its run loop: "hibernate", "idle", "poll", "remove" or "gone"
          poll,     \* its poll: service instance, is_persistent, the sessions to do, closed_terminals
          service, instances,
          st,       \* the sessions
          cleaner,  \* the cleanup task has found the service to be removed
          known,    \* of the connection that logged in last: sessions its peer opened or was told of,
          opened,   \* sessions it opened,
          view,     \* chunks of a session it has: all up to this one
          stolen,   \* history: a run loop took what another connection's peer was to see,
          raced,    \* the service changed between the decision to remove it and its removal,
          moved     \* a terminal id changed hands while a poll went by it

idlePoll == [inst |-> 0, is_persistent |-> FALSE, todo |-> {}, closed |-> {}]
peers == <<known, opened, view>>
history == <<stolen, raced, moved>>
vars == <<conn, loop, poll, service, instances, st, cleaner, peers, history>>

Init ==
    /\ conn = [c \in Conn |-> "new"] /\ loop = [c \in Conn |-> "gone"]
    /\ poll = [c \in Conn |-> idlePoll]
    /\ service = NoService /\ instances = 0
    /\ st = [s \in Session |-> Fresh]
    /\ cleaner = FALSE
    /\ known = {} /\ opened = {} /\ view = [s \in Session |-> 0]
    /\ stolen = FALSE /\ raced = FALSE /\ moved = FALSE

Registered == service.inst # 0
Sessions == Range(service.sessions)
Put(f, k, v) == [x \in DOMAIN f \cup {k} |-> IF x = k THEN v ELSE f[x]]
Drop(f, K) == [x \in DOMAIN f \ K |-> f[x]]
Value(f, k) == IF k \in DOMAIN f THEN f[k] ELSE 0
Latest(c) == conn[c] # "new" /\ \A d \in Conn : d > c => conn[d] = "new"
Deciding == cleaner \/ \E c \in Conn : loop[c] = "remove"
-----------------------------------------------------------------------------
(* Connections. *)

\* Mutant: the sessions are left as they are.
reset_status_open(svc, p) == st

reset_status(svc, p) ==
    [s \in Session |-> IF s \in Range(svc.sessions) THEN [st[s] EXCEPT !.active = FALSE, !.pending = 0] ELSE st[s]]

\* A login: get_or_create_service, then the run loop is started with the connection as its subscriber.
init_terminal_service(c, p) ==
    LET svc == IF Registered THEN service ELSE [NoService EXCEPT !.inst = instances + 1] IN
    /\ conn[c] = "new" /\ \A d \in Conn : d < c => conn[d] # "new"
    /\ conn' = [conn EXCEPT ![c] = "up"] /\ loop' = [loop EXCEPT ![c] = "hibernate"]
    /\ service' = [svc EXCEPT !.is_persistent = p, !.needs_session_sync = TRUE]
    /\ instances' = IF Registered THEN instances ELSE instances + 1
    /\ st' = reset_status(svc, p)
    /\ known' = {} /\ opened' = {} /\ view' = [s \in Session |-> 0]
    /\ raced' = (raced \/ Deciding)
    /\ UNCHANGED <<poll, cleaner, stolen, moved>>

update_terminal_persistence(c, p) ==
    /\ conn[c] = "up" /\ Latest(c) /\ Registered /\ service.is_persistent # p
    /\ service' = [service EXCEPT !.is_persistent = p]
    /\ raced' = (raced \/ Deciding)
    /\ UNCHANGED <<conn, loop, poll, instances, st, cleaner, peers, stolen, moved>>

\* The connection has noticed that its peer is gone, or the peer has left.
DropConnection(c) ==
    /\ conn[c] = "up" /\ conn' = [conn EXCEPT ![c] = "over"]
    /\ UNCHANGED <<loop, poll, service, instances, st, cleaner, peers, history>>
-----------------------------------------------------------------------------
(* Actions of the peer. *)

\* Polls that have not finished with terminal id.
Passing(id) == \E c \in Conn : id \in poll[c].closed \/ \E t \in poll[c].todo : t[1] = id

Remaps(id) == id \notin DOMAIN service.sessions /\ service.needs_session_sync /\ DOMAIN service.sessions # {}

Remapped(id) ==
    IF Remaps(id) THEN LET low == Min(DOMAIN service.sessions)
                       IN Put(Drop(service.sessions, {low}), id, service.sessions[low])
    ELSE service.sessions

\* The sessions the answer names: the one that was opened, and all others if the peer does not know of them yet.
Told(svc, s) == {s} \cup (IF service.needs_session_sync THEN Range(svc) ELSE {})

\* Mutant: what is replayed is read before the backlog is taken from the channel.
Reconnect_before(x) == [x EXCEPT !.active = TRUE, !.pending = x.taken, !.taken = x.sent]

\* The replay holds the buffer and the backlog of the channel.
Reconnect(x) == [x EXCEPT !.active = TRUE, !.pending = x.sent, !.taken = x.sent]

Open(c, id, sessions, s) ==
    /\ service' = [service EXCEPT !.sessions = sessions, !.needs_session_sync = FALSE, !.idle = 0]
    /\ known' = known \cup Told(sessions, s)
    /\ opened' = opened \cup {s} /\ view' = [view EXCEPT ![s] = 0]
    /\ raced' = (raced \/ Deciding)
    /\ moved' = (moved \/ \E k \in Ids : Passing(k) /\ Value(service.sessions, k) # Value(sessions, k))
    /\ UNCHANGED <<conn, loop, poll, instances, cleaner, stolen>>

\* Mutant: a reconnected peer is not told of the other sessions.
handle_open_silent(c, id) ==
    /\ conn[c] = "up" /\ Latest(c) /\ Registered
    /\ LET sessions == Remapped(id) IN
       /\ id \in DOMAIN sessions
       /\ LET s == sessions[id] IN
          /\ s \notin opened
          /\ st' = [st EXCEPT ![s] = Reconnect(@)]
          /\ service' = [service EXCEPT !.sessions = sessions, !.needs_session_sync = FALSE, !.idle = 0]
          /\ known' = known \cup {s}
          /\ opened' = opened \cup {s} /\ view' = [view EXCEPT ![s] = 0]
          /\ UNCHANGED <<conn, loop, poll, instances, cleaner, history>>

\* OpenTerminal that reconnects to a session.
handle_open(c, id) ==
    /\ conn[c] = "up" /\ Latest(c) /\ Registered
    /\ LET sessions == Remapped(id) IN
       /\ id \in DOMAIN sessions
       /\ LET s == sessions[id] IN
          /\ s \notin opened
          /\ st' = [st EXCEPT ![s] = Reconnect(@)]
          /\ Open(c, id, sessions, s)

\* OpenTerminal that starts a shell.
OpenNew(c, id, s) ==
    /\ conn[c] = "up" /\ Latest(c) /\ Registered
    /\ id \notin DOMAIN Remapped(id)
    /\ st[s].child = "none" /\ \A r \in Session : r < s => st[r].child # "none"
    /\ st' = [st EXCEPT ![s] = [Fresh EXCEPT !.child = "session", !.alive = TRUE, !.active = TRUE]]
    /\ Open(c, id, Put(service.sessions, id, s), s)

\* CloseTerminal: the shell is killed.
handle_close(c, id) ==
    /\ conn[c] = "up" /\ Latest(c) /\ Registered /\ id \in DOMAIN service.sessions
    /\ service.sessions[id] \in opened
    /\ LET s == service.sessions[id] IN
       st' = [st EXCEPT ![s].alive = @ /\ st[s].child # "session", ![s].child = "reaper"]
    /\ service' = [service EXCEPT !.sessions = Drop(@, {id}), !.idle = 0]
    /\ raced' = (raced \/ Deciding)
    /\ UNCHANGED <<conn, loop, poll, instances, cleaner, peers, stolen, moved>>

\* TerminalData and ResizeTerminal only count as activity here.
update_activity(c) ==
    /\ conn[c] = "up" /\ Latest(c) /\ Registered /\ service.idle > 0
    /\ service' = [service EXCEPT !.idle = 0]
    /\ raced' = (raced \/ Deciding)
    /\ UNCHANGED <<conn, loop, poll, instances, st, cleaner, peers, stolen, moved>>
-----------------------------------------------------------------------------
(* The shells. *)

Output(s) ==
    /\ st[s].alive /\ st[s].sent < MaxOut /\ st[s].sent - st[s].taken < CHANNEL_BUFFER_SIZE
    /\ st' = [st EXCEPT ![s].sent = @ + 1]
    /\ UNCHANGED <<conn, loop, poll, service, instances, cleaner, peers, history>>

ShellExits(s) ==
    /\ st[s].alive /\ st' = [st EXCEPT ![s].alive = FALSE]
    /\ UNCHANGED <<conn, loop, poll, service, instances, cleaner, peers, history>>
-----------------------------------------------------------------------------
(* The run loop of a connection. *)

PollBegin(c) ==
    /\ loop[c] \in {"hibernate", "idle"} /\ conn[c] = "up"
    /\ loop' = [loop EXCEPT ![c] = "poll"]
    /\ poll' = [poll EXCEPT ![c] = [inst |-> service.inst, is_persistent |-> service.is_persistent, closed |-> {},
                                    todo |-> {<<id, service.sessions[id]>> : id \in DOMAIN service.sessions}]]
    /\ UNCHANGED <<conn, service, instances, st, cleaner, peers, history>>

\* What the peer has after it was sent the replay, if there is one, and the chunks from..to.
Shown(had, replay, from, to) ==
    LET v == IF replay > 0 THEN replay ELSE had IN IF v = from THEN to ELSE v

\* One session, under its lock: whether it has ended, its output, and what is to be sent.
PollSession(c, t) ==
    LET s == t[2] IN
    /\ loop[c] = "poll" /\ t \in poll[c].todo
    /\ poll' = [poll EXCEPT ![c].todo = @ \ {t}, ![c].closed = IF ~st[s].alive /\ ~st[s].told THEN @ \cup {t[1]} ELSE @]
    /\ st' = [st EXCEPT ![s].told = @ \/ ~st[s].alive, ![s].taken = st[s].sent,
                        ![s].pending = IF st[s].active THEN 0 ELSE @]
    /\ view' = [view EXCEPT ![s] = IF Latest(c) /\ st[s].active THEN Shown(@, st[s].pending, st[s].taken, st[s].sent) ELSE @]
    /\ stolen' = (stolen \/ (st[s].active /\ ~Latest(c)))
    /\ UNCHANGED <<conn, loop, service, instances, cleaner, known, opened, raced, moved>>

\* try_lock fails: another run loop or a handler has the session.
PollBusy(c, t) ==
    /\ loop[c] = "poll" /\ t \in poll[c].todo
    /\ \E d \in Conn \ {c} : loop[d] = "poll" \/ (Latest(d) /\ conn[d] = "up")
    /\ poll' = [poll EXCEPT ![c].todo = @ \ {t}]
    /\ UNCHANGED <<conn, loop, service, instances, st, cleaner, peers, history>>

\* Mutant: a persistent service keeps a session whose shell has exited.
Cleanup_keeps(c, id) ==
    /\ loop[c] = "poll" /\ poll[c].todo = {} /\ id \in poll[c].closed
    /\ poll' = [poll EXCEPT ![c].closed = @ \ {id}]
    /\ IF poll[c].inst = service.inst /\ id \in DOMAIN service.sessions
       THEN LET s == service.sessions[id] IN
            /\ st' = [st EXCEPT ![s].child = "reaper"]
            /\ service' = IF poll[c].is_persistent THEN service
                          ELSE [service EXCEPT !.sessions = Drop(@, {id})]
       ELSE UNCHANGED <<st, service>>
    /\ UNCHANGED <<conn, loop, instances, cleaner, peers, history>>

\* The cleanup of a closed terminal, found again by its id; its child goes to the reaper without kill.
Cleanup(c, id) ==
    /\ loop[c] = "poll" /\ poll[c].todo = {} /\ id \in poll[c].closed
    /\ poll' = [poll EXCEPT ![c].closed = @ \ {id}]
    /\ IF poll[c].inst = service.inst /\ id \in DOMAIN service.sessions
       THEN LET s == service.sessions[id] IN
            /\ st' = [st EXCEPT ![s].child = "reaper"]
            /\ service' = IF poll[c].is_persistent /\ ~st[s].told THEN service
                          ELSE [service EXCEPT !.sessions = Drop(@, {id})]
       ELSE UNCHANGED <<st, service>>
    /\ UNCHANGED <<conn, loop, instances, cleaner, peers, history>>

PollEnd(c) ==
    /\ loop[c] = "poll" /\ poll[c].todo = {} /\ poll[c].closed = {}
    /\ loop' = [loop EXCEPT ![c] = "idle"] /\ poll' = [poll EXCEPT ![c] = idlePoll]
    /\ UNCHANGED <<conn, service, instances, st, cleaner, peers, history>>

\* sp.ok() fails.  A loop that was never entered leaves nothing behind, and removes nothing.
RunExits(c) ==
    /\ conn[c] = "over" /\ loop[c] \in {"hibernate", "idle"}
    /\ loop' = [loop EXCEPT ![c] = IF loop[c] = "idle" /\ Registered /\ ~service.is_persistent THEN "remove" ELSE "gone"]
    /\ conn' = [conn EXCEPT ![c] = IF loop'[c] = "gone" THEN "gone" ELSE @]
    /\ UNCHANGED <<poll, service, instances, st, cleaner, peers, history>>

\* Mutant: the shells are not killed.
remove_service_spares ==
    /\ service' = NoService
    /\ st' = [s \in Session |-> IF s \in Sessions THEN [st[s] EXCEPT !.child = "reaper"] ELSE st[s]]

\* stop() of every session.
remove_service ==
    /\ service' = NoService
    /\ st' = [s \in Session |-> IF s \in Sessions /\ st[s].child = "session"
                                THEN [st[s] EXCEPT !.alive = FALSE, !.child = "reaper"] ELSE st[s]]

RunRemoves(c) ==
    /\ loop[c] = "remove" /\ loop' = [loop EXCEPT ![c] = "gone"] /\ conn' = [conn EXCEPT ![c] = "gone"]
    /\ remove_service
    /\ UNCHANGED <<poll, instances, cleaner, peers, history>>
-----------------------------------------------------------------------------
(* The cleanup task.  idle counts the idle timeouts that have passed. *)

Hour ==
    /\ Registered /\ service.idle < MaxIdle /\ service' = [service EXCEPT !.idle = @ + 1]
    /\ UNCHANGED <<conn, loop, poll, instances, st, cleaner, peers, history>>

\* Mutant: a persistent service is removed although it has terminals.
cleanup_inactive_services_full ==
    /\ Registered /\ ~cleaner
    /\ service.idle >= IF service.is_persistent THEN 2 ELSE 1
    /\ cleaner' = TRUE
    /\ UNCHANGED <<conn, loop, poll, service, instances, st, peers, history>>

\* Mutant: only persistent services are looked at.
cleanup_inactive_services_persistent ==
    /\ Registered /\ ~cleaner /\ service.is_persistent /\ service.idle = 2 /\ Sessions = {}
    /\ cleaner' = TRUE
    /\ UNCHANGED <<conn, loop, poll, service, instances, st, peers, history>>

cleanup_inactive_services ==
    /\ Registered /\ ~cleaner
    /\ IF service.is_persistent THEN service.idle = 2 /\ Sessions = {} ELSE service.idle >= 1
    /\ cleaner' = TRUE
    /\ UNCHANGED <<conn, loop, poll, service, instances, st, peers, history>>

CleanerRemoves ==
    /\ cleaner /\ cleaner' = FALSE
    /\ remove_service
    /\ UNCHANGED <<conn, loop, poll, instances, peers, history>>
-----------------------------------------------------------------------------
Peer(c) ==
    \/ \E p \in BOOLEAN : update_terminal_persistence(c, p)
    \/ \E id \in Ids : handle_open(c, id) \/ handle_close(c, id) \/ \E s \in Session : OpenNew(c, id, s)
    \/ update_activity(c)

PollStep(c) == (\E t \in poll[c].todo : PollSession(c, t)) \/ (\E id \in poll[c].closed : Cleanup(c, id)) \/ PollEnd(c)
Run(c) == PollBegin(c) \/ PollStep(c) \/ RunExits(c) \/ RunRemoves(c)
Cleaner == cleanup_inactive_services \/ CleanerRemoves

Next ==
    \/ \E c \in Conn : \/ Peer(c) \/ Run(c) \/ DropConnection(c)
                       \/ \E p \in BOOLEAN : init_terminal_service(c, p)
                       \/ \E t \in poll[c].todo : PollBusy(c, t)
    \/ \E s \in Session : Output(s) \/ ShellExits(s)
    \/ Hour \/ Cleaner

Spec == Init /\ [][Next]_vars

\* Run loops and the cleanup task run; a session is not busy for ever when it is polled.
Fairness ==
    /\ WF_vars(Cleaner) /\ WF_vars(Hour)
    /\ \A c \in Conn : /\ WF_vars(Run(c))
                       /\ \A t \in Ids \X Session : SF_vars(PollSession(c, t))
-----------------------------------------------------------------------------
\* Types; live data and replays only reach a peer that has opened the session.
TypeOK ==
    /\ conn \in [Conn -> {"new", "up", "over", "gone"}]
    /\ loop \in [Conn -> {"hibernate", "idle", "poll", "remove", "gone"}]
    /\ Registered => DOMAIN service.sessions \subseteq Ids /\ Sessions \subseteq Session
    /\ \A s \in Session : st[s].sent - st[s].taken \in 0..CHANNEL_BUFFER_SIZE /\ st[s].pending \in 0..st[s].taken
    /\ \A s \in Session : view[s] > 0 => s \in opened

\* What the peer of the connection in use has of a session it opened is all that was taken from the
\* session's channel, or will be with the replay: nothing is missing between history and live output.
SeesAll ==
    \A c \in Conn : Latest(c) /\ conn[c] = "up" => \A s \in opened \cap Sessions :
        IF st[s].pending > 0 THEN st[s].pending = st[s].taken ELSE view[s] = st[s].taken

\* SeesAll as long as no run loop of an earlier connection has polled a session that was opened again.
ViewerSeesAll == ~stolen => SeesAll

\* After its first OpenTerminal the peer of the connection in use knows of every session there is.
AllKnown ==
    \A c \in Conn : Latest(c) /\ conn[c] = "up" /\ Registered /\ ~service.needs_session_sync => Sessions \subseteq known

\* "A persistent service survives connection drops": it is only removed when it is empty.
PersistentKept == [][service.inst # 0 /\ service'.inst # service.inst /\ service.is_persistent => Sessions = {}]_vars

\* PersistentKept unless the service changed after the decision to remove it.
PersistentKeptUnraced ==
    [][service.inst # 0 /\ service'.inst # service.inst /\ service.is_persistent /\ ~raced => Sessions = {}]_vars

\* No shell is left running without a session: a child with the reaper, which only waits for it, has
\* exited or was killed.  A poll finds the session to clean up by its id; an id that changed hands in
\* between, which only a peer that uses an id again can bring about, is left out.
NoOrphan == ~moved => \A s \in Session : st[s].child = "reaper" => ~st[s].alive

\* A session whose shell has exited is removed while a connection stays, and its peer is told.
Ended(s) == s \in Sessions /\ ~st[s].alive /\ \E c \in Conn : Latest(c) /\ conn[c] = "up"
DeadGoes == \A s \in Session : Ended(s) ~> ~Ended(s)
DeadGoesUnmoved == \A s \in Session : []<>(~Ended(s) \/ moved)

\* A service that nobody uses is removed in the end, and its shells with it; a persistent one stays
\* while it has terminals.
Unused == Registered /\ (\A c \in Conn : conn[c] \in {"new", "gone"}) /\ (service.is_persistent => Sessions = {})
ServiceGoes == []<>~Unused
=============================================================================
