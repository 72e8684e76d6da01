----------------------------- MODULE PrivacyMode -----------------------------
(***************************************************************************)
(* Who owns the privacy mode, and what it leaves behind.  PRIVACY_MODE is  *)
(* one mutex around the implementation in use: "window" (topmost windows   *)
(* drawn by a broker process) or "idd" (a virtual display takes over and   *)
(* the physical ones are disabled; turning it on runs in a thread of its   *)
(* own and the connection waits at most 7.5 seconds for it).  Both block   *)
(* the local input with a hook thread that ends some time after it was     *)
(* told to.  pm is all that the mutex guards and what the machine shows.   *)
(***************************************************************************)
EXTENDS Naturals

CONSTANTS Conn,   \* ids of connections, none of them 0 (INVALID_PRIVACY_MODE_CONN_ID)
          Impl    \* the supported ones of "window", "idd"

VARIABLES pm,         \* impl, owner, hook, covered (windows shown), broker, displays, recovery
          lock,       \* the connection whose turn_on_privacy holds the mutex, or 0
          st,         \* each connection: its place
          job, timed, \* the turn_on_privacy under way for it, and whether its waiting may time out
          perm,       \* conn.privacy_mode
          postfail,   \* history: a message to the hook thread or the windows could not be posted
          late,       \* history: connections that gave up waiting for a turn_on_privacy
          torn,       \* history: the process died between disabling the displays and saving the recovery
          crashed     \* history

privacyVars == <<pm, lock, st, job, timed, perm, postfail, late, torn, crashed>>

None == "none"

PrivacyInit ==
    /\ pm \in {[impl |-> k, owner |-> 0, hook |-> None, covered |-> FALSE, broker |-> None,
                displays |-> "normal", recovery |-> FALSE] : k \in Impl}
    /\ lock = 0
    /\ st = [c \in Conn |-> "new"] /\ job = [c \in Conn |-> None] /\ timed = [c \in Conn |-> FALSE]
    /\ perm = [c \in Conn |-> TRUE]
    /\ postfail = FALSE /\ late = {} /\ torn = FALSE /\ crashed = FALSE
-----------------------------------------------------------------------------
(* The implementations.  post: a message to the hook thread is delivered;  *)
(* hide: so are the ones that hide the windows.                            *)

unhook_clears(p) == [p EXCEPT !.hook = None]
unhook(p, post) == IF p.hook # None /\ post THEN [p EXCEPT !.hook = "exiting"] ELSE p

\* WindowHandlers::reset: a broker started by another process is not ended.
stop(p) == IF p.broker = "ours" THEN [p EXCEPT !.broker = None, !.covered = FALSE] ELSE p

NotOwner(p, id) == p.owner # 0 /\ id # 0 /\ p.owner # id

Windows_off(p, hide) == IF hide \/ p.broker = None THEN [p EXCEPT !.covered = FALSE] ELSE stop(p)
Displays_on(p) == [p EXCEPT !.displays = "normal", !.recovery = FALSE]

\* turn_off_privacy of both implementations: nothing is done if the hook thread cannot be reached.
turn_off_privacy(p, id, post, hide) ==
    LET q == [unhook(p, post) EXCEPT !.owner = 0] IN
    IF NotOwner(p, id) \/ (p.hook # None /\ ~post) THEN p
    ELSE IF p.impl = "idd" THEN Displays_on(q) ELSE Windows_off(q, hide)

\* Whether turn_off_privacy returns Ok.
TurnedOff(p, id, post, hide) ==
    /\ ~NotOwner(p, id)
    /\ p.hook = None \/ post
    /\ p.impl = "idd" \/ hide \/ p.broker = None

\* The implementation in use is cleared or dropped, and another one is created.
Replace(p, k, post, hide) ==
    [stop(IF p.owner = 0 THEN p ELSE turn_off_privacy(p, p.owner, post, hide)) EXCEPT !.impl = k, !.owner = 0]

Failed(p, post, hide) == (p.hook # None /\ ~post) \/ (p.broker # None /\ ~hide)
-----------------------------------------------------------------------------
(* turn_on_privacy *)

\* Mutant: the mutex is not released.
Answer_locked(c, res) ==
    /\ st' = [st EXCEPT ![c] = IF @ = "await" THEN res ELSE @]
    /\ job' = [job EXCEPT ![c] = None]
    /\ UNCHANGED <<lock, late>>

\* Whoever asked, if it still waits, gets the answer; the mutex is free again.
Answer(c, res) ==
    /\ st' = [st EXCEPT ![c] = IF @ = "await" THEN res ELSE @]
    /\ job' = [job EXCEPT ![c] = None]
    /\ lock' = 0
    /\ UNCHANGED late

\* A toggle or option of the peer, with the permission.
RequestOn(c, k) ==
    /\ st[c] = "idle" /\ perm[c] /\ job[c] = None /\ lock = 0
    /\ st' = [st EXCEPT ![c] = "await"] /\ job' = [job EXCEPT ![c] = k]
    /\ timed' = [timed EXCEPT ![c] = pm.impl = "idd"]
    /\ UNCHANGED <<pm, lock, perm, postfail, late, torn, crashed>>

\* The head of turn_on_privacy_sync.
turn_on_privacy_sync(c, post, hide) ==
    /\ job[c] # None /\ lock = 0
    /\ \/ /\ pm.owner = c /\ pm.impl = job[c]
          /\ Answer(c, "ok") /\ UNCHANGED <<pm, postfail>>
       \/ /\ pm.owner \notin {0, c}
          /\ Answer(c, "err") /\ UNCHANGED <<pm, postfail>>
       \/ /\ pm.owner \in {0, c} /\ ~(pm.owner = c /\ pm.impl = job[c])
          /\ pm' = IF pm.impl = job[c] THEN pm ELSE Replace(pm, job[c], post, hide)
          /\ postfail' = (postfail \/ (pm.impl # job[c] /\ Failed(pm, post, hide)))
          /\ lock' = c /\ UNCHANGED <<st, job, late>>
    /\ UNCHANGED <<timed, perm, torn, crashed>>

\* win_topmost_window: no DLL; the broker does not start; its windows do not appear.
WindowUnavailable(c) ==
    /\ lock = c /\ pm.impl = "window"
    /\ \/ Answer(c, "false") /\ UNCHANGED pm
       \/ Answer(c, "err") /\ pm' = stop(pm)
    /\ UNCHANGED <<timed, perm, postfail, torn, crashed>>

started(p) == IF p.broker = None THEN [p EXCEPT !.broker = "ours"] ELSE p

hooked(p) == [p EXCEPT !.hook = "on"]

\* Mutant: the hook is not taken back when the windows do not show.
show_privacy_windows_hooked(c, post, hide) ==
    /\ lock = c /\ pm.impl = "window"
    /\ LET p == started(pm) IN
       \/ /\ p.hook = None
          /\ pm' = [hooked(p) EXCEPT !.owner = c, !.covered = TRUE]
          /\ Answer(c, "ok") /\ UNCHANGED postfail
       \/ /\ p.hook = None
          /\ pm' = stop([p EXCEPT !.hook = "on", !.covered = ~hide])
          /\ postfail' = (postfail \/ ~post \/ ~hide)
          /\ Answer(c, "err")
    /\ UNCHANGED <<timed, perm, torn, crashed>>

\* show_privacy_windows: hook, show, or take both back.
show_privacy_windows(c, post, hide) ==
    /\ lock = c /\ pm.impl = "window"
    /\ LET p == started(pm) IN
       \/ /\ p.hook = None
          /\ pm' = [hooked(p) EXCEPT !.owner = c, !.covered = TRUE]
          /\ Answer(c, "ok") /\ UNCHANGED postfail
       \/ /\ p.hook = None
          /\ pm' = stop(unhook([hooked(p) EXCEPT !.covered = ~hide], post))
          /\ postfail' = (postfail \/ ~post \/ ~hide)
          /\ Answer(c, "err")
       \/ /\ p.hook # None      \* "Already hooked"
          /\ pm' = stop(p)
          /\ Answer(c, "err") /\ UNCHANGED postfail
    /\ UNCHANGED <<timed, perm, torn, crashed>>

\* win_virtual_display: no physical display, or the guard undoes a failed preparation.
IddUnavailable(c, post) ==
    /\ lock = c /\ job[c] = "idd"
    /\ (pm' = pm) \/ (pm.displays = "normal" /\ pm' = turn_off_privacy(pm, 0, post, TRUE))
    /\ postfail' = (postfail \/ Failed(pm, post, TRUE))
    /\ Answer(c, "err")
    /\ UNCHANGED <<timed, perm, torn, crashed>>

\* set_primary_display, disable_physical_displays, commit_change_display.
IddChange(c) ==
    /\ lock = c /\ job[c] = "idd" /\ pm.displays = "normal"
    /\ pm' = [pm EXCEPT !.displays = "off"]
    /\ job' = [job EXCEPT ![c] = "disabled"]
    /\ UNCHANGED <<lock, st, timed, perm, postfail, late, torn, crashed>>

\* Mutant: the recovery is not saved.
IddSave_forgets(c, post) ==
    /\ lock = c /\ job[c] = "disabled"
    /\ pm' = [pm EXCEPT !.owner = c, !.hook = IF @ = None THEN "on" ELSE @]
    /\ Answer(c, "ok") /\ UNCHANGED <<timed, perm, postfail, torn, crashed>>

\* The recovery is saved and the mode is on, hooked if that works; or the guard undoes it.
IddSave(c, post) ==
    /\ lock = c /\ job[c] = "disabled"
    /\ \/ \E h \in {pm.hook} \cup (IF pm.hook = None THEN {"on"} ELSE {}) :
            /\ pm' = [pm EXCEPT !.owner = c, !.recovery = TRUE, !.hook = h]
            /\ Answer(c, "ok") /\ UNCHANGED postfail
       \/ /\ pm' = turn_off_privacy(pm, 0, post, TRUE)
          /\ postfail' = (postfail \/ Failed(pm, post, TRUE))
          /\ Answer(c, "err")
    /\ UNCHANGED <<timed, perm, torn, crashed>>

\* The connection stops waiting for the thread.
Timeout(c) ==
    /\ st[c] = "await" /\ timed[c]
    /\ st' = [st EXCEPT ![c] = "err"] /\ late' = late \cup {c}
    /\ UNCHANGED <<pm, lock, job, timed, perm, postfail, torn, crashed>>
-----------------------------------------------------------------------------
(* A connection's task.  The mutex is free whenever it is used. *)

Off(c, id, post, hide) ==
    /\ pm' = turn_off_privacy(pm, id, post, hide)
    /\ postfail' = (postfail \/ Failed(pm, post, hide))

Login(c) ==
    /\ st[c] = "new" /\ lock = 0
    /\ st' = [st EXCEPT ![c] = IF pm.owner = 0 THEN "idle" ELSE "closed"]
    /\ UNCHANGED <<pm, lock, job, timed, perm, postfail, late, torn, crashed>>

\* The magnifier's capturer may not work: the mode is turned off again.
Succeeded(c, post, hide) ==
    /\ st[c] = "ok" /\ lock = 0
    /\ st' = [st EXCEPT ![c] = "idle"]
    /\ \/ UNCHANGED <<pm, postfail>>
       \/ pm.impl = "window" /\ Off(c, c, post, hide)
    /\ UNCHANGED <<lock, job, timed, perm, late, torn, crashed>>

Unsucceeded(c) ==
    /\ st[c] \in {"err", "false"} /\ lock = 0
    /\ st' = [st EXCEPT ![c] = IF @ = "err" /\ pm.owner # 0 THEN "reset" ELSE "idle"]
    /\ UNCHANGED <<pm, lock, job, timed, perm, postfail, late, torn, crashed>>

\* A failure with the mode on: it is turned off, whosever it is.
ResetAfterError(c, post, hide) ==
    /\ st[c] = "reset" /\ lock = 0
    /\ st' = [st EXCEPT ![c] = "idle"]
    /\ Off(c, 0, post, hide)
    /\ UNCHANGED <<lock, job, timed, perm, late, torn, crashed>>

RequestOff(c, post, hide) ==
    /\ st[c] = "idle" /\ lock = 0
    /\ Off(c, c, post, hide)
    /\ UNCHANGED <<lock, st, job, timed, perm, late, torn, crashed>>

\* Mutant: the permission is taken away and the mode left on.
SwitchPermission_only(c, enabled, post, hide) ==
    /\ st[c] = "idle" /\ lock = 0 /\ enabled # perm[c]
    /\ perm' = [perm EXCEPT ![c] = enabled]
    /\ UNCHANGED <<pm, postfail, lock, st, job, timed, late, torn, crashed>>

\* The connection manager's switch; the permission stays if the mode cannot be turned off.
SwitchPermission(c, enabled, post, hide) ==
    /\ st[c] = "idle" /\ lock = 0 /\ enabled # perm[c]
    /\ IF ~enabled /\ pm.owner = c
       THEN /\ Off(c, c, post, hide)
            /\ perm' = [perm EXCEPT ![c] = ~TurnedOff(pm, c, post, hide)]
       ELSE perm' = [perm EXCEPT ![c] = enabled] /\ UNCHANGED <<pm, postfail>>
    /\ UNCHANGED <<lock, st, job, timed, late, torn, crashed>>

Close(c, post, hide) ==
    /\ st[c] = "idle" /\ lock = 0
    /\ st' = [st EXCEPT ![c] = "ending"]
    /\ IF pm.owner = c THEN Off(c, c, post, hide) ELSE UNCHANGED <<pm, postfail>>
    /\ UNCHANGED <<lock, job, timed, perm, late, torn, crashed>>

\* AuthedConnID::drop: the last remote connection resets what is left.
DropConn(c) ==
    /\ st[c] = "ending"
    /\ st' = [st EXCEPT ![c] = IF \A d \in Conn \ {c} : st[d] \in {"new", "resetting", "closed"}
                               THEN "resetting" ELSE "closed"]
    /\ UNCHANGED <<pm, lock, job, timed, perm, postfail, late, torn, crashed>>

reset_all(c, post, hide) ==
    /\ st[c] = "resetting" /\ lock = 0
    /\ st' = [st EXCEPT ![c] = "closed"]
    /\ Off(c, 0, post, hide)
    /\ UNCHANGED <<lock, job, timed, perm, late, torn, crashed>>
-----------------------------------------------------------------------------
(* The local side *)

\* Ctrl+P, seen by the hook.
HotKey(post, hide) ==
    /\ pm.hook # None /\ lock = 0
    /\ Off(0, 0, post, hide)
    /\ UNCHANGED <<lock, st, job, timed, perm, late, torn, crashed>>

HookExits ==
    /\ pm.hook = "exiting"
    /\ pm' = unhook_clears(pm)
    /\ UNCHANGED <<lock, st, job, timed, perm, postfail, late, torn, crashed>>

\* The user chooses another implementation.
switch(k, post, hide) ==
    /\ lock = 0 /\ pm.impl # k
    /\ pm' = Replace(pm, k, post, hide)
    /\ postfail' = (postfail \/ Failed(pm, post, hide))
    /\ UNCHANGED <<lock, st, job, timed, perm, late, torn, crashed>>

\* The process dies: hooks go with it, the windows, the displays and the options stay.
Crash ==
    /\ ~crashed
    /\ crashed' = TRUE
    /\ torn' = (pm.displays = "off" /\ ~pm.recovery)
    /\ pm' = [pm EXCEPT !.owner = 0, !.hook = None, !.broker = IF @ = "ours" THEN "foreign" ELSE @]
    /\ st' = [c \in Conn |-> "down"]
    /\ lock' = 0 /\ job' = [c \in Conn |-> None]
    /\ UNCHANGED <<timed, perm, postfail, late>>

\* The service starts again: the saved recovery is applied; the connections are new.
restore_reg_connectivity ==
    /\ \A c \in Conn : st[c] = "down"
    /\ pm' = IF pm.recovery THEN [pm EXCEPT !.displays = "normal", !.recovery = FALSE] ELSE pm
    /\ st' = [c \in Conn |-> "new"]
    /\ perm' = [c \in Conn |-> TRUE] /\ timed' = [c \in Conn |-> FALSE] /\ late' = {}
    /\ UNCHANGED <<lock, job, postfail, torn, crashed>>

\* A message can fail to reach the hook thread, or the windows, only when there is one.
Posts == IF pm.hook = None THEN {TRUE} ELSE BOOLEAN
Hides == IF pm.broker = None THEN {TRUE} ELSE BOOLEAN

PrivacyNext ==
    \/ \E post \in Posts, hide \in Hides :
        \/ HotKey(post, hide) \/ \E k \in Impl : switch(k, post, hide)
        \/ \E c \in Conn :
            \/ turn_on_privacy_sync(c, post, hide)
            \/ Succeeded(c, post, hide) \/ ResetAfterError(c, post, hide) \/ RequestOff(c, post, hide)
            \/ \E e \in BOOLEAN : SwitchPermission(c, e, post, hide)
            \/ Close(c, post, hide) \/ reset_all(c, post, hide)
    \/ \E c \in Conn :
        \/ \E k \in Impl : RequestOn(c, k)
        \/ \E post, hide \in BOOLEAN : show_privacy_windows(c, post, hide)
        \/ WindowUnavailable(c) \/ IddChange(c) \/ Timeout(c) \/ Login(c) \/ Unsucceeded(c) \/ DropConn(c)
        \/ \E post \in Posts : IddUnavailable(c, post) \/ IddSave(c, post)
    \/ HookExits \/ Crash \/ restore_reg_connectivity

PrivacySpec == PrivacyInit /\ [][PrivacyNext]_privacyVars
-----------------------------------------------------------------------------
\* Types; a job that holds the mutex is under way.
PrivacyTypeOK ==
    /\ pm \in [impl : Impl, owner : Conn \cup {0}, hook : {None, "on", "exiting"}, covered : BOOLEAN,
               broker : {None, "ours", "foreign"}, displays : {"normal", "off"}, recovery : BOOLEAN]
    /\ lock \in Conn \cup {0} /\ (lock # 0 => job[lock] \in {pm.impl, "disabled"})
    /\ st \in [Conn -> {"new", "idle", "await", "ok", "err", "false", "reset", "ending", "resetting", "closed", "down"}]
    /\ job \in [Conn -> Impl \cup {None, "disabled"}] /\ perm \in [Conn -> BOOLEAN]

\* When no one has the privacy mode on, the local input is not blocked, the screens show what they
\* should and nothing is left to recover, whatever failed on the way, unless a message to the hook thread
\* or the windows could not be posted, or a crash came at a bad moment.
NothingLeft ==
    pm.owner = 0 /\ lock = 0 /\ ~postfail =>
        /\ pm.hook # "on"
        /\ ~crashed => ~pm.covered
        /\ ~torn /\ (\A c \in Conn : st[c] # "down") => pm.displays = "normal" /\ ~pm.recovery

\* "Keep permission state and runtime state consistent": a connection that ended, or whose permission was
\* taken away, does not own the privacy mode, unless it gave up waiting for a thread that then succeeded.
OwnerEntitled ==
    \A c \in Conn : pm.owner = c /\ ~postfail /\ c \notin late =>
        perm[c] /\ st[c] \notin {"ending", "resetting", "closed", "new"}

\* While the displays are disabled and the mutex is free, what is needed to enable them after a crash is
\* saved, and a restart has used it.
Recoverable == pm.displays = "off" /\ lock = 0 /\ ~postfail /\ ~torn => pm.recovery

\* "Already hooked" is "unreachable!".
NeverAlreadyHooked == lock # 0 /\ pm.impl = "window" => pm.hook = None

\* "Failed to turn off privacy mode that belongs to someone else": a connection's request never ends the
\* privacy mode of another one.
OthersLeftAlone ==
    [][\A c \in Conn : st[c] = "reset" /\ st'[c] = "idle" => pm.owner \in {0, c} \/ pm'.owner = pm.owner]_privacyVars
=============================================================================
