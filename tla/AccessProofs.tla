---------------------------- MODULE AccessProofs ----------------------------
(***************************************************************************)
(* What a connection may do, and when it may try.  A back-off for          *)
(* operating system logins is never cut short, for any number of           *)
(* connections, with or without the gate, and for any lengths of time as   *)
(* long as the idle time is not shorter than the longest back-off.  The    *)
(* subscriptions of a connection follow its permissions and options, for   *)
(* any number of displays.  The two components share no variable.          *)
(***************************************************************************)
EXTENDS ConnPermissions, OsCredential, FiniteSetTheorems, TLAPS

-----------------------------------------------------------------------------
(* Operating system logins.                                                *)

State == [total_failures : Nat, backoff_until_ms : Nat, last_failure_ms : Nat]

\* A back-off was set by the last failure, for the time its count calls for; times that
\* connections have read lie in the past.
OsInv ==
    /\ now \in Nat \ {0} /\ state \in State
    /\ \A c \in Conn : seen[c] \in Nat /\ seen[c] <= now
    /\ seen \in [Conn -> Nat]
    /\ state.last_failure_ms <= now
    /\ state.backoff_until_ms # None =>
         /\ state.last_failure_ms # None
         /\ state.backoff_until_ms = state.last_failure_ms + os_credential_login_backoff_seconds(state.total_failures)
    /\ NonePassed

\* The back-off of a number of failures is a time of at most Cap (os_credential_login_backoff_seconds).
LEMMA BackoffRange ==
    ASSUME NEW n \in Nat
    PROVE  /\ os_credential_login_backoff_seconds(n) \in Nat
           /\ os_credential_login_backoff_seconds(n) <= Cap
<1>1. CASE n <= 2
  BY <1>1, OsAssumption DEF os_credential_login_backoff_seconds
<1>2. CASE n > 2
  <2> DEFINE e == Smaller(n - 3, 7) + 1
  <2>1. e \in 1..8
    BY <1>2 DEF Smaller
  <2>2. Shift[e] \in Nat
    BY <2>1 DEF Shift
  <2>3. Base * Shift[e] \in Nat
    BY <2>2, OsAssumption
  <2> QED
    BY <1>2, <2>3, OsAssumption DEF os_credential_login_backoff_seconds, Smaller
<1> QED
  BY <1>1, <1>2

\* Another failure never calls for a shorter back-off, and a third one for some.
LEMMA BackoffGrows ==
    ASSUME NEW n \in Nat
    PROVE  /\ os_credential_login_backoff_seconds(n) <= os_credential_login_backoff_seconds(n + 1)
           /\ n >= 2 => os_credential_login_backoff_seconds(n + 1) > 0
<1>1. CASE n < 2
  BY <1>1, OsAssumption DEF os_credential_login_backoff_seconds
<1>2. CASE n >= 2
  <2> DEFINE e == Smaller(n + 1 - 3, 7) + 1
             d == Smaller(n - 3, 7) + 1
  <2>1. e \in 1..8 /\ Shift[e] \in Nat \ {0}
    BY <1>2 DEF Smaller, Shift
  <2>2. Base * Shift[e] \in Nat \ {0}
    BY <2>1, OsAssumption
  <2>3. os_credential_login_backoff_seconds(n + 1) = Smaller(Base * Shift[e], Cap)
    BY <1>2 DEF os_credential_login_backoff_seconds
  <2>4. os_credential_login_backoff_seconds(n + 1) > 0
    BY <2>2, <2>3, OsAssumption DEF Smaller
  <2>5. CASE n = 2
    BY <2>4, <2>5, <2>2, <2>3, OsAssumption DEF os_credential_login_backoff_seconds, Smaller
  <2>6. CASE n > 2
    <3>1. d \in 1..8 /\ (e = d \/ e = d + 1) /\ e \in 1..8
      BY <2>6 DEF Smaller
    <3>2. Shift[d] \in Nat /\ Shift[e] \in Nat /\ Shift[d] <= Shift[e]
      BY <3>1 DEF Shift
    <3> HIDE DEF d, e
    <3>3. Base * Shift[d] \in Nat /\ Base * Shift[e] \in Nat /\ Base * Shift[d] <= Base * Shift[e]
      BY <3>2, OsAssumption
    <3>4. os_credential_login_backoff_seconds(n) = Smaller(Base * Shift[d], Cap)
      BY <2>6 DEF os_credential_login_backoff_seconds, d
    <3> QED
      BY <3>3, <3>4, <2>3, <2>4, OsAssumption DEF Smaller
  <2> QED
    BY <1>2, <2>5, <2>6
<1> QED
  BY <1>1, <1>2

\* Looking at the state leaves a back-off in force alone: the time read lies in the past, and the
\* idle time is over only after the longest back-off (reset_totals_on_idle, normalize_backoff).
LEMMA LookInForce ==
    ASSUME OsInv, InForce, NEW t \in Nat, t <= now
    PROVE  Current(state, t) = state
<1>1. state.backoff_until_ms <= state.last_failure_ms + Cap
  BY BackoffRange, OsAssumption DEF OsInv, InForce, State, None
<1>2. t < state.last_failure_ms + IdleReset
  BY <1>1, OsAssumption DEF OsInv, InForce, State
<1>3. reset_totals_on_idle(state, t) = state
  BY <1>2, OsAssumption DEF reset_totals_on_idle, OsInv, State
<1> QED
  BY <1>3, OsAssumption DEF Current, normalize_backoff, OsInv, InForce, State

\* Looking at the state never makes up a back-off, and keeps what OsInv says of the state.
LEMMA LookKeeps ==
    ASSUME OsInv, NEW t \in Nat, t <= now
    PROVE  LET s == Current(state, t) IN
           /\ s \in State /\ s.last_failure_ms <= now
           /\ s.backoff_until_ms = None \/ s = state
<1> DEFINE r == reset_totals_on_idle(state, t)
<1>1. r \in State /\ r.last_failure_ms <= now /\ (r.backoff_until_ms = None \/ r = state)
  BY OsAssumption DEF reset_totals_on_idle, OsInv, State, None
<1>2. [r EXCEPT !.backoff_until_ms = None] \in State
  BY <1>1 DEF State, None
<1>3. [r EXCEPT !.backoff_until_ms = None].backoff_until_ms = None
      /\ [r EXCEPT !.backoff_until_ms = None].last_failure_ms = r.last_failure_ms
  BY <1>1 DEF State, None
<1> QED
  BY <1>1, <1>2, <1>3 DEF Current, normalize_backoff

\* OsInv holds from the start and every step keeps it; no step cuts a back-off short.
LEMMA OsStep ==
    ASSUME OsInv, [Next]_vars
    PROVE  OsInv' /\ (InForce => state'.backoff_until_ms >= state.backoff_until_ms)
<1> USE OsAssumption
<1>1. CASE Tick
  BY <1>1 DEF Tick, OsInv, NonePassed, InForce, State, None
<1>2. ASSUME NEW c \in Conn, Ask(c) PROVE OsInv' /\ (InForce => state'.backoff_until_ms >= state.backoff_until_ms)
  BY <1>2 DEF Ask, OsInv, NonePassed, InForce, State, None
<1>3. ASSUME NEW c \in Conn, evaluate_os_credential_policy(c)
      PROVE  OsInv' /\ (InForce => state'.backoff_until_ms >= state.backoff_until_ms)
  <2>1. seen[c] \in Nat /\ seen[c] <= now /\ now' = now /\ state' = Current(state, seen[c])
    BY <1>3 DEF OsInv, evaluate_os_credential_policy
  <2>2. state' \in State /\ state'.last_failure_ms <= now /\ (state'.backoff_until_ms = None \/ state' = state)
    BY <2>1, LookKeeps
  <2>3. InForce => state' = state
    BY <2>1, LookInForce
  <2>4. seen' \in [Conn -> Nat] /\ \A d \in Conn : seen'[d] \in Nat /\ seen'[d] <= now
    BY <1>3, <2>1 DEF OsInv, evaluate_os_credential_policy, None
  <2>5. NonePassed'
    <3>1. CASE InForce
      BY <3>1, <1>3, <2>1, <2>3 DEF OsInv, NonePassed, InForce, evaluate_os_credential_policy, None
    <3>2. CASE ~InForce
      BY <3>2, <2>1, <2>2 DEF OsInv, NonePassed, InForce, None, State
    <3> QED
      BY <3>1, <3>2
  <2> QED
    BY <2>1, <2>2, <2>3, <2>4, <2>5 DEF OsInv, InForce, State
<1>4. ASSUME NEW c \in Conn, try_acquire_os_credential_login_gate(c) \/ Verify(c)
      PROVE  OsInv' /\ (InForce => state'.backoff_until_ms >= state.backoff_until_ms)
  BY <1>4 DEF try_acquire_os_credential_login_gate, Verify, OsInv, NonePassed, InForce, State, None
<1>5. ASSUME NEW c \in Conn, record_os_credential_failure(c)
      PROVE  OsInv' /\ (InForce => state'.backoff_until_ms >= state.backoff_until_ms)
  <2> DEFINE s == Current(state, now)
             n == s.total_failures + 1
             b == os_credential_login_backoff_seconds(n)
  <2>1. s \in State /\ (s.backoff_until_ms = None \/ s = state)
    BY LookKeeps DEF OsInv
  <2>2. n \in Nat /\ b \in Nat /\ os_credential_login_backoff_seconds(s.total_failures) \in Nat
        /\ os_credential_login_backoff_seconds(s.total_failures) <= b
    BY <2>1, BackoffRange, BackoffGrows DEF State
  <2>3. state' = [total_failures |-> n, last_failure_ms |-> now,
                  backoff_until_ms |-> IF b > 0 THEN now + b ELSE s.backoff_until_ms]
        /\ now' = now /\ seen' = seen /\ passed' = IF b > 0 THEN {} ELSE passed
    BY <1>5 DEF record_os_credential_failure
  <2>4. InForce => s = state
    BY LookInForce DEF OsInv
  <2>5. s.backoff_until_ms # None => b > 0 /\ s.backoff_until_ms <= now + b
    <3> SUFFICES ASSUME s.backoff_until_ms # None PROVE b > 0 /\ s.backoff_until_ms <= now + b
      OBVIOUS
    <3>1. s = state /\ s.backoff_until_ms > now
      <4>1. s = state
        BY <2>1
      <4>2. ~(s.backoff_until_ms <= now)
        <5> DEFINE r == reset_totals_on_idle(state, now)
        <5>1. s = normalize_backoff(r, now)
          BY DEF Current
        <5>2. r \in State
          BY DEF OsInv, State, reset_totals_on_idle, None
        <5>3. CASE r.backoff_until_ms <= now
          <6>1. s = [r EXCEPT !.backoff_until_ms = None]
            BY <5>1, <5>3 DEF normalize_backoff
          <6> QED
            BY <6>1, <5>2 DEF State, None
        <5>4. CASE ~(r.backoff_until_ms <= now)
          BY <5>1, <5>4 DEF normalize_backoff
        <5> QED
          BY <5>3, <5>4
      <4> QED
        BY <4>1, <4>2, <2>1 DEF OsInv, State
    <3>2. state.backoff_until_ms = state.last_failure_ms + os_credential_login_backoff_seconds(state.total_failures)
          /\ state.last_failure_ms <= now /\ state.last_failure_ms \in Nat /\ now \in Nat
      BY <3>1 DEF OsInv, State
    <3> HIDE DEF s, b
    <3> QED
      BY <3>1, <3>2, <2>2
  <2>6. state' \in State /\ state'.last_failure_ms = now
    BY <2>1, <2>2, <2>3 DEF State, OsInv
  <2>7. state'.backoff_until_ms # None => b > 0 /\ state'.backoff_until_ms = now + b
    BY <2>3, <2>5
  <2>8. NonePassed'
    BY <2>3, <2>7 DEF NonePassed, InForce, None, OsInv
  <2>9. InForce => state'.backoff_until_ms >= state.backoff_until_ms
    BY <2>3, <2>4, <2>5, <2>2, <2>6 DEF InForce, OsInv, State, None
  <2>10. state'.backoff_until_ms # None =>
           state'.backoff_until_ms = state'.last_failure_ms + os_credential_login_backoff_seconds(state'.total_failures)
    BY <2>3, <2>6, <2>7
  <2>11. now' \in Nat \ {0} /\ now' = now /\ seen' = seen
    BY <2>3 DEF OsInv
  <2> HIDE DEF s, n, b
  <2> QED
    BY <2>6, <2>8, <2>9, <2>10, <2>11 DEF OsInv, None
<1>6. CASE UNCHANGED vars
  BY <1>6 DEF vars, OsInv, NonePassed, InForce, State
<1> QED
  BY <1>1, <1>2, <1>3, <1>4, <1>5, <1>6 DEF Next

\* A back-off in force is never dropped or shortened by evaluate_os_credential_policy or
\* record_os_credential_failure, whatever the connections do.
THEOREM BackoffNeverCut == Spec => BackoffKept
<1>1. Init => OsInv
  BY OsAssumption DEF Init, OsInv, State, None, NonePassed, InForce
<1>2. OsInv /\ [Next]_vars => OsInv'
  BY OsStep
<1>3. OsInv /\ [Next]_vars => [InForce => state'.backoff_until_ms >= state.backoff_until_ms]_vars
  BY OsStep
<1> QED
  BY <1>1, <1>2, <1>3, PTL DEF Spec, BackoffKept

\* While a back-off is in force no connection is let through by evaluate_os_credential_policy.
THEOREM NoneLetThrough == Spec => []NonePassed
<1>1. Init => OsInv
  BY OsAssumption DEF Init, OsInv, State, None, NonePassed, InForce
<1>2. OsInv /\ [Next]_vars => OsInv'
  BY OsStep
<1>3. OsInv => NonePassed
  BY DEF OsInv
<1> QED
  BY <1>1, <1>2, <1>3, PTL DEF Spec

-----------------------------------------------------------------------------
(* Permissions and subscriptions.  The invariants are inductive together   *)
(* with the types of perm and opt.                                         *)

Types == perm \in SUBSET Permission /\ opt \in SUBSET Option /\ subed \in BOOLEAN

\* The inductive invariant.
IInv == Types /\ SubscribedAsPermitted /\ FilesAsPermitted /\ CursorFollows /\ FocusFollows

USE DEF When, subscribe, peer_keyboard_enabled, clipboard_enabled, can_sub_clipboard_service,
        audio_enabled, file_transfer_enabled, can_sub_file_clipboard_service, cursor_wanted,
        Permission, Option

\* The initial states satisfy the invariant.
LEMMA InitHolds == PermInit => IInv
  BY DEF PermInit, IInv, Types, SubscribedAsPermitted, FilesAsPermitted, CursorFollows, FocusFollows

\* Subscribing all services at once establishes it in full.
LEMMA TrySubHolds == IInv /\ try_sub_monitor_services => IInv'
  BY DEF IInv, Types, SubscribedAsPermitted, FilesAsPermitted, CursorFollows, FocusFollows,
         try_sub_monitor_services

\* A switch of the local user keeps it.
LEMMA SwitchHolds ==
  ASSUME NEW n \in Permission, NEW b \in BOOLEAN, IInv, SwitchPermission(n, b)
  PROVE  IInv'
  <1>1. CASE n = "keyboard"
    BY <1>1 DEF IInv, Types, SubscribedAsPermitted, FilesAsPermitted, CursorFollows, FocusFollows, SwitchPermission
  <1>2. CASE n = "clipboard"
    BY <1>2 DEF IInv, Types, SubscribedAsPermitted, FilesAsPermitted, CursorFollows, FocusFollows, SwitchPermission
  <1>3. CASE n = "audio"
    BY <1>3 DEF IInv, Types, SubscribedAsPermitted, FilesAsPermitted, CursorFollows, FocusFollows, SwitchPermission
  <1>4. CASE n = "file"
    BY <1>4 DEF IInv, Types, SubscribedAsPermitted, FilesAsPermitted, CursorFollows, FocusFollows, SwitchPermission
  <1> QED BY <1>1, <1>2, <1>3, <1>4

\* An option of the peer keeps it.
LEMMA OptionHolds ==
  ASSUME NEW n \in Option, NEW b \in BOOLEAN, IInv, update_options(n, b)
  PROVE  IInv'
  <1> DEFINE o == IF b THEN opt \cup {n} ELSE opt \ {n}
  <1>0. /\ opt' = o /\ subs' = (subs \ Affected(n)) \cup (Affected(n) \cap Wanted(o))
        /\ UNCHANGED <<perm, multi, subed>>
    BY DEF update_options
  <1>1. CASE n = "disable_audio"
    <2>1. Affected(n) = {"audio"} BY <1>1 DEF Affected
    <2> QED BY <1>0, <1>1, <2>1 DEF IInv, Types, SubscribedAsPermitted, FilesAsPermitted, CursorFollows, FocusFollows, Wanted
  <1>2. CASE n = "disable_clipboard"
    <2>1. Affected(n) = {"clipboard"} BY <1>2 DEF Affected
    <2> QED BY <1>0, <1>2, <2>1 DEF IInv, Types, SubscribedAsPermitted, FilesAsPermitted, CursorFollows, FocusFollows, Wanted
  <1>3. CASE n = "disable_keyboard"
    <2>1. Affected(n) = {"clipboard", "file_clipboard", "cursor"} BY <1>3 DEF Affected
    <2> QED BY <1>0, <1>3, <2>1 DEF IInv, Types, SubscribedAsPermitted, FilesAsPermitted, CursorFollows, FocusFollows, Wanted
  <1>4. CASE n = "enable_file_transfer"
    <2>1. Affected(n) = {"file_clipboard"} BY <1>4 DEF Affected
    <2> QED BY <1>0, <1>4, <2>1 DEF IInv, Types, SubscribedAsPermitted, FilesAsPermitted, CursorFollows, FocusFollows, Wanted
  <1>5. CASE n = "show_remote_cursor"
    <2>1. Affected(n) = {"cursor", "pos"} BY <1>5 DEF Affected
    <2> QED BY <1>0, <1>5, <2>1 DEF IInv, Types, SubscribedAsPermitted, FilesAsPermitted, CursorFollows, FocusFollows, Wanted
  <1>6. CASE n = "follow_remote_window"
    <2>1. Affected(n) = {"focus"} BY <1>6 DEF Affected
    <2> QED BY <1>0, <1>6, <2>1 DEF IInv, Types, SubscribedAsPermitted, FilesAsPermitted, CursorFollows, FocusFollows, Wanted
  <1> QED BY <1>1, <1>2, <1>3, <1>4, <1>5, <1>6

\* Setting the displays keeps it; their number is a natural number as Display is finite.
LEMMA CaptureHolds ==
  ASSUME NEW S \in SUBSET Display, IInv, capture_displays(S)
  PROVE  IInv'
  <1>1. Cardinality(S) \in Nat
    BY PermAssumption, FS_Subset, FS_CardinalityType
  <1>2. /\ UNCHANGED <<perm, opt, subed>> /\ subed
        /\ \A s : s # "focus" => (s \in subs' <=> s \in subs)
    BY DEF capture_displays
  <1>3. ~multi' => Cardinality(S) <= 1
    <2>1. multi' = (Cardinality(S) > 1) BY DEF capture_displays
    <2>2. ~multi' => ~(Cardinality(S) > 1) BY <2>1, Zenon
    <2> QED BY <1>1, <2>2
  <1>4. FocusFollows'
    BY <1>2, <1>3 DEF IInv, FocusFollows, capture_displays
  <1> QED
    BY <1>2, <1>3, <1>4 DEF IInv, Types, SubscribedAsPermitted, FilesAsPermitted, CursorFollows

\* Every step keeps the invariant.
LEMMA StepHolds == IInv /\ [PermNext]_permVars => IInv'
  <1> SUFFICES ASSUME IInv, [PermNext]_permVars PROVE IInv' OBVIOUS
  <1>1. CASE try_sub_monitor_services BY <1>1, TrySubHolds
  <1>2. CASE \E n \in Permission, b \in BOOLEAN : SwitchPermission(n, b) BY <1>2, SwitchHolds
  <1>3. CASE \E n \in Option, b \in BOOLEAN : update_options(n, b) BY <1>3, OptionHolds
  <1>4. CASE \E S \in SUBSET Display : capture_displays(S) BY <1>4, CaptureHolds
  <1>5. CASE UNCHANGED permVars
    BY <1>5 DEF permVars, IInv, Types, SubscribedAsPermitted, FilesAsPermitted, CursorFollows, FocusFollows
  <1> QED BY <1>1, <1>2, <1>3, <1>4, <1>5 DEF PermNext

\* In every reachable state clipboard and sound are subscribed exactly as permitted (SwitchPermission
\* and update_options of Connection).
THEOREM PermissionsHold == PermSpec => []SubscribedAsPermitted
  <1>1. IInv => SubscribedAsPermitted BY DEF IInv
  <1> QED BY InitHolds, StepHolds, <1>1, PTL DEF PermSpec

\* In every reachable state files, cursor and focus are subscribed as the three invariants say.
THEOREM OthersHold == PermSpec => []OthersAsPermitted
  <1>1. IInv => OthersAsPermitted BY DEF IInv, OthersAsPermitted
  <1> QED BY InitHolds, StepHolds, <1>1, PTL DEF PermSpec
=============================================================================
