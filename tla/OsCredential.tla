---------------------------- MODULE OsCredential ----------------------------
(***************************************************************************)
(* Back-off for logins to a terminal with operating system credentials:    *)
(* one state for all connections, behind one lock, and on Windows a gate   *)
(* that lets one login at a time be verified.  Time is in units of         *)
(* Base, the first back-off.                                               *)
(***************************************************************************)
EXTENDS Naturals, Sequences, FiniteSets

CONSTANTS Conn, Windows,  \* whether there is a gate
          Base, Cap,      \* OS_CREDENTIAL_LOGIN_BACKOFF_BASE_SECONDS, .._MAX_SECONDS
          IdleReset,      \* OS_CREDENTIAL_LOGIN_TOTAL_IDLE_RESET_MS
          MaxTime, MaxFailures

ASSUME OsAssumption == Base \in Nat \ {0} /\ Cap \in Nat /\ IdleReset \in Nat /\ Base <= Cap /\ Cap <= IdleReset

None == 0   \* no time: the clock starts at 1

VARIABLES now, state,     \* [total_failures, backoff_until_ms, last_failure_ms]
          pc, seen,       \* place of each connection; the time it read for the policy
          gate,           \* who holds OS_CREDENTIAL_LOGIN_MUTEX
          passed          \* history: connections allowed since the back-off in force began

vars == <<now, state, pc, seen, gate, passed>>

Init ==
    /\ now = 1 /\ state = [total_failures |-> 0, backoff_until_ms |-> None, last_failure_ms |-> None]
    /\ pc = [c \in Conn |-> "idle"] /\ seen = [c \in Conn |-> None] /\ gate = {} /\ passed = {}

Tick == now < MaxTime /\ now' = now + 1 /\ UNCHANGED <<state, pc, seen, gate, passed>>

Shift == <<1, 2, 4, 8, 16, 32, 64, 128>>   \* 1 << 0 to 1 << 7
Smaller(a, b) == IF a < b THEN a ELSE b

os_credential_login_backoff_seconds(total_failures) ==
    IF total_failures <= 2 THEN 0 ELSE Smaller(Base * Shift[Smaller(total_failures - 3, 7) + 1], Cap)

normalize_backoff(s, t) == IF s.backoff_until_ms <= t THEN [s EXCEPT !.backoff_until_ms = None] ELSE s

\* Mutant: the idle time is shorter than the longest back-off.
reset_totals_half_idle(s, t) ==
    IF s.last_failure_ms # None /\ t >= s.last_failure_ms + Cap \div 2
    THEN [total_failures |-> 0, backoff_until_ms |-> None, last_failure_ms |-> None] ELSE s

reset_totals_on_idle(s, t) ==
    IF s.last_failure_ms # None /\ t >= s.last_failure_ms + IdleReset
    THEN [total_failures |-> 0, backoff_until_ms |-> None, last_failure_ms |-> None] ELSE s

Current(s, t) == normalize_backoff(reset_totals_on_idle(s, t), t)

\* The time is read before the lock is taken.
Ask(c) ==
    /\ pc[c] = "idle" /\ pc' = [pc EXCEPT ![c] = "policy"] /\ seen' = [seen EXCEPT ![c] = now]
    /\ UNCHANGED <<now, state, gate, passed>>

\* Mutant: the back-off is not looked at.
evaluate_ignoring_backoff(c) ==
    /\ pc[c] = "policy"
    /\ state' = Current(state, seen[c])
    /\ pc' = [pc EXCEPT ![c] = "gate"] /\ passed' = passed \cup {c}
    /\ seen' = [seen EXCEPT ![c] = None]
    /\ UNCHANGED <<now, gate>>

\* A blocked connection is closed; the next one starts anew.
evaluate_os_credential_policy(c) ==
    /\ pc[c] = "policy"
    /\ state' = Current(state, seen[c])
    /\ IF state'.backoff_until_ms # None THEN pc' = [pc EXCEPT ![c] = "idle"] /\ UNCHANGED passed
       ELSE pc' = [pc EXCEPT ![c] = "gate"] /\ passed' = passed \cup {c}
    /\ seen' = [seen EXCEPT ![c] = None]
    /\ UNCHANGED <<now, gate>>

\* try_lock_owned: who does not get the gate is refused.
try_acquire_os_credential_login_gate(c) ==
    /\ pc[c] = "gate"
    /\ IF Windows /\ gate # {} THEN pc' = [pc EXCEPT ![c] = "idle"] /\ UNCHANGED gate
       ELSE pc' = [pc EXCEPT ![c] = "verify"] /\ gate' = IF Windows THEN {c} ELSE gate
    /\ UNCHANGED <<now, state, seen, passed>>

\* Mutant: the guard outlives the verification.
VerifyKeepsGate(c) ==
    /\ pc[c] = "verify"
    /\ \E answer \in {"idle", "record"} : pc' = [pc EXCEPT ![c] = answer]
    /\ UNCHANGED <<now, state, seen, gate, passed>>

\* fill_terminal_user_token answers and the gate is released.
Verify(c) ==
    /\ pc[c] = "verify"
    /\ \E answer \in {"idle", "record"} : pc' = [pc EXCEPT ![c] = answer]
    /\ gate' = gate \ {c}
    /\ UNCHANGED <<now, state, seen, passed>>

record_os_credential_failure(c) ==
    LET s == Current(state, now)
        n == s.total_failures + 1
        b == os_credential_login_backoff_seconds(n) IN
    /\ pc[c] = "record" /\ s.total_failures < MaxFailures
    /\ state' = [total_failures |-> n, last_failure_ms |-> now,
                 backoff_until_ms |-> IF b > 0 THEN now + b ELSE s.backoff_until_ms]
    /\ pc' = [pc EXCEPT ![c] = "idle"]
    /\ passed' = IF b > 0 THEN {} ELSE passed
    /\ UNCHANGED <<now, seen, gate>>

Next == Tick \/ \E c \in Conn : \/ Ask(c) \/ evaluate_os_credential_policy(c)
                                \/ try_acquire_os_credential_login_gate(c) \/ Verify(c)
                                \/ record_os_credential_failure(c)

Spec == Init /\ [][Next]_vars
-----------------------------------------------------------------------------
InForce == state.backoff_until_ms > now

\* Types, and the gate: whoever holds it is verifying.
TypeOK ==
    /\ now \in 1..MaxTime /\ state.total_failures \in 0..MaxFailures
    /\ state.backoff_until_ms # None => state.total_failures > 2
    /\ pc \in [Conn -> {"idle", "policy", "gate", "verify", "record"}] /\ seen \in [Conn -> 0..now]
    /\ gate \subseteq {c \in Conn : pc[c] = "verify"} /\ Cardinality(gate) <= 1

\* A back-off that is in force is never dropped or shortened, whoever looks at the state with however
\* old a time, and whoever records another failure meanwhile; the reset after an idle time can not
\* touch it, since no back-off is longer than that time.
BackoffKept ==
    [][InForce => state'.backoff_until_ms >= state.backoff_until_ms]_vars

\* While a back-off is in force no connection is let through: who is being verified was let through
\* before the last failure was recorded.
NonePassed == InForce => passed = {}
=============================================================================
