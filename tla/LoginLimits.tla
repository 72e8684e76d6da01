----------------------------- MODULE LoginLimits -----------------------------
(***************************************************************************)
(* Limits on wrong passwords: the failure counters per address and per     *)
(* IPv6 prefix, and the rotation of the temporary password.  Every         *)
(* connection is a task of its own; a lock is held for one step only, and  *)
(* between looking at the counters and counting a failure lies the         *)
(* comparison of the password.  Minutes are counted from 1, as the code    *)
(* takes minute 0 for "no entry".                                          *)
(***************************************************************************)
EXTENDS Naturals, Sequences, FiniteSets

CONSTANTS Conn,       \* connections
          Keys,       \* Keys[c]: its prefixes from long to short, then its address
          Limit,      \* Limit[k]: 60, 80, 100 for prefixes, 30 for an address
          MinuteMax,  \* 6
          MAX_CONSECUTIVE_FAILURES,
          MaxTime

Key == UNION {{Keys[c][i] : i \in DOMAIN Keys[c]} : c \in Conn}
NoEntry == [time |-> 0, minute |-> 0, total |-> 0]

VARIABLES now,            \* the minute
          LOGIN_FAILURES, \* [Key -> entry]
          pc, at, snap,   \* the attempt of each connection
          state,          \* TEMPORARY_PASSWORD_FAILURES; current: its password is the one in force
          wrong,          \* history: wrong passwords compared, per key since its removal,
          late,           \* a failure was counted for a minute that is over,
          row             \* wrong passwords compared with the temporary one in a row

counters == <<LOGIN_FAILURES, wrong, late>>
temporary == <<state, row>>
vars == <<now, counters, pc, at, snap, temporary>>

Own(c) == {Keys[c][i] : i \in DOMAIN Keys[c]}
Zero == [time |-> 0, minute |-> 0, total |-> 0]

Init ==
    /\ now = 1
    /\ LOGIN_FAILURES = [k \in Key |-> NoEntry]
    /\ pc = [c \in Conn |-> "idle"] /\ at = [c \in Conn |-> 1]
    /\ snap = [c \in Conn |-> [entry |-> NoEntry, time |-> 0]]
    /\ state = [current |-> FALSE, failures |-> 0]
    /\ wrong = [k \in Key |-> Zero] /\ late = FALSE /\ row = 0

Tick == now < MaxTime /\ now' = now + 1 /\ UNCHANGED <<counters, pc, at, snap, temporary>>

bump_failure_entry(cur, time) ==
    [time |-> time, minute |-> IF cur.time = time THEN cur.minute + 1 ELSE 1, total |-> cur.total + 1]

\* A login request with a password: the minute is read before any counter.
Attempt(c) ==
    /\ pc[c] = "idle"
    /\ pc' = [pc EXCEPT ![c] = "check"] /\ at' = [at EXCEPT ![c] = 1]
    /\ snap' = [snap EXCEPT ![c] = [entry |-> NoEntry, time |-> now]]
    /\ UNCHANGED <<now, counters, temporary>>

\* One look at one counter, under its own lock.
CheckPrefix(c) ==
    LET e == LOGIN_FAILURES[Keys[c][at[c]]] IN
    /\ pc[c] = "check" /\ at[c] < Len(Keys[c])
    /\ IF e.total > Limit[Keys[c][at[c]]] THEN pc' = [pc EXCEPT ![c] = "idle"] /\ UNCHANGED at
       ELSE at' = [at EXCEPT ![c] = @ + 1] /\ UNCHANGED pc
    /\ UNCHANGED <<now, counters, snap, temporary>>

check_failure(c) ==
    LET e == LOGIN_FAILURES[Keys[c][at[c]]] IN
    /\ pc[c] = "check" /\ at[c] = Len(Keys[c])
    /\ pc' = [pc EXCEPT ![c] = IF \/ e.total > Limit[Keys[c][at[c]]]
                                  \/ e.time = snap[c].time /\ e.minute > MinuteMax
                               THEN "idle" ELSE "validate"]
    /\ snap' = [snap EXCEPT ![c].entry = e]
    /\ UNCHANGED <<now, counters, at, temporary>>

\* validate_password finds the password wrong.
ValidateWrong(c) ==
    /\ pc[c] = "validate"
    /\ pc' = [pc EXCEPT ![c] = "update"]
    /\ wrong' = [k \in Key |-> IF k \in Own(c) THEN bump_failure_entry(wrong[k], snap[c].time) ELSE wrong[k]]
    /\ row' = row + 1
    /\ UNCHANGED <<now, LOGIN_FAILURES, late, at, snap, state>>

\* It finds it right: the temporary one, whose counter it resets, or the permanent one.
ValidateRight(c) ==
    /\ pc[c] = "validate"
    /\ pc' = [pc EXCEPT ![c] = "remove"]
    /\ \/ /\ state' = [current |-> TRUE, failures |-> 0] /\ row' = 0
       \/ UNCHANGED <<state, row>>
    /\ UNCHANGED <<now, counters, at, snap>>

\* Mutant: the failure is added to what the check has seen.
update_failure_stale(c) ==
    /\ pc[c] = "update"
    /\ LOGIN_FAILURES' = [k \in Key |-> IF k \in Own(c) THEN bump_failure_entry(snap[c].entry, snap[c].time)
                                        ELSE LOGIN_FAILURES[k]]
    /\ late' = (late \/ \E k \in Own(c) : LOGIN_FAILURES[k].time > snap[c].time)
    /\ pc' = [pc EXCEPT ![c] = "rotate"]
    /\ UNCHANGED <<now, wrong, at, snap, temporary>>

update_failure(c) ==
    /\ pc[c] = "update"
    /\ LOGIN_FAILURES' = [k \in Key |-> IF k \in Own(c) THEN bump_failure_entry(LOGIN_FAILURES[k], snap[c].time)
                                        ELSE LOGIN_FAILURES[k]]
    /\ late' = (late \/ \E k \in Own(c) : LOGIN_FAILURES[k].time > snap[c].time)
    /\ pc' = [pc EXCEPT ![c] = "rotate"]
    /\ UNCHANGED <<now, wrong, at, snap, temporary>>

\* A right password removes the counters if the check has seen a failure of the address.
remove_failure(c) ==
    /\ pc[c] = "remove"
    /\ pc' = [pc EXCEPT ![c] = "idle"]
    /\ IF snap[c].entry.time = 0 THEN UNCHANGED counters
       ELSE /\ LOGIN_FAILURES' = [k \in Key |-> IF k \in Own(c) THEN NoEntry ELSE LOGIN_FAILURES[k]]
            /\ wrong' = [k \in Key |-> IF k \in Own(c) THEN Zero ELSE wrong[k]]
            /\ UNCHANGED late
    /\ UNCHANGED <<now, at, snap, temporary>>

\* Mutant: the password is rotated one failure too late.
check_update_temporary_password_off(c) ==
    /\ pc[c] = "rotate"
    /\ pc' = [pc EXCEPT ![c] = "idle"]
    /\ LET n == IF state.current THEN state.failures + 1 ELSE 1 IN
       IF n <= MAX_CONSECUTIVE_FAILURES THEN state' = [current |-> TRUE, failures |-> n] /\ UNCHANGED row
       ELSE state' = [current |-> TRUE, failures |-> 0] /\ row' = 0
    /\ UNCHANGED <<now, counters, at, snap>>

\* check_update_temporary_password(false).
check_update_temporary_password(c) ==
    /\ pc[c] = "rotate"
    /\ pc' = [pc EXCEPT ![c] = "idle"]
    /\ LET n == IF state.current THEN state.failures + 1 ELSE 1 IN
       IF n < MAX_CONSECUTIVE_FAILURES THEN state' = [current |-> TRUE, failures |-> n] /\ UNCHANGED row
       ELSE state' = [current |-> TRUE, failures |-> 0] /\ row' = 0
    /\ UNCHANGED <<now, counters, at, snap>>

\* An authorised connection ends, or the user asks for a new password.
update_temporary_password ==
    /\ state' = [state EXCEPT !.current = FALSE] /\ row' = 0
    /\ UNCHANGED <<now, counters, pc, at, snap>>

Next ==
    \/ Tick \/ update_temporary_password
    \/ \E c \in Conn : \/ Attempt(c) \/ CheckPrefix(c) \/ check_failure(c) \/ ValidateWrong(c) \/ ValidateRight(c)
                       \/ update_failure(c) \/ remove_failure(c) \/ check_update_temporary_password(c)

Spec == Init /\ [][Next]_vars
-----------------------------------------------------------------------------
Sharing(k) == Cardinality({c \in Conn : k \in Own(c)})

\* Types; the counter of the temporary password stays below its limit.
TypeOK ==
    /\ now \in 1..MaxTime
    /\ \A k \in Key : LOGIN_FAILURES[k].time \in 0..now /\ LOGIN_FAILURES[k].minute <= LOGIN_FAILURES[k].total
    /\ pc \in [Conn -> {"idle", "check", "validate", "update", "remove", "rotate"}]
    /\ \A c \in Conn : at[c] \in DOMAIN Keys[c]
    /\ state.current \in BOOLEAN /\ state.failures \in 0..MAX_CONSECUTIVE_FAILURES - 1

\* However the attempts of the connections of an address or prefix overlap, the wrong passwords that
\* were compared are at most one per connection above the limit: failures are counted on what the map
\* holds then, not on what the check has seen.  Within a minute the same holds, unless an attempt of
\* the minute before was counted late, which starts the minute's count anew.
AttemptsBounded ==
    \A k \in Key :
        /\ wrong[k].total <= Limit[k] + Sharing(k)
        /\ (\E c \in Conn : k = Keys[c][Len(Keys[c])]) /\ ~late => wrong[k].minute <= MinuteMax + Sharing(k)

\* "Rotated after too many consecutive wrong attempts": one temporary password meets at most one wrong
\* attempt per connection more than the limit allows, although it may be rotated, and its counter
\* reset, between the comparison and the counting.
RotationBounded == row <= MAX_CONSECUTIVE_FAILURES - 1 + Cardinality(Conn)
=============================================================================
