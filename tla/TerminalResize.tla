---------------------------- MODULE TerminalResize ----------------------------
(***************************************************************************)
(* The size of a session's terminal and the two-phase SIGWINCH after a     *)
(* reconnection: two successive polls change the number of rows and change *)
(* it back, so that a full-screen program draws itself again.  The peer    *)
(* may resize, leave and come back in between, and a resize of the         *)
(* terminal may fail.                                                      *)
(***************************************************************************)
EXTENDS Naturals

CONSTANTS Rows,       \* numbers of rows the peer uses
          MAX_SIGWINCH_PHASE_ATTEMPTS,
          MaxFails

VARIABLES rows,       \* the session's
          ptyRows,        \* the terminal's
          active,     \* SessionState
          phase, retries, \* SigwinchPhase
          fails,      \* resizes that failed
          signals,    \* history: the program was signalled since the reconnection (0 or 1)
          cut,        \* history: the reconnection found the temporary size, or a resize of the peer failed,
          gaveUp      \* a resize failed that nothing is to make good

vars == <<rows, ptyRows, active, phase, retries, fails, signals, cut, gaveUp>>

\* The session was opened with its first size.
Init ==
    /\ rows \in Rows /\ ptyRows = rows /\ active = TRUE /\ phase = "Idle" /\ retries = 0
    /\ fails = 0 /\ signals = 1 /\ cut = FALSE /\ gaveUp = FALSE

\* resize of the terminal: the program is signalled if the size is another one.
Resize(r) == ptyRows' = r /\ signals' = IF r = ptyRows THEN signals ELSE 1
Fail == fails < MaxFails /\ fails' = fails + 1 /\ UNCHANGED <<ptyRows, signals>>

reset_status ==
    /\ active /\ active' = FALSE /\ phase' = "Idle" /\ retries' = 0
    /\ UNCHANGED <<rows, ptyRows, fails, signals, cut, gaveUp>>

\* A reconnection; the size in OpenTerminal is not looked at.
handle_open ==
    /\ active' = TRUE /\ phase' = "TempResize" /\ retries' = MAX_SIGWINCH_PHASE_ATTEMPTS
    /\ signals' = 0 /\ cut' = (ptyRows # rows) /\ gaveUp' = FALSE
    /\ UNCHANGED <<rows, ptyRows, fails>>

handle_resize(r) ==
    /\ active /\ r # rows /\ rows' = r
    /\ \/ Resize(r) /\ gaveUp' = FALSE /\ UNCHANGED <<cut, fails>>
       \/ Fail /\ gaveUp' = (gaveUp \/ phase = "Idle") /\ cut' = TRUE
    /\ UNCHANGED <<active, phase, retries>>

\* Mutant: always a row less.
target_rows_less(r) == r - 1

\* Mutant: a very small terminal keeps its size.
target_rows_kept(r) == IF r > 2 THEN r - 1 ELSE r

target_rows(r) == IF r > 2 THEN r - 1 ELSE r + 1

\* do_sigwinch_resize: TRUE if it succeeds.
do_sigwinch_resize(r, ok) ==
    \/ ok /\ rows > 0 /\ Resize(r) /\ UNCHANGED fails
    \/ ~ok /\ rows = 0 /\ UNCHANGED <<ptyRows, signals, fails>>
    \/ ~ok /\ rows > 0 /\ Fail

GiveUp ==
    /\ active /\ phase # "Idle" /\ retries = 0
    /\ phase' = "Idle" /\ gaveUp' = TRUE
    /\ UNCHANGED <<rows, ptyRows, active, retries, fails, signals, cut>>

TempResize ==
    /\ active /\ phase = "TempResize" /\ retries > 0
    /\ \/ /\ do_sigwinch_resize(target_rows(rows), TRUE)
          /\ phase' = "Restore" /\ retries' = MAX_SIGWINCH_PHASE_ATTEMPTS
       \/ /\ do_sigwinch_resize(target_rows(rows), FALSE)
          /\ retries' = retries - 1 /\ UNCHANGED phase
    /\ UNCHANGED <<rows, active, cut, gaveUp>>

\* Mutant: one attempt only.
Restore_once ==
    /\ active /\ phase = "Restore" /\ retries > 0
    /\ phase' = "Idle" /\ retries' = 0
    /\ do_sigwinch_resize(rows, TRUE) \/ do_sigwinch_resize(rows, FALSE)
    /\ UNCHANGED <<rows, active, cut, gaveUp>>

Restore ==
    /\ active /\ phase = "Restore" /\ retries > 0
    /\ \/ do_sigwinch_resize(rows, TRUE) /\ phase' = "Idle" /\ retries' = 0
       \/ do_sigwinch_resize(rows, FALSE) /\ retries' = retries - 1 /\ UNCHANGED phase
    /\ UNCHANGED <<rows, active, cut, gaveUp>>

Poll == GiveUp \/ TempResize \/ Restore
Next == reset_status \/ handle_open \/ (\E r \in Rows : handle_resize(r)) \/ Poll

Spec == Init /\ [][Next]_vars
-----------------------------------------------------------------------------
\* Types; a terminal with rows is never given none.
TypeOK ==
    /\ phase \in {"Idle", "TempResize", "Restore"} /\ retries \in 0..MAX_SIGWINCH_PHASE_ATTEMPTS
    /\ phase # "Idle" => active
    /\ rows > 0 /\ fails = 0 => ptyRows > 0

Settled == active /\ phase = "Idle" /\ ~gaveUp

\* When the sequence is over the terminal has the size of the session, whatever the peer did between
\* the phases and although attempts failed: only a phase that was given up leaves another size.
SizeKept == Settled => ptyRows = rows

\* "Always trigger two-phase SIGWINCH on reconnect to force TUI app redraw": the program has seen a
\* change of size since the reconnection.
Redrawn == Settled => signals = 1

\* Redrawn, if the connection before did not end between the two phases and no resize of
\* the peer failed since.
RedrawnUncut == ~cut => Redrawn
=============================================================================
