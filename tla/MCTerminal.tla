----------------------------- MODULE MCTerminal -----------------------------
(***************************************************************************)
(* The modules of the terminal for TLC.  They share no variable, so that   *)
(* nothing is lost when one of them moves and the others stay as they were *)
(* in the beginning: which says which instance it is.                      *)
(***************************************************************************)
EXTENDS Naturals, Sequences

VARIABLES which,
    pty, remainder, lines, total_size, last_line_incomplete, chunk, all,
    sender, input_tx, queue, writer, ttyIn, ttyOut, reader, shell, child, pair, exiting, stop, typed, printed,
    conn, loop, poll, service, instances, st, cleaner, known, opened, view, stolen, raced, moved,
    rows, ptyRows, active, phase, retries, fails, signals, cut, gaveUp

\* Whole characters of one to four bytes, and bytes that are no text.
Characters == {<<"a">>, <<"n">>, <<"l2", "c">>, <<"l3", "c", "c">>, <<"l4", "c", "c", "c">>}
Bytes == {<<"a">>, <<"n">>, <<"c">>, <<"l3">>, <<"x">>}

Text == INSTANCE TerminalOutput WITH Chars <- Characters, BufSize <- 3, MaxBytes <- 8,
    MAX_OUTPUT_BUFFER_SIZE <- 5, MAX_BUFFER_LINES <- 2, DEFAULT_RECONNECT_BUFFER_BYTES <- 4
Binary == INSTANCE TerminalOutput WITH Chars <- Bytes, BufSize <- 3, MaxBytes <- 5,
    MAX_OUTPUT_BUFFER_SIZE <- 5, MAX_BUFFER_LINES <- 2, DEFAULT_RECONNECT_BUFFER_BYTES <- 3
Stopping == INSTANCE TerminalSession WITH CHANNEL_BUFFER_SIZE <- 2, TtySize <- 2, MaxTyped <- 4, MaxPrinted <- 2
\* Two connections one after the other, two terminal ids; two shells, one that prints, one that idles.
Shells == INSTANCE TerminalService WITH Conn <- 1..2, Ids <- 1..2, Session <- 1..2, CHANNEL_BUFFER_SIZE <- 1,
    MaxOut <- 0, MaxIdle <- 0
View == INSTANCE TerminalService WITH Conn <- 1..2, Ids <- 1..2, Session <- {1}, CHANNEL_BUFFER_SIZE <- 1,
    MaxOut <- 3, MaxIdle <- 0
Idle == INSTANCE TerminalService WITH Conn <- 1..2, Ids <- {1}, Session <- {1}, CHANNEL_BUFFER_SIZE <- 1,
    MaxOut <- 0, MaxIdle <- 2
Resize == INSTANCE TerminalResize WITH Rows <- 0..4, MAX_SIGWINCH_PHASE_ATTEMPTS <- 3, MaxFails <- 7

output == <<pty, remainder, lines, total_size, last_line_incomplete, chunk, all>>
session == <<sender, input_tx, queue, writer, ttyIn, ttyOut, reader, shell, child, pair, exiting, stop, typed, printed>>
services == <<conn, loop, poll, service, instances, st, cleaner, known, opened, view, stolen, raced, moved>>
size == <<rows, ptyRows, active, phase, retries, fails, signals, cut, gaveUp>>
vars == <<which, output, session, services, size>>

MCInit ==
    /\ which \in {"text", "binary", "stopping", "shells", "view", "idle", "resize"}
    /\ Text!Init /\ Stopping!Init /\ Resize!Init /\ (which # "resize" => rows = 0)
    /\ IF which = "shells" THEN Shells!Init ELSE View!Init

MCNext ==
    /\ UNCHANGED which
    /\ \/ which = "text" /\ Text!Next /\ UNCHANGED <<session, services, size>>
       \/ which = "binary" /\ Binary!Next /\ UNCHANGED <<session, services, size>>
       \/ which = "stopping" /\ Stopping!Next /\ UNCHANGED <<output, services, size>>
       \/ which = "resize" /\ Resize!Next /\ UNCHANGED <<output, session, services>>
       \/ /\ \/ which = "shells" /\ Shells!Next
             \/ which = "view" /\ View!Next
             \/ which = "idle" /\ Idle!Next
          /\ UNCHANGED <<output, session, size>>

MCSpec == MCInit /\ [][MCNext]_vars
-----------------------------------------------------------------------------
\* OutputBuffer and Utf8ChunkAccumulator: the size kept is the size there is, and the limits hold
\* whenever the last line is complete; the buffer is the end of what was printed, without a gap; a
\* replay is the end of the buffer, within its limit; text is passed on and replayed in whole characters.
OutputKept ==
    /\ which = "text" =>
           Text!TypeOK /\ Text!LimitsKept /\ Text!NothingLost /\ Text!WholeCharacters /\ Text!ReplayRecent
    /\ which = "binary" => Binary!NothingLost /\ Binary!ReplayRecent

\* stop() kills the shell, or has seen it exit, before it gives it to the reaper; no shell is left
\* running without a session; after its first OpenTerminal the peer of the connection in use knows of
\* every session there is; the viewer of a session has all its output or is owed the replay.
SessionsKept ==
    /\ which = "stopping" => Stopping!TypeOK /\ Stopping!NoOrphan
    /\ which = "shells" => Shells!AllKnown /\ Shells!NoOrphan
    /\ which = "view" => View!TypeOK /\ View!ViewerSeesAll

\* A persistent service is only removed when it is empty, unless it changed after the decision.
PersistentKeptUnraced == Idle!PersistentKeptUnraced

\* After the two phases of a reconnection the terminal has the size of the session, and the program in
\* it has seen a change of size since.
ResizeKept == which = "resize" => Resize!TypeOK /\ Resize!SizeKept /\ Resize!RedrawnUncut
=============================================================================
