---------------------------- MODULE TerminalSession ----------------------------
(***************************************************************************)
(* The threads of one terminal session on Linux, and how stop() ends them. *)
(* The writer thread carries input from a bounded channel to the terminal, *)
(* which echoes it; the reader thread carries output to the service.  Both *)
(* hold descriptors of their own, and the session holds one of the shell's *)
(* end until it drops pty_pair, so neither thread learns by itself that    *)
(* the shell is gone.  stop() runs on the thread that drops the session    *)
(* and waits at three places: for room in the channel, for the reader and  *)
(* for the writer.                                                         *)
(***************************************************************************)
EXTENDS Naturals

CONSTANTS CHANNEL_BUFFER_SIZE, \* of the input channel
          TtySize,             \* input the terminal takes before a writer has to wait
          MaxTyped, MaxPrinted

VARIABLES sender,    \* the connection in handle_data: "idle" or "send", with a sender of its own
          input_tx,  \* the session's sender
          queue,     \* length of the input channel
          writer,    \* "recv", "write" or "gone"
          ttyIn, ttyOut, \* input waiting for the shell, output waiting for the reader
          reader,    \* "read" or "gone"
          shell,     \* "run" or "gone"
          child,     \* the session has it; "reaper" has it
          pair,      \* pty_pair is there
          exiting,
          stop,      \* where stop() is
          typed, printed

io == <<ttyIn, ttyOut>>
session == <<input_tx, pair, exiting, stop, child>>
vars == <<sender, queue, writer, io, reader, shell, session, typed, printed>>

Init ==
    /\ sender = "idle" /\ input_tx = TRUE /\ queue = 0 /\ writer = "recv"
    /\ ttyIn = 0 /\ ttyOut = 0 /\ reader = "read" /\ shell = "run" /\ child = "session"
    /\ pair = TRUE /\ exiting = FALSE /\ stop = "no" /\ typed = 0 /\ printed = 0

\* All descriptors of the shell's end are closed.
HungUp == shell = "gone" /\ ~pair
-----------------------------------------------------------------------------
(* The connection: handle_data takes a clone of the sender under the lock and sends without it. *)

handle_data ==
    /\ sender = "idle" /\ stop = "no" /\ typed < MaxTyped /\ typed' = typed + 1
    /\ sender' = "send"
    /\ UNCHANGED <<queue, writer, io, reader, shell, session, printed>>

DataSent ==
    /\ sender = "send" /\ sender' = "idle"
    /\ IF writer = "gone" THEN UNCHANGED queue ELSE queue < CHANNEL_BUFFER_SIZE /\ queue' = queue + 1
    /\ UNCHANGED <<writer, io, reader, shell, session, typed, printed>>
-----------------------------------------------------------------------------
(* The writer thread. *)

WriterRecv ==
    /\ writer = "recv"
    /\ \/ queue > 0 /\ queue' = queue - 1 /\ writer' = "write"
       \/ queue = 0 /\ ~input_tx /\ sender = "idle" /\ writer' = "gone" /\ UNCHANGED queue
    /\ UNCHANGED <<sender, io, reader, shell, session, typed, printed>>

WriterWrite ==
    /\ writer = "write"
    /\ \/ HungUp /\ writer' = "gone" /\ UNCHANGED io
       \/ /\ ~HungUp /\ ttyIn < TtySize
          /\ ttyIn' = ttyIn + 1 /\ ttyOut' = ttyOut + 1
          /\ writer' = "recv"
    /\ UNCHANGED <<sender, queue, reader, shell, session, typed, printed>>
-----------------------------------------------------------------------------
(* The reader thread: try_send never waits; exiting is looked at after a read. *)

ReaderRead ==
    /\ reader = "read"
    /\ \/ /\ ttyOut > 0 /\ ttyOut' = ttyOut - 1
          /\ reader' = IF exiting THEN "gone" ELSE "read"
       \/ ttyOut = 0 /\ HungUp /\ reader' = "gone" /\ UNCHANGED ttyOut
    /\ UNCHANGED <<sender, queue, writer, ttyIn, shell, session, typed, printed>>
-----------------------------------------------------------------------------
(* The shell and what it runs. *)

ShellReads ==
    /\ shell = "run" /\ ttyIn > 0 /\ ttyIn' = ttyIn - 1
    /\ UNCHANGED <<sender, queue, writer, ttyOut, reader, shell, session, typed, printed>>

ShellPrints ==
    /\ shell = "run" /\ printed < MaxPrinted /\ printed' = printed + 1 /\ ttyOut' = ttyOut + 1
    /\ UNCHANGED <<sender, queue, writer, ttyIn, reader, shell, session, typed>>

ShellExits ==
    /\ shell = "run" /\ shell' = "gone"
    /\ UNCHANGED <<sender, queue, writer, io, reader, session, typed, printed>>
-----------------------------------------------------------------------------
(* The end. *)

threads == <<sender, queue, writer, io, reader, typed, printed>>

\* The shell has exited: read_outputs gives the child to the reaper and drops the session.
read_outputs ==
    /\ stop = "no" /\ child = "session" /\ shell = "gone"
    /\ child' = "reaper" /\ exiting' = TRUE /\ stop' = "send"
    /\ UNCHANGED <<threads, shell, input_tx, pair>>

\* The client closes the terminal, on the task that also sends input: the shell is killed first.
handle_close ==
    /\ sender = "idle" /\ stop = "no" /\ child = "session"
    /\ child' = "reaper" /\ shell' = "gone" /\ exiting' = TRUE /\ stop' = "send"
    /\ UNCHANGED <<threads, input_tx, pair>>

\* The service is removed.
StopBegin ==
    /\ stop = "no" /\ exiting' = TRUE /\ stop' = "send"
    /\ UNCHANGED <<threads, shell, child, input_tx, pair>>

\* Mutant: the session's sender is kept.
StopSend_keeps ==
    /\ stop = "send"
    /\ IF writer = "gone" THEN UNCHANGED queue ELSE queue < CHANNEL_BUFFER_SIZE /\ queue' = queue + 1
    /\ stop' = "pair"
    /\ UNCHANGED <<sender, writer, io, reader, typed, printed, shell, child, input_tx, pair, exiting>>

StopSend ==
    /\ stop = "send"
    /\ IF writer = "gone" THEN UNCHANGED queue ELSE queue < CHANNEL_BUFFER_SIZE /\ queue' = queue + 1
    /\ input_tx' = FALSE /\ stop' = "pair"
    /\ UNCHANGED <<sender, writer, io, reader, typed, printed, shell, child, pair, exiting>>

StopPair ==
    /\ stop = "pair" /\ pair' = FALSE /\ stop' = "reader"
    /\ UNCHANGED <<threads, shell, child, input_tx, exiting>>

StopJoinReader ==
    /\ stop = "reader" /\ reader = "gone" /\ stop' = "writer"
    /\ UNCHANGED <<threads, shell, child, input_tx, pair, exiting>>

\* Mutant: the writer is not waited for.
StopJoinWriter_nowait ==
    /\ stop = "writer" /\ stop' = "kill"
    /\ UNCHANGED <<threads, shell, child, input_tx, pair, exiting>>

StopJoinWriter ==
    /\ stop = "writer" /\ writer = "gone" /\ stop' = "kill"
    /\ UNCHANGED <<threads, shell, child, input_tx, pair, exiting>>

\* Mutant: the shell is not killed.
StopKill_spares ==
    /\ stop = "kill" /\ stop' = "done" /\ child' = "reaper"
    /\ UNCHANGED <<threads, shell, input_tx, pair, exiting>>

StopKill ==
    /\ stop = "kill" /\ stop' = "done" /\ child' = "reaper"
    /\ shell' = IF child = "session" THEN "gone" ELSE shell
    /\ UNCHANGED <<threads, input_tx, pair, exiting>>

Threads == DataSent \/ WriterRecv \/ WriterWrite \/ ReaderRead
Stop == StopSend \/ StopPair \/ StopJoinReader \/ StopJoinWriter \/ StopKill

Next ==
    \/ Threads \/ Stop \/ handle_data
    \/ ShellReads \/ ShellPrints \/ ShellExits
    \/ read_outputs \/ handle_close \/ StopBegin

Spec == Init /\ [][Next]_vars

\* Threads run, and what runs in the terminal reads its input, as an interactive shell does.
Fairness ==
    /\ WF_vars(DataSent) /\ WF_vars(WriterRecv) /\ WF_vars(WriterWrite)
    /\ WF_vars(ReaderRead) /\ WF_vars(Stop) /\ WF_vars(ShellReads)
-----------------------------------------------------------------------------
\* Types; the reader and the writer end before the child is given up by stop().
TypeOK ==
    /\ sender \in {"idle", "send"} /\ writer \in {"recv", "write", "gone"} /\ reader \in {"read", "gone"}
    /\ stop \in {"no", "send", "pair", "reader", "writer", "kill", "done"}
    /\ queue \in 0..CHANNEL_BUFFER_SIZE /\ ttyIn \in 0..TtySize
    /\ stop = "done" => reader = "gone" /\ writer = "gone"

\* No shell is left running without a session: once the child is with the reaper, which only waits
\* for it, it has exited or was killed.
NoOrphan == child = "reaper" => shell = "gone"

\* stop() returns, although it waits for both threads while it may hold the locks of the service and
\* of all services: "Send a final newline to ensure the reader can read some data, and then exit".
StopEnds == []<>(stop \in {"no", "done"})
=============================================================================
