--------------------------- MODULE MCTerminalLive ---------------------------
(***************************************************************************)
(* Liveness of the terminal for TLC.  which says which of the instances    *)
(* moves; the others stay as they were in the beginning, and their         *)
(* fairness asks nothing.  The fair actions are those of the modules' own  *)
(* fairness conditions.                                                    *)
(***************************************************************************)
EXTENDS Naturals, Sequences

VARIABLES which,
    sender, input_tx, queue, writer, ttyIn, ttyOut, reader, shell, child, pair, exiting, stop, typed, printed,
    conn, loop, poll, service, instances, st, cleaner, known, opened, view, stolen, raced, moved

Stopping == INSTANCE TerminalSession WITH CHANNEL_BUFFER_SIZE <- 2, TtySize <- 2, MaxTyped <- 4, MaxPrinted <- 2
\* Two connections one after the other: a terminal that idles, and one that dies and changes its id.
Idle == INSTANCE TerminalService WITH Conn <- 1..2, Ids <- {1}, Session <- {1}, CHANNEL_BUFFER_SIZE <- 1,
    MaxOut <- 0, MaxIdle <- 2
Dead == INSTANCE TerminalService WITH Conn <- 1..2, Ids <- 1..2, Session <- {1}, CHANNEL_BUFFER_SIZE <- 1,
    MaxOut <- 0, MaxIdle <- 0

session == <<sender, input_tx, queue, writer, ttyIn, ttyOut, reader, shell, child, pair, exiting, stop, typed, printed>>
services == <<conn, loop, poll, service, instances, st, cleaner, known, opened, view, stolen, raced, moved>>
vars == <<which, session, services>>

\* Bound: a service that changes between the decision to remove it and its removal is not followed.
Unraced == which = "idle" => ~raced

MCInit ==
    /\ which \in {"stopping", "idle", "dead"}
    /\ Stopping!Init /\ Dead!Init

MCNext ==
    /\ UNCHANGED which
    /\ \/ which = "stopping" /\ Stopping!Next /\ UNCHANGED services
       \/ which = "idle" /\ Idle!Next /\ UNCHANGED session
       \/ which = "dead" /\ Dead!Next /\ UNCHANGED session

MCSpec ==
    /\ MCInit /\ [][MCNext]_vars
    /\ WF_session(which = "stopping" /\ Stopping!DataSent) /\ WF_session(which = "stopping" /\ Stopping!WriterRecv)
    /\ WF_session(which = "stopping" /\ Stopping!WriterWrite) /\ WF_session(which = "stopping" /\ Stopping!ReaderRead)
    /\ WF_session(which = "stopping" /\ Stopping!Stop) /\ WF_session(which = "stopping" /\ Stopping!ShellReads)
    /\ WF_services(which = "idle" /\ Idle!Cleaner) /\ WF_services(which = "idle" /\ Idle!Hour)
    /\ \A c \in 1..2 : /\ WF_services(which = "idle" /\ Idle!Run(c))
                       /\ SF_services(which = "idle" /\ Idle!PollSession(c, <<1, 1>>))
    /\ WF_services(which = "dead" /\ Dead!Cleaner) /\ WF_services(which = "dead" /\ Dead!Hour)
    /\ \A c \in 1..2 : /\ WF_services(which = "dead" /\ Dead!Run(c))
                       /\ \A i \in 1..2 : SF_services(which = "dead" /\ Dead!PollSession(c, <<i, 1>>))
-----------------------------------------------------------------------------
\* stop() returns if the shell reads its input; a service that nobody uses is removed in the end; and
\* so is a session whose shell has exited, unless its id changed hands after the exit was noticed.
TerminalEnds == Stopping!StopEnds /\ Dead!DeadGoesUnmoved /\ []<>(which = "idle" => ~Idle!Unused)
=============================================================================
