----------------------------- MODULE FileTransfer -----------------------------
(***************************************************************************)
(* One file transfer job.  The reader sends the digest of a file, waits    *)
(* until it is confirmed, and sends the file in blocks; the writer writes  *)
(* them to <file>.download beside <file>.digest and renames the former     *)
(* when the next file begins or the job is done.  In an upload the client  *)
(* reads and the connection manager of the peer writes; in a download the  *)
(* client writes, and the peer's connection reads, or on Windows its       *)
(* connection manager.  The connection may be lost at any step: what was   *)
(* on its way is gone, both jobs are dropped, the client keeps the number  *)
(* of the file its own job was at and may resume there.                    *)
(***************************************************************************)
EXTENDS Integers, Sequences, FiniteSets

CONSTANTS Upload, ViaCM,
          N, Size,       \* files 0..N-1 and their sizes in blocks
          Old,           \* files the destination already has
          OffsetWidth,   \* offset_blk is a u32: offsets are taken modulo this
          MaxLost, MaxEdits, MaxFaults

File == 0..N - 1
None == -1
Absent == <<<<0, 0>>>>  \* no file of that name

VARIABLES src,      \* version of each source file
          final, part, dig, \* <file>, <file>.download (sequences of blocks) and <file>.digest (a version)
          rd,       \* the reading job
          wr,       \* the writing job
          strategy, \* default_overwrite_strategy of the client's job
          asked,    \* files the user is asked about
          toW, toR, \* what is on its way to the writer and to the reader
          status,   \* the job as the client shows it
          saved,    \* file_num kept for resuming
          bad,      \* history: a write failed; an upload was lost with the writer behind the reader; a job
                    \* was started anew, instead of resumed, over what a lost one has left
          skipped,  \* history: files skipped
          lost, edits, faults

disk == <<final, part, dig>>
counts == <<lost, edits, faults>>
vars == <<src, disk, rd, wr, strategy, asked, toW, toR, status, saved, bad, skipped, counts>>

NoJob == [on |-> FALSE, num |-> 0, stream |-> None, conf |-> FALSE, wait |-> FALSE, skip |-> FALSE, resume |-> FALSE, digest |-> 0]
NewJob(num, resume) == [NoJob EXCEPT !.on = TRUE, !.num = num, !.resume = resume]
Whole(f, v) == [i \in 1..Size[f] |-> <<v, i>>]

Init ==
    /\ src = [f \in File |-> 1]
    /\ final = [f \in File |-> IF f \in Old THEN Whole(f, 0) ELSE Absent]
    /\ part = [f \in File |-> Absent] /\ dig = [f \in File |-> None]
    /\ rd = NoJob /\ wr = NoJob /\ strategy = "ask" /\ asked = {}
    /\ toW = <<>> /\ toR = <<>> /\ status = "idle" /\ saved = None
    /\ bad = {} /\ skipped = {} /\ lost = 0 /\ edits = 0 /\ faults = 0

Confirm(f, skip, off) == [type |-> "confirm", f |-> f, skip |-> skip, off |-> off]
-----------------------------------------------------------------------------
(* Starting, resuming, cancelling, losing the connection. *)

Begin(num, resume) ==
    /\ status' = "running" /\ strategy' = "ask" /\ asked' = {}
    /\ IF Upload THEN /\ rd' = NewJob(num, resume) /\ toW' = Append(toW, [type |-> "receive", f |-> num])
                      /\ UNCHANGED <<wr, toR>>
                 ELSE /\ wr' = NewJob(num, resume) /\ toR' = Append(toR, [type |-> "send", f |-> num])
                      /\ UNCHANGED <<rd, toW>>

SendFiles ==
    /\ status \in {"idle", "saved"} /\ Begin(0, FALSE)
    /\ saved' = None /\ skipped' = {}
    /\ bad' = IF \E f \in File : part[f] # Absent THEN bad \cup {"leftover"} ELSE bad
    /\ UNCHANGED <<src, disk, counts>>

ResumeJob ==
    /\ status = "saved" /\ Begin(saved, TRUE)
    /\ saved' = None
    /\ UNCHANGED <<src, disk, bad, skipped, counts>>

remove_download_file(j) ==
    IF j.num < N THEN /\ part' = [part EXCEPT ![j.num] = Absent] /\ dig' = [dig EXCEPT ![j.num] = None]
    ELSE UNCHANGED <<part, dig>>

cancel_transfer_job ==
    /\ status = "running" /\ status' = "cancelled" /\ asked' = {}
    /\ IF Upload THEN /\ toW' = Append(toW, [type |-> "cancel"]) /\ UNCHANGED <<wr, toR, part, dig>>
                      /\ rd' = NoJob
                 ELSE /\ toR' = Append(toR, [type |-> "cancel"]) /\ UNCHANGED <<rd, toW>>
                      /\ remove_download_file(wr) /\ wr' = NoJob
    /\ UNCHANGED <<src, final, strategy, saved, bad, skipped, counts>>

\* Mutant: resuming starts with the file after the one that was under way.
sync_jobs_status_next == IF Upload THEN (IF rd.on THEN rd.num ELSE None) ELSE IF wr.on THEN wr.num + 1 ELSE None

\* The file number kept of the client's job.
sync_jobs_status_to_local == IF Upload THEN (IF rd.on THEN rd.num ELSE None) ELSE IF wr.on THEN wr.num ELSE None

LoseConnection ==
    /\ status = "running" /\ lost < MaxLost /\ lost' = lost + 1
    /\ saved' = sync_jobs_status_to_local
    /\ status' = IF saved' = None THEN "gone" ELSE "saved"
    /\ bad' = IF Upload /\ rd.on /\ (~wr.on \/ rd.num # wr.num) THEN bad \cup {"behind"} ELSE bad
    /\ rd' = NoJob /\ wr' = NoJob /\ toW' = <<>> /\ toR' = <<>> /\ asked' = {} /\ strategy' = "ask"
    /\ UNCHANGED <<src, disk, skipped, edits, faults>>

\* The source changes while no job has it open.
EditSource(f) ==
    /\ status = "saved" /\ edits < MaxEdits /\ edits' = edits + 1
    /\ src' = [src EXCEPT ![f] = @ + 1]
    /\ UNCHANGED <<disk, rd, wr, strategy, asked, toW, toR, status, saved, bad, skipped, lost, faults>>
-----------------------------------------------------------------------------
(* The reader: one tick of handle_read_jobs or handle_read_jobs_tick. *)

readerOnly == <<src, disk, wr, strategy, asked, toR, status, saved, bad, skipped, lost, edits>>

OpenFile ==
    /\ rd.on /\ rd.num < N /\ rd.stream = None
    /\ rd' = [rd EXCEPT !.stream = 0, !.conf = FALSE, !.wait = TRUE]
    /\ toW' = Append(toW, [type |-> "digest", f |-> rd.num, v |-> src[rd.num], resume |-> rd.resume])
    /\ UNCHANGED <<readerOnly, faults>>

\* The connection's job then looks completed and is done in the same tick.
OpenFails ==
    /\ rd.on /\ rd.num < N /\ rd.stream = None /\ faults < MaxFaults /\ faults' = faults + 1
    /\ toW' = toW \o (IF ViaCM THEN <<[type |-> "error"]>> ELSE <<[type |-> "error"], [type |-> "done"]>>)
    /\ rd' = NoJob
    /\ UNCHANGED readerOnly

ReadBlock ==
    /\ rd.on /\ rd.num < N /\ rd.conf /\ rd.stream < Size[rd.num]
    /\ toW' = Append(toW, [type |-> "block", f |-> rd.num, data |-> <<<<src[rd.num], rd.stream + 1>>>>])
    /\ rd' = [rd EXCEPT !.stream = @ + 1]
    /\ UNCHANGED <<readerOnly, faults>>

\* The end of the file: an empty block, so that an empty file is written too.
ReadEnd ==
    /\ rd.on /\ rd.num < N /\ rd.conf /\ rd.stream >= Size[rd.num]
    /\ toW' = Append(toW, [type |-> "block", f |-> rd.num, data |-> <<>>])
    /\ rd' = [rd EXCEPT !.num = @ + 1, !.stream = None, !.conf = FALSE, !.wait = FALSE]
    /\ UNCHANGED <<readerOnly, faults>>

\* Mutant: the connection manager keeps the job, too.
ReadFails_keeps ==
    /\ rd.on /\ rd.num < N /\ rd.conf /\ faults < MaxFaults /\ faults' = faults + 1
    /\ toW' = Append(toW, [type |-> "error"])
    /\ rd' = [rd EXCEPT !.num = @ + 1, !.stream = None, !.conf = FALSE, !.wait = FALSE]
    /\ UNCHANGED readerOnly

\* Only the connection manager drops the job; elsewhere it goes on with the next file.
ReadFails ==
    /\ rd.on /\ rd.num < N /\ rd.conf /\ faults < MaxFaults /\ faults' = faults + 1
    /\ toW' = Append(toW, [type |-> "error"])
    /\ rd' = IF ViaCM THEN NoJob
             ELSE [rd EXCEPT !.num = @ + 1, !.stream = None, !.conf = FALSE, !.wait = FALSE]
    /\ UNCHANGED readerOnly

JobCompleted ==
    /\ rd.on /\ rd.num >= N
    /\ toW' = Append(toW, [type |-> IF rd.skip /\ N = 1 THEN "error" ELSE "done"])
    /\ rd' = NoJob
    /\ UNCHANGED <<readerOnly, faults>>
-----------------------------------------------------------------------------
(* Confirmation. *)

\* Mutant: the job stays at the file.
set_file_skipped_stays(j) == [j EXCEPT !.stream = None, !.conf = FALSE, !.wait = FALSE, !.skip = TRUE]

set_file_skipped(j) == [j EXCEPT !.stream = None, !.conf = FALSE, !.wait = FALSE, !.num = @ + 1, !.skip = TRUE]

\* TransferJob::confirm; what to seek in depends on the job: the reader's source, the writer's .download.
confirm(j, m) ==
    IF ~j.on \/ j.num # m.f THEN j
    ELSE IF m.skip THEN set_file_skipped(j)
    ELSE [j EXCEPT !.conf = TRUE, !.skip = FALSE, !.stream = IF m.off > 0 THEN m.off ELSE @]

\* Mutant: the reader starts over.
ReaderConfirm_no_seek(j, m) == confirm(j, [m EXCEPT !.off = 0])

\* The connection manager confirms whatever file its job is at.
ReaderConfirm(j, m) == confirm(j, IF ViaCM THEN [m EXCEPT !.f = j.num] ELSE m)

\* Mutant: the .digest file is not compared.
check_any(f, resume, v) ==
    IF resume /\ dig[f] # None /\ part[f] # Absent /\ part[f] # <<>>
    THEN [need |-> TRUE, off |-> Len(part[f])] ELSE [need |-> final[f] # Absent, off |-> 0]

\* is_write_need_confirmation: off > 0 says that a part of the same file is there.
is_write_need_confirmation(f, resume, v) ==
    IF resume /\ dig[f] = v /\ part[f] # Absent /\ part[f] # <<>>
    THEN [need |-> TRUE, off |-> Len(part[f])] ELSE [need |-> final[f] # Absent, off |-> 0]

\* What the client does with it: resume, apply the strategy, or ask.
Decision(off, resume) ==
    IF off > 0 /\ resume THEN "override" ELSE strategy

Mark(m, f) == skipped' = IF m.skip THEN skipped \cup {f} ELSE skipped

\* A digest reaches the writer in a download.
DigestToClient ==
    /\ ~Upload /\ toW # <<>> /\ Head(toW).type = "digest" /\ toW' = Tail(toW)
    /\ LET m == Head(toW)
           c == is_write_need_confirmation(m.f, wr.resume, m.v)
           off == c.off % OffsetWidth
           d == IF c.need THEN Decision(c.off, wr.resume) ELSE "override"
           answer == Confirm(m.f, d = "skip", off)
           w == [wr EXCEPT !.digest = m.v]
       IN IF ~wr.on THEN UNCHANGED <<wr, toR, asked, skipped>>
          ELSE IF d = "ask" THEN wr' = w /\ asked' = asked \cup {m.f} /\ UNCHANGED <<toR, skipped>>
          ELSE /\ wr' = confirm(w, answer) /\ toR' = Append(toR, answer)
               /\ Mark(answer, m.f) /\ UNCHANGED asked
    /\ UNCHANGED <<src, disk, rd, strategy, status, saved, bad, counts>>

\* CheckDigest: the connection manager asks the client unless there is no such file.
CheckDigest ==
    /\ Upload /\ toW # <<>> /\ Head(toW).type = "digest" /\ toW' = Tail(toW)
    /\ LET m == Head(toW)
           c == is_write_need_confirmation(m.f, m.resume, m.v)
       IN IF ~wr.on THEN UNCHANGED <<wr, toR>>
          ELSE /\ wr' = [wr EXCEPT !.digest = m.v]
               /\ toR' = Append(toR, IF c.need THEN [type |-> "need", f |-> m.f, off |-> c.off]
                                     ELSE Confirm(m.f, FALSE, 0))
    /\ UNCHANGED <<src, disk, rd, strategy, asked, status, saved, bad, skipped, counts>>

\* The client is asked about its upload.
NeedToClient ==
    /\ toR # <<>> /\ Head(toR).type = "need" /\ toR' = Tail(toR)
    /\ LET m == Head(toR)
           d == Decision(m.off, rd.resume)
           answer == Confirm(m.f, d = "skip", m.off % OffsetWidth)
       IN IF ~rd.on THEN UNCHANGED <<rd, toW, asked, skipped>>
          ELSE IF d = "ask" THEN asked' = asked \cup {m.f} /\ UNCHANGED <<rd, toW, skipped>>
          ELSE /\ rd' = confirm(rd, answer) /\ toW' = Append(toW, answer)
               /\ Mark(answer, m.f) /\ UNCHANGED asked
    /\ UNCHANGED <<src, disk, wr, strategy, status, saved, bad, counts>>

\* Mutant: in an upload the peer is told, too.
SetConfirmOverrideFile_told(f, override, remember) ==
    LET answer == Confirm(f, ~override, 0) IN
    /\ f \in asked /\ asked' = asked \ {f} /\ UNCHANGED strategy
    /\ Mark(answer, f)
    /\ rd' = confirm(rd, answer) /\ toW' = Append(toW, answer)
    /\ UNCHANGED <<src, disk, wr, toR, status, saved, bad, counts>>

\* The user decides; in an upload the peer is not told.
SetConfirmOverrideFile(f, override, remember) ==
    LET answer == Confirm(f, ~override, 0) IN
    /\ f \in asked /\ asked' = asked \ {f}
    /\ strategy' = IF remember THEN (IF override THEN "override" ELSE "skip") ELSE strategy
    /\ Mark(answer, f)
    /\ IF Upload THEN rd' = confirm(rd, answer) /\ UNCHANGED <<wr, toR>>
       ELSE wr' = confirm(wr, answer) /\ toR' = Append(toR, answer) /\ UNCHANGED rd
    /\ UNCHANGED <<src, disk, toW, status, saved, bad, counts>>

ConfirmToReader ==
    /\ toR # <<>> /\ Head(toR).type = "confirm" /\ toR' = Tail(toR)
    /\ rd' = ReaderConfirm(rd, Head(toR))
    /\ UNCHANGED <<src, disk, wr, strategy, asked, toW, status, saved, bad, skipped, counts>>

\* In an upload the connection manager sees the client's own decisions, for resuming.
ConfirmToWriter ==
    /\ toW # <<>> /\ Head(toW).type = "confirm" /\ toW' = Tail(toW)
    /\ wr' = confirm(wr, Head(toW))
    /\ UNCHANGED <<src, disk, rd, strategy, asked, toR, status, saved, bad, skipped, counts>>
-----------------------------------------------------------------------------
(* The writer. *)

\* modify_time renames the .download of the file the job is at.
modify_time(j) ==
    IF j.num < N /\ part[j.num] # Absent
    THEN [final |-> [final EXCEPT ![j.num] = part[j.num]], part |-> [part EXCEPT ![j.num] = Absent],
          dig |-> [dig EXCEPT ![j.num] = None]]
    ELSE [final |-> final, part |-> part, dig |-> IF j.num < N THEN [dig EXCEPT ![j.num] = None] ELSE dig]

WriteAt(s, pos, data) == IF data = <<>> THEN s ELSE SubSeq(s, 1, pos) \o data \o SubSeq(s, pos + 2, Len(s))

\* TransferJob::write: another file, or none open, starts a new .download.
WriteBlock ==
    /\ toW # <<>> /\ Head(toW).type = "block" /\ toW' = Tail(toW)
    /\ LET m == Head(toW)
           fresh == m.f # wr.num \/ wr.stream = None
           d == IF fresh THEN modify_time(wr) ELSE [final |-> final, part |-> part, dig |-> dig]
           p == IF fresh THEN 0 ELSE wr.stream
       IN IF ~wr.on THEN UNCHANGED <<disk, wr>>
          ELSE /\ final' = d.final
               /\ part' = [d.part EXCEPT ![m.f] = WriteAt(IF fresh THEN <<>> ELSE @, p, m.data)]
               /\ dig' = IF fresh THEN [d.dig EXCEPT ![m.f] = wr.digest] ELSE d.dig
               /\ wr' = [wr EXCEPT !.num = m.f, !.stream = p + Len(m.data)]
    /\ UNCHANGED <<src, rd, strategy, asked, toR, status, saved, bad, skipped, counts>>

\* The disk is full: an upload is told, a download goes on.
WriteFails ==
    /\ toW # <<>> /\ Head(toW).type = "block" /\ Head(toW).data # <<>> /\ toW' = Tail(toW)
    /\ wr.on /\ wr.num = Head(toW).f /\ wr.stream # None
    /\ faults < MaxFaults /\ faults' = faults + 1 /\ bad' = bad \cup {"failed"}
    /\ toR' = IF Upload THEN Append(toR, [type |-> "error"]) ELSE toR
    /\ UNCHANGED <<src, disk, rd, wr, strategy, asked, status, saved, skipped, lost, edits>>

\* Mutant: the last file is not renamed.
WriteDone_bare ==
    /\ toW # <<>> /\ Head(toW).type = "done" /\ toW' = Tail(toW)
    /\ wr' = NoJob /\ UNCHANGED disk
    /\ IF ~wr.on THEN UNCHANGED <<toR, status>>
       ELSE IF Upload THEN toR' = Append(toR, [type |-> "done"]) /\ UNCHANGED status
       ELSE status' = "done" /\ UNCHANGED toR
    /\ UNCHANGED <<src, rd, strategy, asked, saved, bad, skipped, counts>>

WriteDone ==
    /\ toW # <<>> /\ Head(toW).type = "done" /\ toW' = Tail(toW)
    /\ wr' = NoJob
    /\ IF ~wr.on THEN UNCHANGED <<disk, toR, status>>
       ELSE /\ final' = modify_time(wr).final /\ part' = modify_time(wr).part /\ dig' = modify_time(wr).dig
            /\ IF Upload THEN toR' = Append(toR, [type |-> "done"]) /\ UNCHANGED status
               ELSE status' = (IF wr.skip /\ N = 1 THEN "error" ELSE "done") /\ UNCHANGED toR
    /\ UNCHANGED <<src, rd, strategy, asked, saved, bad, skipped, counts>>

WriteError ==
    /\ toW # <<>> /\ Head(toW).type = "error" /\ toW' = Tail(toW)
    /\ wr' = NoJob
    /\ IF ~wr.on THEN UNCHANGED <<toR, status>>
       ELSE IF Upload THEN toR' = Append(toR, [type |-> "error"]) /\ UNCHANGED status
       ELSE status' = "error" /\ UNCHANGED toR
    /\ UNCHANGED <<src, disk, rd, strategy, asked, saved, bad, skipped, counts>>

NewWrite ==
    /\ toW # <<>> /\ Head(toW).type = "receive" /\ toW' = Tail(toW)
    /\ wr' = NewJob(Head(toW).f, FALSE)
    /\ UNCHANGED <<src, disk, rd, strategy, asked, toR, status, saved, bad, skipped, counts>>

CancelWrite ==
    /\ toW # <<>> /\ Head(toW).type = "cancel" /\ toW' = Tail(toW)
    /\ IF wr.on THEN remove_download_file(wr) ELSE UNCHANGED <<part, dig>>
    /\ wr' = NoJob
    /\ UNCHANGED <<src, final, rd, strategy, asked, toR, status, saved, bad, skipped, counts>>

\* The peer's side of a download starts and is cancelled.
NewRead ==
    /\ toR # <<>> /\ Head(toR).type \in {"send", "cancel"} /\ toR' = Tail(toR)
    /\ rd' = IF Head(toR).type = "send" THEN NewJob(Head(toR).f, FALSE) ELSE NoJob
    /\ UNCHANGED <<src, disk, wr, strategy, asked, toW, status, saved, bad, skipped, counts>>

\* The client learns how its upload ended; an error removes its job.
UploadEnds ==
    /\ toR # <<>> /\ Head(toR).type \in {"done", "error"} /\ toR' = Tail(toR)
    /\ status' = IF status = "running" THEN Head(toR).type ELSE status
    /\ rd' = IF Head(toR).type = "error" THEN NoJob ELSE rd
    /\ UNCHANGED <<src, disk, wr, strategy, asked, toW, saved, bad, skipped, counts>>

Step ==
    \/ OpenFile \/ ReadBlock \/ ReadEnd \/ JobCompleted
    \/ DigestToClient \/ CheckDigest \/ NeedToClient \/ ConfirmToReader \/ ConfirmToWriter
    \/ WriteBlock \/ WriteDone \/ WriteError \/ NewWrite \/ CancelWrite \/ NewRead \/ UploadEnds

Answer == \E f \in File, o, r \in BOOLEAN : SetConfirmOverrideFile(f, o, r)

Next ==
    \/ Step \/ Answer \/ SendFiles \/ ResumeJob \/ cancel_transfer_job \/ LoseConnection
    \/ \E f \in File : EditSource(f)
    \/ OpenFails \/ ReadFails \/ WriteFails

Spec == Init /\ [][Next]_vars
FairSpec == Spec /\ WF_vars(Step) /\ WF_vars(Answer)
-----------------------------------------------------------------------------
\* Types; with nothing under way the writer is not ahead of the reader.
TypeOK ==
    /\ rd.num \in 0..N /\ wr.num \in 0..N /\ asked \subseteq File
    /\ status \in {"idle", "running", "done", "error", "cancelled", "saved", "gone"} /\ saved \in 0..N \cup {None}
    /\ \A f \in File : final[f] = Absent \/ Len(final[f]) <= Size[f]
    /\ rd.on /\ wr.on /\ toW = <<>> /\ toR = <<>> => wr.num <= rd.num

\* What lies in <file>.download is a beginning of the version that <file>.digest names: the reason
\* why a transfer may be resumed at the length of the former.  It survives lost connections, changed
\* sources and offsets that do not fit 32 bits, as reader and writer go to the same place.
PartIsPrefix ==
    bad = {} => \A f \in File : part[f] # Absent /\ dig[f] # None =>
        \A i \in DOMAIN part[f] : part[f][i] = <<dig[f], i>>

\* A job shown as done has brought every file that was not skipped, whole and of one version, under
\* its own name, although a file is renamed only by the first block of a later one; and nothing of it
\* is left over.  Not if a write failed in a download; not if an upload was lost while the writer was
\* still at an earlier file than the reader, as it is resumed at the reader's; and not if a job was
\* started anew over what a lost one has left.
DoneMeansWhole ==
    status = "done" /\ bad = {} => \A f \in File \ skipped :
        /\ part[f] = Absent /\ final[f] # Absent /\ \E v \in 1..src[f] : final[f] = Whole(f, v)

Lands == toW # <<>> /\ Head(toW).type = "block" /\ Head(toW).data # <<>> /\ wr.on =>
    Head(toW).data[1][2] = 1 + IF Head(toW).f # wr.num \/ wr.stream = None THEN 0 ELSE wr.stream

\* Every block is written at the place it was read from, resumed or not.
BlockLands == bad = {} => Lands

\* "If offset is greater than 0, we need to seek to the offset": where a part of a file is there,
\* reader and writer both go on at its end.
SeeksTogether == "failed" \notin bad => Lands

\* A confirmation that reaches the connection manager applies to the file its job is at only when a
\* transfer is resumed.
ConfirmOnlyResumes ==
    toW # <<>> /\ Head(toW).type = "confirm" /\ wr.on /\ rd.on /\ ~rd.resume => Head(toW).f # wr.num

\* A job left alone comes to an end, whatever could not be read or written: reader and writer never
\* both wait for the other.
JobEnds == []<>(status # "running")

\* The connection manager's reading of files mirrors the connection's: a job whose error was reported
\* is over.
ErrorEndsJob == (\E i \in DOMAIN toW : toW[i].type = "error") => ~rd.on
=============================================================================
