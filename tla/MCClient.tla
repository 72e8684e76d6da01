------------------------------ MODULE MCClient ------------------------------
(****************************************************************************)
(* The client for TLC: its windows, the pictures handed to them, its video  *)
(* threads, the bridge to the hardware decoder, recordings and file         *)
(* transfers. They share no variable, so nothing is lost when one of them   *)
(* moves and the others stay as they were in the beginning: which says      *)
(* which one it is.                                                         *)
(****************************************************************************)
EXTENDS GokeBridge

VARIABLES which, handlers, map, wchan, idx, subs, multi, raced, shows, shown, closing, wevents, decoding, valid, told,
          painted, rtorn, overlap, chan, vqueue, discard, pc, cur, handler, marks, ask, reports, io, stream,
          known, events, evicted, stale, broken, rchan, rpc, seen, rec, lc, last, rio, changes, torn, src,
          final, part, dig, rd, wr, strategy, asked, toW, toR, status, saved, bad, skipped, lost, edits, faults

Windows == INSTANCE UiWindows WITH Win <- {"w1", "w2"}, First <- "w1", Display <- {0, 1, 2}, TextureRender <- FALSE,
    MaxChan <- 3, chan <- wchan
Pictures == INSTANCE RgbaHandoff WITH Win <- {"w1", "w2"}, First <- "w1", Display <- {"d1", "d2"}, MaxEvents <- 1,
    events <- wevents, stream <- shown, torn <- rtorn

\* One display whose queue overflows, with resets and refreshes; two displays that give up two formats.
Queue == INSTANCE ClientVideo WITH Display <- {"d1"}, Codec <- {"VP9"}, VP9 <- "VP9", Decodable <- {"VP9"},
    QueueSize <- 2, MaxFail <- 2, Ids <- 4, ChanSize <- 2, MaxAsk <- 1, MaxEvents <- 2,
    queue <- vqueue, peer <- stream
Formats == INSTANCE ClientVideo WITH Display <- {"d1", "d2"}, Codec <- {"VP9", "H264", "H265"}, VP9 <- "VP9",
    Decodable <- {"VP9"}, QueueSize <- 1, MaxFail <- 1, Ids <- 1, ChanSize <- 1, MaxAsk <- 1, MaxEvents <- 0,
    queue <- vqueue, peer <- stream
Record == INSTANCE ClientRecord WITH Display <- {"d1", "d2"}, AutoRecord <- TRUE, MaxChanges <- 4,
    chan <- rchan, pc <- rpc, io <- rio

\* Files that end inside and outside the offset width; three files, one of them empty.
TwoFiles == (0 :> 3) @@ (1 :> 2)
ThreeFiles == (0 :> 1) @@ (1 :> 0) @@ (2 :> 1)
Download == INSTANCE FileTransfer WITH Upload <- FALSE, ViaCM <- FALSE, N <- 2, Size <- TwoFiles, Old <- {1},
    OffsetWidth <- 2, MaxLost <- 2, MaxEdits <- 1, MaxFaults <- 1
Uploads == INSTANCE FileTransfer WITH Upload <- TRUE, ViaCM <- FALSE, N <- 2, Size <- TwoFiles, Old <- {1},
    OffsetWidth <- 2, MaxLost <- 2, MaxEdits <- 1, MaxFaults <- 1
CmReads == INSTANCE FileTransfer WITH Upload <- FALSE, ViaCM <- TRUE, N <- 3, Size <- ThreeFiles, Old <- {1},
    OffsetWidth <- 2, MaxLost <- 1, MaxEdits <- 0, MaxFaults <- 1

\* States after a race of the windows are not followed further; for the question which formats are
\* given up, a key frame stands for any frame.
Followed ==
    /\ which = "windows" => ~raced
    /\ which = "formats" => \A d \in DOMAIN vqueue : vqueue[d] = <<>>

windows == <<handlers, map, wchan, idx, subs, multi, raced>>
pictures == <<shows, shown, closing, wevents, decoding, valid, told, painted, rtorn, overlap>>
video == <<chan, vqueue, discard, pc, cur, handler, marks, ask, reports, io, stream, known, events, evicted, stale, broken>>
record == <<rchan, rpc, seen, rec, lc, last, rio, changes, torn>>
files == <<src, final, part, dig, rd, wr, strategy, asked, toW, toR, status, saved, bad, skipped, lost, edits, faults>>
all == <<which, vars, windows, pictures, video, record, files>>

MCInit ==
    /\ which \in {"bridge", "windows", "pictures", "queue", "formats", "record", "download", "upload", "cm"}
    /\ Init /\ owner[1] = "t1" /\ Windows!Init /\ Record!Init
    /\ Pictures!Init /\ (which # "pictures" => shows["w1"] = {"d1"})
    /\ IF which = "formats" THEN Formats!Init ELSE Queue!Init
    /\ IF which = "cm" THEN CmReads!Init ELSE Download!Init

MCNext ==
    /\ UNCHANGED which
    /\ \/ which = "bridge" /\ Next /\ UNCHANGED <<windows, pictures, video, record, files>>
       \/ which = "windows" /\ Windows!Next /\ UNCHANGED <<vars, pictures, video, record, files>>
       \/ which = "pictures" /\ Pictures!Next /\ UNCHANGED <<vars, windows, video, record, files>>
       \/ /\ \/ which = "queue" /\ Queue!Next
             \/ which = "formats" /\ Formats!Next
          /\ UNCHANGED <<vars, windows, pictures, record, files>>
       \/ which = "record" /\ Record!Next /\ UNCHANGED <<vars, windows, pictures, video, files>>
       \/ /\ \/ which = "download" /\ Download!Next
             \/ which = "upload" /\ Uploads!Next
             \/ which = "cm" /\ CmReads!Next
          /\ UNCHANGED <<vars, windows, pictures, video, record>>

MCSpec == MCInit /\ [][MCNext]_all
-----------------------------------------------------------------------------
\* check_remove_unused_displays: a display that a window shows is captured once all requests are
\* handled, if the renderers knew the displays of their windows.  capture_displays: the connection
\* knows whether it has several displays.
WindowsShown == which = "windows" => Windows!TypeOK /\ Windows!ShownCaptured /\ Windows!MultiCurrent

\* on_rgba_soft_render: a picture that blocks its display has a window left that will ask for the
\* next one.
NoStarvation == which = "pictures" => Pictures!TypeOK /\ Pictures!NoStarvation

\* Every queued frame has a channel message that will pop it, through overflows, resets and refreshes;
\* as long as the queue never overflowed, no frame is decoded whose predecessor was dropped; and when
\* no video thread is about to report, the last report names all formats that any thread has given up.
QueueKept ==
    /\ which = "queue" => Queue!TypeOK /\ Queue!TokensMatchQueue /\ Queue!DecodedInOrder
    /\ which = "formats" => Formats!ReportsComplete

\* update_record_state: a video thread that has read its messages records exactly when the session
\* says it does, and never without the permission of the peer.
RecordKept == which = "record" => Record!RecordSettled /\ Record!RecordPermitted

\* File jobs, downloads and uploads.  A partial file is a beginning of the version its digest names;
\* every block is written at the place it was read from, resumed or not; a job shown as done has
\* brought every file that was not skipped, whole and of one version; a confirmation that reaches the
\* connection manager applies to the file its job is at only when a transfer is resumed; a job of the
\* connection manager whose error was reported is over.
FilesWhole ==
    /\ which = "download" =>
           Download!TypeOK /\ Download!PartIsPrefix /\ Download!BlockLands /\ Download!DoneMeansWhole
    /\ which = "upload" => Uploads!PartIsPrefix /\ Uploads!DoneMeansWhole /\ Uploads!ConfirmOnlyResumes
    /\ which = "cm" => CmReads!DoneMeansWhole /\ CmReads!ErrorEndsJob
=============================================================================
