--------------------------- MODULE MCServicesLive ---------------------------
(***************************************************************************)
(* Liveness of the services that capture and of file transfers, for TLC.   *)
(* which says which of the instances moves; the others stay as they were   *)
(* in the beginning, and their fairness asks nothing.  The fair actions    *)
(* are those of the modules' own fairness conditions.                      *)
(***************************************************************************)
EXTENDS Naturals, Sequences, TLC

VARIABLES which, subscribes, new_subscribes, active, peers, call, wanted,
          pc, refresh, negotiated, cfg, codec_format, retried, bailing, send_conn_ids, fetched_conn_ids, notifier,
          display_conn_ids, tx_video, wire, closing, events, fresh, synced, requested, told, fetched_cur, lax, raced,
          cpc, may_reset, hcursor, cursor, shown,
          src, final, part, dig, rd, wr, strategy, asked, toW, toR, status, saved, bad, skipped, lost, edits, faults

Video == INSTANCE VideoService WITH Conn <- {"c1"}, need_snapshot <- TRUE, Codec <- {"VP9", "H265"}, VP9 <- "VP9",
    Hardware <- {"H265"}, WebConn <- {"c1"}, MaxQueue <- 1, MaxEvents <- 1
Pointer == INSTANCE CursorService WITH Conn <- {"c1"}, need_snapshot <- TRUE, Cursor <- {"arrow", "hand"},
    NoCursor <- "none", pc <- cpc

\* Files of which one exists; read by the connection itself, or by its manager with an empty file among them.
TwoFiles == (0 :> 3) @@ (1 :> 2)
ThreeFiles == (0 :> 1) @@ (1 :> 0) @@ (2 :> 1)
Download == INSTANCE FileTransfer WITH Upload <- FALSE, ViaCM <- FALSE, N <- 2, Size <- TwoFiles, Old <- {1},
    OffsetWidth <- 2, MaxLost <- 1, MaxEdits <- 0, MaxFaults <- 1
CmReads == INSTANCE FileTransfer WITH Upload <- FALSE, ViaCM <- TRUE, N <- 3, Size <- ThreeFiles, Old <- {1},
    OffsetWidth <- 2, MaxLost <- 1, MaxEdits <- 0, MaxFaults <- 1

tmpl == <<subscribes, new_subscribes, active, peers, call, wanted>>
video == <<pc, refresh, negotiated, cfg, codec_format, retried, bailing, send_conn_ids, fetched_conn_ids, notifier,
           display_conn_ids, tx_video, wire, closing, events, fresh, synced, requested, told, fetched_cur, lax, raced>>
pointer == <<cpc, may_reset, hcursor, cursor, shown>>
files == <<src, final, part, dig, rd, wr, strategy, asked, toW, toR, status, saved, bad, skipped, lost, edits, faults>>
v == <<tmpl, video>>
p == <<tmpl, pointer>>
vars == <<which, tmpl, video, pointer, files>>

MCInit ==
    /\ which \in {"video", "cursor", "download", "cm"}
    /\ Video!Init
    /\ Pointer!Init /\ (which # "cursor" => cursor = "arrow")
    /\ IF which = "cm" THEN CmReads!Init ELSE Download!Init

MCNext ==
    /\ UNCHANGED which
    /\ \/ which = "video" /\ Video!Next /\ UNCHANGED <<pointer, files>>
       \/ which = "cursor" /\ Pointer!Next /\ UNCHANGED <<video, files>>
       \/ which = "download" /\ Download!Next /\ UNCHANGED <<tmpl, video, pointer>>
       \/ which = "cm" /\ CmReads!Next /\ UNCHANGED <<tmpl, video, pointer>>

MCSpec ==
    /\ MCInit /\ [][MCNext]_vars
    /\ WF_v(which = "video" /\ Video!ThreadStep)
    /\ SF_v(which = "video" /\ Video!get_encoder_config) /\ SF_v(which = "video" /\ Video!EncoderNew)
    /\ SF_v(which = "video" /\ Video!ClearRefresh) /\ SF_v(which = "video" /\ Video!NothingChanged)
    /\ SF_v(which = "video" /\ Video!FrameReady) /\ SF_v(which = "video" /\ Video!EncodeSend)
    /\ WF_v(which = "video" /\ Video!FetchFrame("c1")) /\ WF_v(which = "video" /\ Video!VideoReceived("c1"))
    /\ WF_v(which = "video" /\ call # {} /\ Video!ServerStep)
    /\ WF_p(which = "cursor" /\ Pointer!Thread) /\ SF_p(which = "cursor" /\ Pointer!CallbackSend)
    /\ WF_files(which = "download" /\ Download!Step) /\ WF_files(which = "download" /\ Download!Answer)
    /\ WF_files(which = "cm" /\ CmReads!Step) /\ WF_files(which = "cm" /\ CmReads!Answer)
-----------------------------------------------------------------------------
\* A refresh leads to a new encoder's first frame for every connection that asked and is still
\* subscribed, however acknowledgements are lost; and join(), which clears active, ends the thread.
VideoServed == Video!RefreshServed /\ []<>(which = "video" /\ ~active => pc = "exit")

\* A waiting subscriber does not wait for ever while the service runs, and join() ends its thread.
NewSubscribersServed == Pointer!NewSubscribersServed /\ []<>(which = "cursor" /\ ~active => cpc = "exit")

\* A file transfer left alone comes to an end, whatever could not be read or written: reader and
\* writer never both wait for the other.
JobEnds == []<>(which \in {"download", "cm"} => status # "running")
=============================================================================
