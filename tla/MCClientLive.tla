---------------------------- MODULE MCClientLive ----------------------------
(***************************************************************************)
(* Liveness of the client for TLC: a video thread, and the pictures handed *)
(* to the windows.  which says which of the two moves; the other one stays *)
(* as it was in the beginning, and its fairness asks nothing.  The fair    *)
(* actions are those of the modules' own fairness conditions.              *)
(***************************************************************************)
EXTENDS Naturals, Sequences

VARIABLES which, chan, queue, discard, pc, cur, handler, marks, ask, reports, io, peer, known, events, evicted, stale,
          broken, shows, shown, closing, wevents, decoding, valid, told, painted, torn, overlap

\* A peer that may send a format the client cannot decode; a queue of one frame.
Video == INSTANCE ClientVideo WITH Display <- {"d1"}, Codec <- {"VP9", "H265"}, VP9 <- "VP9", Decodable <- {"VP9"},
    QueueSize <- 1, MaxFail <- 2, Ids <- 1, ChanSize <- 1, MaxAsk <- 1, MaxEvents <- 1
Win == {"w1", "w2"}
Display == {"d1", "d2"}
Pictures == INSTANCE RgbaHandoff WITH First <- "w1", MaxEvents <- 1, events <- wevents, stream <- shown

video == <<chan, queue, discard, pc, cur, handler, marks, ask, reports, io, peer, known, events, evicted, stale, broken>>
pictures == <<shows, shown, closing, wevents, decoding, valid, told, painted, torn, overlap>>
vars == <<which, video, pictures>>

MCInit ==
    /\ which \in {"video", "pictures"}
    /\ Video!Init /\ Pictures!Init /\ (which # "pictures" => shows["w1"] = {"d1"})

MCNext ==
    /\ UNCHANGED which
    /\ \/ which = "video" /\ Video!Next /\ UNCHANGED pictures
       \/ which = "pictures" /\ Pictures!Next /\ UNCHANGED video

MCSpec ==
    /\ MCInit /\ [][MCNext]_vars
    /\ WF_video(which = "video" /\ Video!Thread("d1")) /\ WF_video(which = "video" /\ Video!Refresh("d1"))
    /\ SF_video(which = "video" /\ Video!OwedKey("d1")) /\ WF_video(which = "video" /\ Video!Report)
    /\ \A d \in Display : /\ SF_pictures(which = "pictures" /\ Pictures!StoreRgba(d))
                          /\ WF_pictures(which = "pictures" /\ Pictures!NotifyWindows(d))
    /\ \A w \in Win : /\ WF_pictures(which = "pictures" /\ Pictures!OnRgbaEvent(w))
                      /\ WF_pictures(which = "pictures" /\ Pictures!Repainted(w))
                      /\ WF_pictures(which = "pictures" /\ Pictures!session_start(w))
                      /\ WF_pictures(which = "pictures" /\ Pictures!session_close(w))
                      /\ \A d \in Display : WF_pictures(which = "pictures" /\ Pictures!onRgba(w, d))
-----------------------------------------------------------------------------
\* A display that lost a frame to an overflow decodes a key frame sent after the loss, or the session
\* ends: the refresh is not lost.  A stream in a format the client cannot decode is replaced by one it
\* can.  After the session's end the video thread drains its channel and exits.
VideoRecovers == Video!OverflowRecovers /\ Video!FallbackReached /\ Video!ThreadExits

\* Once the windows are left alone, a display that a window shows is painted again and again.
KeepsPainting == which = "pictures" => Pictures!KeepsPainting
=============================================================================
