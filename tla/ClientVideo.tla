----------------------------- MODULE ClientVideo -----------------------------
(***************************************************************************)
(* The client's video path: Remote (io_loop.rs) puts the frames of every   *)
(* display into a bounded queue and a channel, and one video thread per    *)
(* display (start_video_thread, client.rs) decodes them, asks for a key    *)
(* frame, gives up a format and reports it to the peer.                    *)
(***************************************************************************)
EXTENDS Naturals, Sequences, FiniteSets

CONSTANTS
  Display,    \* the displays of the session
  Codec,      \* the formats a peer may send
  VP9,        \* the format the peer falls back to
  Decodable,  \* the formats this client can decode
  QueueSize,  \* VIDEO_QUEUE_SIZE
  MaxFail,    \* MAX_DECODE_FAIL_COUNTER
  Ids,        \* frames are numbered modulo Ids
  ChanSize,   \* bound: messages in a channel before the peer pauses
  MaxAsk,     \* bound: refresh requests waiting in the interface's channel
  MaxEvents   \* bound: resets, refreshes by the user, encoders started unasked

VARIABLES
  chan,       \* [Display -> Seq]: MediaData messages of the video thread
  queue,      \* [Display -> Seq(Frame)]: video_queue
  discard,    \* [Display -> BOOLEAN]: discard_queue
  pc,         \* [Display -> place of the video thread]
  cur,        \* [Display -> the frame the thread works on]
  handler,    \* [Display -> video_handler]
  marks,      \* lc.mark_unsupported
  ask,        \* [Display -> Nat]: refresh requests on the way to io_loop
  reports,    \* Seq(SUBSET Codec): reports on the way to io_loop
  io,         \* "idle" or "ended"
  peer,       \* [Display -> [fmt, id, asked]]: the peer's stream (external)
  known,      \* formats the peer knows to be unsupported (external)
  events,     \* number of events so far
  \* History.
  evicted,    \* displays whose queue once overflowed
  stale,      \* displays that lost a frame and got no newer key frame
  broken      \* displays that decoded a frame out of order

vars == <<chan, queue, discard, pc, cur, handler, marks, ask, reports,
          io, peer, known, events, evicted, stale, broken>>

\* The last frame a decoder was given, or why there is none.
AfterReset == Ids
AfterNew == Ids + 1
Absent == Ids + 2
Before(id) == (id + Ids - 1) % Ids

None == [fmt |-> VP9, valid |-> FALSE, fail |-> 0, first |-> TRUE,
         last |-> Absent]

Frame == [key : BOOLEAN, fmt : Codec, id : 0..Ids-1, post : BOOLEAN]
NoFrame == [key |-> TRUE, fmt |-> VP9, id |-> 0, post |-> FALSE]

\* MediaData; a key frame travels in the channel, other frames in the queue.
MKey(f) == [t |-> "frame", f |-> f]
MQueue == [t |-> "queue", f |-> NoFrame]
MReset == [t |-> "reset", f |-> NoFrame]

Present(h) == h.last # Absent

Init ==
  /\ chan = [d \in Display |-> <<>>]
  /\ queue = [d \in Display |-> <<>>]
  /\ discard = [d \in Display |-> FALSE]
  /\ pc = [d \in Display |-> "none"]
  /\ cur = [d \in Display |-> NoFrame]
  /\ handler = [d \in Display |-> None]
  /\ marks = {} /\ reports = <<>> /\ known = {}
  /\ ask = [d \in Display |-> 0]
  /\ io = "idle"
  /\ peer = [d \in Display |-> [fmt |-> VP9, id |-> 0, asked |-> FALSE, on |-> FALSE]]
  /\ events = 0
  /\ evicted = {} /\ stale = {} /\ broken = {}

-----------------------------------------------------------------------------
(* io_loop: messages from the peer.                                        *)

\* The frame the peer's stream goes on with: a new encoder starts with a key
\* frame, in a format the peer believes to be supported (external).
NextFrame(d, key, fmt) ==
  [key |-> key, fmt |-> fmt, id |-> (peer[d].id + 1) % Ids, post |-> d \in stale]

\* The peer has been asked for a key frame, sends the first one, or knows that
\* its format is not supported.
Owed(d) == peer[d].asked \/ ~peer[d].on \/ peer[d].fmt \in known

PeerSends(d, key, fmt) ==
  /\ io = "idle" /\ Len(chan[d]) < ChanSize
  /\ IF key THEN fmt \in (Codec \ known) \cup {VP9}
            ELSE peer[d].on /\ fmt = peer[d].fmt
  /\ IF key /\ ~Owed(d) THEN /\ events < MaxEvents
                             /\ events' = events + 1
                        ELSE UNCHANGED events
  /\ peer' = [peer EXCEPT ![d] = [fmt |-> fmt, id |-> (@.id + 1) % Ids,
                                  asked |-> @.asked /\ ~key, on |-> TRUE]]

refresh_video_lost(d) == UNCHANGED ask

\* refresh_video: a message to io_loop through the interface's channel.
refresh_video(d) == ask' = [ask EXCEPT ![d] = IF @ < MaxAsk THEN @ + 1 ELSE @]

handle_key_frame(d, f) ==
  /\ chan' = [chan EXCEPT ![d] = Append(@, MKey(f))]
  /\ UNCHANGED <<queue, ask, evicted, stale>>

handle_delta_token_always(d, f) ==
  IF Len(queue[d]) = QueueSize
  THEN /\ queue' = [queue EXCEPT ![d] = Append(Tail(@), f)]
       /\ refresh_video(d)
       /\ evicted' = evicted \cup {d}
       /\ stale' = stale \cup {d}
       /\ chan' = [chan EXCEPT ![d] = Append(@, MQueue)]
  ELSE /\ queue' = [queue EXCEPT ![d] = Append(@, f)]
       /\ chan' = [chan EXCEPT ![d] = Append(@, MQueue)]
       /\ UNCHANGED <<ask, evicted, stale>>

handle_delta_unbounded(d, f) ==
  /\ queue' = [queue EXCEPT ![d] = Append(@, f)]
  /\ chan' = [chan EXCEPT ![d] = Append(@, MQueue)]
  /\ UNCHANGED <<ask, evicted, stale>>

\* force_push evicts the oldest frame of a full queue; the refresh replaces the
\* token of the new frame.
handle_delta_frame(d, f) ==
  IF Len(queue[d]) = QueueSize
  THEN /\ queue' = [queue EXCEPT ![d] = Append(Tail(@), f)]
       /\ refresh_video(d)
       /\ evicted' = evicted \cup {d}
       /\ stale' = stale \cup {d}
       /\ UNCHANGED chan
  ELSE /\ queue' = [queue EXCEPT ![d] = Append(@, f)]
       /\ chan' = [chan EXCEPT ![d] = Append(@, MQueue)]
       /\ UNCHANGED <<ask, evicted, stale>>

VideoFrame(d, key, fmt) ==
  LET f == NextFrame(d, key, fmt) IN
  /\ pc[d] # "none"
  /\ PeerSends(d, key, fmt)
  /\ IF key THEN handle_key_frame(d, f) ELSE handle_delta_frame(d, f)
  /\ UNCHANGED <<discard, pc, cur, handler, marks, reports, io,
                 known, broken>>

\* The first frame of a display starts its thread.
new_video_thread(d, fmt) ==
  /\ pc[d] = "none"
  /\ PeerSends(d, TRUE, fmt)
  /\ pc' = [pc EXCEPT ![d] = "recv"]
  /\ chan' = [chan EXCEPT ![d] = <<MKey(NextFrame(d, TRUE, fmt))>>]
  /\ UNCHANGED <<queue, discard, cur, handler, marks, ask, reports, io, known, evicted,
                 stale, broken>>

\* SwitchDisplay from the peer, or ResetDecoder from the interface.
ResetDecoder(d) ==
  /\ io = "idle" /\ pc[d] # "none" /\ events < MaxEvents
  /\ events' = events + 1
  /\ chan' = [chan EXCEPT ![d] = Append(@, MReset)]
  /\ UNCHANGED <<queue, discard, pc, cur, handler, marks, ask, reports,
                 io, peer, known, evicted, stale, broken>>

\* The user's refresh, or the one of fps_control for a long queue.
UserRefresh(d) ==
  /\ io = "idle" /\ events < MaxEvents
  /\ events' = events + 1
  /\ refresh_video(d)
  /\ UNCHANGED <<chan, queue, discard, pc, cur, handler, marks, reports,
                 io, peer, known, evicted, stale, broken>>

\* handle_msg_from_ui on a refresh: what is queued is discarded, and the request
\* goes to the peer, which owes a key frame from then on.
Refresh(d) ==
  /\ io = "idle" /\ ask[d] > 0
  /\ ask' = [ask EXCEPT ![d] = @ - 1]
  /\ discard' = [discard EXCEPT ![d] = IF pc[d] = "none" THEN @ ELSE TRUE]
  /\ peer' = [peer EXCEPT ![d].asked = TRUE]
  /\ UNCHANGED <<chan, queue, pc, cur, handler, marks, reports, io,
                 known, events, evicted, stale, broken>>

\* handle_msg_from_ui passes a report on; the peer renegotiates (external).
Report ==
  /\ io = "idle" /\ reports # <<>>
  /\ known' = Head(reports)
  /\ reports' = Tail(reports)
  /\ UNCHANGED <<chan, queue, discard, pc, cur, handler, marks, ask,
                 io, peer, events, evicted, stale, broken>>

\* The io_loop ends: Drop for VideoThread, and the senders are gone.
Close ==
  /\ io = "idle" /\ io' = "ended"
  /\ discard' = [d \in Display |-> TRUE]
  /\ UNCHANGED <<chan, queue, pc, cur, handler, marks, ask, reports,
                 peer, known, events, evicted, stale, broken>>

-----------------------------------------------------------------------------
(* The video thread.                                                       *)

\* Decoder::new for a format, with the counters of VideoHandler::new and reset; a
\* format that cannot be decoded may fail to open or open and fail later.
NewHandlers(fmt, last) ==
  {[fmt |-> fmt, valid |-> valid, fail |-> 0, first |-> TRUE, last |-> last] :
     valid \in IF fmt \in Decodable THEN {TRUE} ELSE BOOLEAN}

\* recv on the channel: a queue message, or a reset.
Recv(d) ==
  /\ pc[d] = "recv" /\ chan[d] # <<>> /\ Head(chan[d]).t # "frame"
  /\ chan' = [chan EXCEPT ![d] = Tail(@)]
  /\ IF Head(chan[d]).t = "queue"
     THEN pc' = [pc EXCEPT ![d] = "pop"] /\ UNCHANGED handler
     ELSE /\ IF Present(handler[d])
             THEN \E h \in NewHandlers(handler[d].fmt, AfterReset) :
                    handler' = [handler EXCEPT ![d] = h]
             ELSE UNCHANGED handler
          /\ UNCHANGED pc
  /\ UNCHANGED <<queue, discard, cur, marks, ask, reports, io, peer, known, events,
                 evicted, stale, broken>>

\* A queue message pops a frame.
Pop(d) ==
  /\ pc[d] = "pop"
  /\ IF queue[d] = <<>>
     THEN pc' = [pc EXCEPT ![d] = "recv"] /\ UNCHANGED <<cur, queue>>
     ELSE /\ cur' = [cur EXCEPT ![d] = Head(queue[d])]
          /\ queue' = [queue EXCEPT ![d] = Tail(@)]
          /\ pc' = [pc EXCEPT ![d] = "check"]
  /\ UNCHANGED <<chan, discard, handler, marks, ask, reports, io, peer, known, events,
                 evicted, stale, broken>>

\* The native decoder (external): a format that cannot be decoded fails; a frame
\* whose reference is missing may be shown, ignored or refused.
Outcomes(h, f) ==
  IF ~h.valid THEN {"err"}
  ELSE IF f.fmt \notin Decodable THEN {"none", "err"}
  ELSE IF f.key \/ h.last = Before(f.id) THEN {"ok"}
  ELSE {"ok", "none", "err"}

fail_counter_errors_only(h, res) ==
  IF res # "err" THEN 0
  ELSE IF h.first \/ h.fail = MaxFail THEN MaxFail ELSE h.fail + 1

\* The failure counter of handle_frame; it saturates at MaxFail, the only value
\* it is compared with.
fail_counter(h, res) ==
  IF res = "ok" THEN 0
  ELSE IF h.first \/ h.fail = MaxFail THEN MaxFail ELSE h.fail + 1

\* A decoder for the frame's format: the one in use, or a new one made by
\* VideoHandler::new or reset(Some(format)).
DecodersFor(d, f) ==
  IF Present(handler[d]) /\ handler[d].fmt = f.fmt THEN {handler[d]}
  ELSE NewHandlers(f.fmt, AfterNew)

\* handle_frame, and what the thread does with its result.
handle_frame(d, f) ==
  \E h \in DecodersFor(d, f) : \E res \in Outcomes(h, f) :
    /\ handler' = [handler EXCEPT ![d] = [h EXCEPT !.fail = fail_counter(h, res),
                                                   !.first = FALSE, !.last = f.id]]
    /\ IF res = "err" THEN refresh_video(d) ELSE UNCHANGED ask
    /\ stale' = IF f.key /\ f.post THEN stale \ {d} ELSE stale
    /\ broken' = IF f.key \/ h.last \in {AfterReset, Before(f.id)}
                 THEN broken ELSE broken \cup {d}
    /\ pc' = [pc EXCEPT ![d] =
                IF ~h.valid \/ fail_counter(h, res) >= MaxFail THEN "mark" ELSE "recv"]

\* A key frame ends the discarding.
RecvKey(d) ==
  /\ pc[d] = "recv" /\ chan[d] # <<>> /\ Head(chan[d]).t = "frame"
  /\ chan' = [chan EXCEPT ![d] = Tail(@)]
  /\ discard' = [discard EXCEPT ![d] = FALSE]
  /\ handle_frame(d, Head(chan[d]).f)
  /\ UNCHANGED <<queue, cur, marks, reports, io, peer, known, events, evicted>>

drop_frame_once(d) ==
  /\ pc' = [pc EXCEPT ![d] = "recv"]
  /\ discard' = [discard EXCEPT ![d] = FALSE]
  /\ UNCHANGED <<handler, ask, stale, broken>>

\* A popped frame is dropped while discard_queue is set.
drop_frame(d) ==
  /\ pc' = [pc EXCEPT ![d] = "recv"]
  /\ UNCHANGED <<discard, handler, ask, stale, broken>>

Check(d) ==
  /\ pc[d] = "check"
  /\ cur' = [cur EXCEPT ![d] = NoFrame]
  /\ IF discard[d] THEN drop_frame(d) ELSE handle_frame(d, cur[d]) /\ UNCHANGED discard
  /\ UNCHANGED <<chan, queue, marks, reports, io, peer, known, events, evicted>>

\* "check invalid decoders": under the write lock of lc.
MarkUnsupported(d) ==
  /\ pc[d] = "mark"
  /\ marks' = marks \cup {handler[d].fmt}
  /\ pc' = [pc EXCEPT ![d] = IF handler[d].fmt \in marks THEN "recv" ELSE "report"]
  /\ UNCHANGED <<chan, queue, discard, cur, handler, ask, reports, io, peer, known,
                 events, evicted, stale, broken>>

reported_own_format(d) == {handler[d].fmt}

\* The report is built and sent under one read lock of lc.
reported(d) == marks
UpdateSupported(d) ==
  /\ pc[d] = "report"
  /\ reports' = Append(reports, reported(d))
  /\ pc' = [pc EXCEPT ![d] = "recv"]
  /\ UNCHANGED <<chan, queue, discard, cur, handler, marks, ask, io,
                 peer, known, events, evicted, stale, broken>>

exit_guard_discarded(d) == chan[d] = <<>> /\ io = "ended" /\ discard[d]

\* recv fails when the channel is empty and its sender is gone.
exit_guard(d) == chan[d] = <<>> /\ io = "ended"
Exit(d) ==
  /\ pc[d] = "recv" /\ exit_guard(d)
  /\ pc' = [pc EXCEPT ![d] = "exited"]
  /\ UNCHANGED <<chan, queue, discard, cur, handler, marks, ask, reports,
                 io, peer, known, events, evicted, stale, broken>>

Thread(d) ==
  \/ Recv(d) \/ RecvKey(d) \/ Pop(d) \/ Check(d) \/ MarkUnsupported(d)
  \/ UpdateSupported(d) \/ Exit(d)

KeyFrame(d) == \E fmt \in Codec : VideoFrame(d, TRUE, fmt) \/ new_video_thread(d, fmt)
DeltaFrame(d) == \E fmt \in Codec : VideoFrame(d, FALSE, fmt)

Next ==
  \/ \E d \in Display : \/ KeyFrame(d) \/ DeltaFrame(d) \/ Thread(d)
                        \/ ResetDecoder(d) \/ UserRefresh(d) \/ Refresh(d)
  \/ Report \/ Close

\* A peer that owes a key frame starts a new encoder.
OwedKey(d) == Owed(d) /\ KeyFrame(d)

Fairness ==
  /\ \A d \in Display : /\ WF_vars(Thread(d)) /\ WF_vars(Refresh(d))
                        /\ SF_vars(OwedKey(d))
  /\ WF_vars(Report)

Spec == Init /\ [][Next]_vars
FairSpec == Spec /\ Fairness

-----------------------------------------------------------------------------
Tokens(d) == Cardinality({i \in DOMAIN chan[d] : chan[d][i].t = "queue"})

TypeOK ==
  /\ \A d \in Display :
       /\ queue[d] \in Seq(Frame) /\ Len(queue[d]) <= QueueSize
       /\ cur[d] \in Frame
       /\ handler[d].fmt \in Codec /\ handler[d].fail \in 0..MaxFail
       /\ ask[d] \in 0..MaxAsk
  /\ discard \in [Display -> BOOLEAN]
  /\ marks \subseteq Codec /\ known \subseteq Codec

\* Every queued frame has a queue message that will pop it, and every queue
\* message finds a frame: the eviction of a full queue keeps the two in step
\* although the frame and its message travel apart.
TokensMatchQueue ==
  \A d \in Display : Len(queue[d]) = Tokens(d) + (IF pc[d] = "pop" THEN 1 ELSE 0)

\* As long as the queue never overflowed, the decoder is given every frame that
\* is not a key frame right after its predecessor (or after a reset): the
\* discarding of a refresh never lets a frame through whose predecessor it dropped.
DecodedInOrder == \A d \in Display : d \in broken => d \in evicted

\* When no video thread is about to report, the last report sent to the peer names
\* all the formats that any thread has given up.
ReportsComplete ==
  (\A d \in Display : pc[d] # "report") =>
    marks = (IF reports = <<>> THEN known ELSE reports[Len(reports)])

\* A display that lost a frame to an overflow decodes a key frame sent after the
\* loss, or the session ends: the refresh is not lost.
OverflowRecovers == \A d \in Display : []<>(d \notin stale \/ io = "ended")

\* A stream in a format the client cannot decode is replaced by one it can.
FallbackReached ==
  \A d \in Display : []<>(peer[d].fmt \in Decodable \/ io = "ended")

\* After the session's end every video thread drains its channel and exits.
ThreadExits ==
  \A d \in Display : []<>(io # "ended" \/ pc[d] \in {"none", "exited"})
=============================================================================
