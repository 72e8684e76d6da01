----------------------------- MODULE VideoService -----------------------------
(***************************************************************************)
(* The video service of one display: `run` in src/rustdesk/src/server/     *)
(* video_service.rs on the thread loop ServiceTmpl::run, the frame         *)
(* acknowledgements of VideoFrameController, and the parts of a connection *)
(* task (src/rustdesk/src/server/connection.rs) that fetch frames,         *)
(* acknowledge them and ask for a refresh.                                 *)
(*                                                                         *)
(* Each access of the thread to shared state (the subscriber maps, the     *)
(* refresh option, the negotiated codec, the notifier channel) is a step.  *)
(* What the properties do not tell apart is a free choice: whether the     *)
(* capturer has a frame, whether encoding fails, whether the display, the  *)
(* chroma or the privacy mode changed.  A frame is "cur" while it is the   *)
(* last one sent and "old" after that.                                     *)
(***************************************************************************)
EXTENDS ServiceTmpl, Naturals, Sequences, FiniteSets

CONSTANTS
  Codec,      \* codec formats the negotiation can choose
  VP9,        \* the format every fallback ends in
  Hardware,   \* the formats only a hardware encoder produces (H264, H265)
  WebConn,    \* connections with video_ack_required
  MaxQueue,   \* bound: frames in a video channel, frames on a web client's wire
  MaxEvents   \* bound: calls of connections, refreshes and renegotiations

ASSUME VideoNeedsSnapshot == need_snapshot = TRUE
ASSUME CodecAssumption == VP9 \in Codec \ Hardware /\ Hardware \subseteq Codec

VARIABLES
  pc,               \* where the service thread is
  refresh,          \* the option OPTION_REFRESH of the service
  negotiated,       \* ENCODE_CODEC_FORMAT
  cfg,              \* format of the EncoderCfg in use
  codec_format,     \* the negotiated codec run compares with
  retried,          \* setup_encoder already failed once in this run
  bailing,          \* the snapshot's callback answered SWITCH
  send_conn_ids,    \* VideoFrameController.send_conn_ids
  fetched_conn_ids, \* local of the wait loop
  notifier,         \* the display's FRAME_FETCHED_NOTIFIERS channel
  display_conn_ids, \* DISPLAY_CONN_IDS of the display; {} when absent
  tx_video,         \* per connection, frames not yet fetched by its task
  wire,             \* per web connection, frames without a VideoReceived
  closing,          \* connections that left their loop, not yet removed
  events,           \* environment steps so far
  fresh,            \* history: the encoder has not yet produced a frame
  synced,           \* history: subscribers sent this encoder's first frame
  requested,        \* history: connections owed a key frame by a refresh
  told,             \* history: sent the pending display-changed message
  fetched_cur,      \* history: connections that fetched the current frame
  lax,              \* history: a wait ended early, or a connection left
  raced             \* history: renegotiated while setup_encoder was running

encVars == <<negotiated, cfg, codec_format, retried>>
ackVars == <<send_conn_ids, fetched_conn_ids, notifier, display_conn_ids>>
connVars == <<tx_video, wire, closing, events>>
histVars == <<fresh, synced, requested, told, fetched_cur, lax, raced>>
vidVars == <<pc, refresh, bailing, encVars, ackVars, connVars, histVars>>
vars == <<tmplVars, vidVars>>

-----------------------------------------------------------------------------
(* The thread leaves run: the encoder is dropped, then Raii.               *)
Leave == pc' = "drop" /\ fresh' = TRUE /\ synced' = {}

Stay == UNCHANGED <<fresh, synced>>

Goto(l) == pc' = l /\ Stay

Quiet == UNCHANGED <<requested, told, fetched_cur, lax, raced>>

(* ServiceTmpl::run, the loop around run.                                  *)
RunActive ==
  /\ pc = "active"
  /\ Goto(IF active THEN "has" ELSE "exit")
  /\ UNCHANGED <<tmplVars, refresh, bailing, encVars, ackVars, connVars>>
  /\ Quiet

RunHasSubscribes ==
  /\ pc = "has"
  /\ Goto(IF has_subscribes THEN "config" ELSE "active")
  /\ UNCHANGED <<tmplVars, refresh, bailing, encVars, ackVars, connVars>>
  /\ Quiet

-----------------------------------------------------------------------------
(* setup_encoder: read the negotiated codec, impose the one there is an    *)
(* encoder for, read it again, create the encoder.                         *)

GetCapturerFails ==
  /\ pc = "config" /\ ~retried
  /\ Leave
  /\ UNCHANGED <<tmplVars, refresh, bailing, encVars, ackVars, connVars>>
  /\ Quiet

get_encoder_config ==
  /\ pc = "config"
  /\ cfg' \in IF negotiated \in Hardware THEN {negotiated, VP9} ELSE {negotiated}
  /\ Goto("fallback")
  /\ raced' = FALSE
  /\ UNCHANGED <<tmplVars, refresh, bailing, negotiated, codec_format, retried,
                 ackVars, connVars, requested, told, fetched_cur, lax>>

set_fallback_skipped ==
  /\ pc = "fallback"
  /\ Goto("format")
  /\ UNCHANGED <<tmplVars, refresh, bailing, encVars, ackVars, connVars>>
  /\ Quiet

set_fallback ==
  /\ pc = "fallback"
  /\ negotiated' = cfg
  /\ Goto("format")
  /\ UNCHANGED <<tmplVars, refresh, bailing, cfg, codec_format, retried,
                 ackVars, connVars>>
  /\ Quiet

negotiated_codec ==
  /\ pc = "format"
  /\ codec_format' = negotiated
  /\ Goto("new")
  /\ UNCHANGED <<tmplVars, refresh, bailing, negotiated, cfg, retried,
                 ackVars, connVars>>
  /\ Quiet

EncoderNew ==
  /\ pc = "new"
  /\ Goto("clear")
  /\ UNCHANGED <<tmplVars, refresh, bailing, encVars, ackVars, connVars>>
  /\ Quiet

(* Encoder::new fails.  A hardware failure resets the negotiation to VP9;  *)
(* run then falls back to VP9 itself and sets up once more.                *)
EncoderNewFails ==
  /\ pc = "new"
  /\ IF retried THEN Leave ELSE Goto("config")
  /\ retried' = TRUE
  /\ negotiated' = IF cfg \in Hardware \/ ~retried THEN VP9 ELSE negotiated
  /\ UNCHANGED <<tmplVars, refresh, bailing, cfg, codec_format,
                 ackVars, connVars>>
  /\ Quiet

(* A refresh asked for before this point is served by the new encoder.     *)
ClearRefresh ==
  /\ pc = "clear"
  /\ refresh' = FALSE
  /\ Goto("loop")
  /\ UNCHANGED <<tmplVars, bailing, encVars, ackVars, connVars>>
  /\ Quiet

-----------------------------------------------------------------------------
(* The head of run's loop: every reason to leave with SWITCH.              *)

loop_without_ok ==
  /\ pc = "loop"
  /\ Goto("opt")
  /\ UNCHANGED <<tmplVars, refresh, bailing, encVars, ackVars, connVars>>
  /\ Quiet

LoopOk ==
  /\ pc = "loop"
  /\ IF ok THEN Goto("opt") ELSE Leave
  /\ UNCHANGED <<tmplVars, refresh, bailing, encVars, ackVars, connVars>>
  /\ Quiet

refresh_without_switch ==
  /\ pc = "opt"
  /\ refresh' = FALSE
  /\ Goto("codec")
  /\ UNCHANGED <<tmplVars, bailing, encVars, ackVars, connVars>>
  /\ Quiet

CheckRefresh ==
  /\ pc = "opt"
  /\ IF refresh
     THEN Leave \/ Goto("bcast")
     ELSE Goto("codec")
  /\ UNCHANGED <<tmplVars, refresh, bailing, encVars, ackVars, connVars>>
  /\ Quiet

CheckCodec ==
  /\ pc = "codec"
  /\ IF codec_format # negotiated THEN Leave ELSE Goto("others")
  /\ UNCHANGED <<tmplVars, refresh, bailing, encVars, ackVars, connVars>>
  /\ Quiet

(* The chroma, the desktop, the privacy mode or the display changed, here  *)
(* or, for the privacy mode, while waiting; on Android the scale changed   *)
(* when the encoder was created.  Some of these tell the subscribers.      *)
SomethingChanged ==
  /\ pc \in {"clear", "others", "capture", "wait"}
  /\ Leave \/ Goto("bcast")
  /\ lax' = (lax \/ pc = "wait")
  /\ UNCHANGED <<tmplVars, refresh, bailing, encVars, ackVars, connVars,
                 requested, told, fetched_cur, raced>>

(* Nothing changed: frame_controller.reset().                              *)
NothingChanged ==
  /\ pc = "others"
  /\ send_conn_ids' = {}
  /\ Goto("capture")
  /\ UNCHANGED <<tmplVars, refresh, bailing, encVars, fetched_conn_ids,
                 notifier, display_conn_ids, connVars>>
  /\ Quiet

(* try_broadcast_display_changed, when the display did change: it tells    *)
(* subscribes, takes a snapshot for new_subscribes, and bails out.         *)
BroadcastSend ==
  /\ pc = "bcast"
  /\ told' = subscribes
  /\ Goto("bcast_snap")
  /\ UNCHANGED <<tmplVars, refresh, bailing, encVars, ackVars, connVars,
                 requested, fetched_cur, lax, raced>>

BroadcastSnapshot ==
  /\ pc = "bcast_snap"
  /\ IF new_subscribes # {} THEN Goto("bcast_new") ELSE Leave
  /\ UNCHANGED <<tmplVars, refresh, bailing, encVars, ackVars, connVars>>
  /\ Quiet

BroadcastSendNew ==
  /\ pc = "bcast_new"
  /\ told' = told \cup new_subscribes
  /\ Goto("bcast_swap")
  /\ UNCHANGED <<tmplVars, refresh, bailing, encVars, ackVars, connVars,
                 requested, fetched_cur, lax, raced>>

BroadcastSwap ==
  /\ pc = "bcast_swap"
  /\ Swap
  /\ Leave
  /\ UNCHANGED <<refresh, bailing, encVars, ackVars, connVars>>
  /\ Quiet

-----------------------------------------------------------------------------
(* One frame: capture, snapshot, encode and send.                          *)

(* WouldBlock with nothing to encode again, or an invalid frame.           *)
NoFrame ==
  /\ pc = "capture"
  /\ fetched_conn_ids' = {}
  /\ Goto("wait")
  /\ UNCHANGED <<tmplVars, refresh, bailing, encVars, send_conn_ids, notifier,
                 display_conn_ids, connVars>>
  /\ Quiet

(* A frame, or WouldBlock with the last one to encode again.               *)
FrameReady ==
  /\ pc = "capture"
  /\ Goto("snap")
  /\ UNCHANGED <<tmplVars, refresh, bailing, encVars, ackVars, connVars>>
  /\ Quiet

SnapshotCheck ==
  /\ pc = "snap"
  /\ Goto(IF new_subscribes # {} THEN "has_old" ELSE "encode")
  /\ UNCHANGED <<tmplVars, refresh, bailing, encVars, ackVars, connVars>>
  /\ Quiet

never_switch_for_new ==
  /\ pc = "has_old"
  /\ bailing' = FALSE
  /\ Goto("promote")
  /\ UNCHANGED <<tmplVars, refresh, encVars, ackVars, connVars>>
  /\ Quiet

SwapHasSubscribes ==
  /\ pc = "has_old"
  /\ bailing' = (subscribes # {})
  /\ Goto("promote")
  /\ UNCHANGED <<tmplVars, refresh, encVars, ackVars, connVars>>
  /\ Quiet

promote_replacing ==
  /\ pc = "promote"
  /\ subscribes' = new_subscribes /\ new_subscribes' = {}
  /\ UNCHANGED <<active, peers, call, wanted>>
  /\ IF bailing THEN Leave ELSE Goto("encode")
  /\ UNCHANGED <<refresh, bailing, encVars, ackVars, connVars>>
  /\ Quiet

(* The ServiceSwap is dropped whether or not the callback bailed out.      *)
Promote ==
  /\ pc = "promote"
  /\ Swap
  /\ IF bailing THEN Leave ELSE Goto("encode")
  /\ UNCHANGED <<refresh, bailing, encVars, ackVars, connVars>>
  /\ Quiet

Aged(q) == [i \in DOMAIN q |-> "old"]

Receivers == {c \in subscribes : c \notin closing}

EncodeSend ==
  /\ pc = "encode"
  /\ \A c \in Receivers : Len(tx_video[c]) < MaxQueue
  /\ tx_video' = [c \in Conn |-> IF c \in Receivers
                                 THEN Append(Aged(tx_video[c]), "cur")
                                 ELSE Aged(tx_video[c])]
  /\ wire' = [c \in Conn |-> Aged(wire[c])]
  /\ send_conn_ids' = subscribes
  /\ pc' = "set_send"
  /\ fresh' = FALSE
  /\ synced' = IF fresh THEN subscribes ELSE synced
  /\ requested' = IF fresh THEN requested \ subscribes ELSE requested
  /\ fetched_cur' = {}
  /\ UNCHANGED <<tmplVars, refresh, bailing, encVars, fetched_conn_ids,
                 notifier, display_conn_ids, closing, events, told, lax, raced>>

(* A failure that is tolerated: nobody is sent anything.                   *)
EncodeFails ==
  /\ pc = "encode"
  /\ Goto("set_send")
  /\ UNCHANGED <<tmplVars, refresh, bailing, encVars, ackVars, connVars>>
  /\ Quiet

(* The last failure a hardware encoder is allowed, or its first frame:     *)
(* disable() clears the hardware configuration and renegotiates.           *)
EncoderDisabled ==
  /\ pc = "encode"
  /\ cfg \in Hardware
  /\ negotiated' \in Codec
  /\ Leave
  /\ UNCHANGED <<tmplVars, refresh, bailing, cfg, codec_format, retried,
                 ackVars, connVars>>
  /\ Quiet

set_send ==
  /\ pc = "set_send"
  /\ display_conn_ids' = IF send_conn_ids # {} THEN send_conn_ids
                         ELSE display_conn_ids
  /\ fetched_conn_ids' = {}
  /\ Goto("wait")
  /\ UNCHANGED <<tmplVars, refresh, bailing, encVars, send_conn_ids, notifier,
                 connVars>>
  /\ Quiet

-----------------------------------------------------------------------------
(* The wait for acknowledgements, at most 3 s.                             *)

AnyFetched(fetched) == fetched # {}

Enough(fetched) == Cardinality(fetched) >= Cardinality(send_conn_ids)

(* try_wait_next drains the channel into fetched_conn_ids; the loop ends   *)
(* when as many connections answered as were sent the frame.               *)
WaitFetched ==
  /\ pc = "wait"
  /\ send_conn_ids = {} \/ notifier # {}
  /\ fetched_conn_ids' = IF send_conn_ids = {} THEN fetched_conn_ids
                         ELSE fetched_conn_ids \cup notifier
  /\ notifier' = IF send_conn_ids = {} THEN notifier ELSE {}
  /\ Goto(IF Enough(fetched_conn_ids') THEN "after" ELSE "wait")
  /\ UNCHANGED <<tmplVars, refresh, bailing, encVars, send_conn_ids,
                 display_conn_ids, connVars>>
  /\ Quiet

wait_again ==
  /\ pc = "wait"
  /\ send_conn_ids # {}
  /\ Goto("wait")
  /\ lax' = TRUE
  /\ UNCHANGED <<tmplVars, refresh, bailing, encVars, ackVars, connVars,
                 requested, told, fetched_cur, raced>>

WaitTimeout ==
  /\ pc = "wait"
  /\ send_conn_ids # {}
  /\ Goto("after")
  /\ lax' = TRUE
  /\ UNCHANGED <<tmplVars, refresh, bailing, encVars, ackVars, connVars,
                 requested, told, fetched_cur, raced>>

AfterWait ==
  /\ pc = "after"
  /\ display_conn_ids' = {}
  /\ fetched_conn_ids' = {}
  /\ fetched_cur' = {}
  /\ Goto("loop")
  /\ UNCHANGED <<tmplVars, refresh, bailing, encVars, send_conn_ids, notifier,
                 connVars, requested, told, lax, raced>>

(* The locals of run and Raii are dropped; ServiceTmpl::run sleeps.        *)
RaiiDrop ==
  /\ pc = "drop"
  /\ display_conn_ids' = {}
  /\ bailing' = FALSE /\ retried' = FALSE
  /\ cfg' = VP9 /\ codec_format' = VP9
  /\ send_conn_ids' = {} /\ fetched_conn_ids' = {}
  /\ told' = {} /\ fetched_cur' = {} /\ raced' = FALSE
  /\ Goto("active")
  /\ UNCHANGED <<tmplVars, refresh, negotiated, notifier, connVars,
                 requested, lax>>

(* What the thread does by itself, whether or not something changed.       *)
ThreadStep ==
  \/ RunActive \/ RunHasSubscribes
  \/ GetCapturerFails \/ get_encoder_config \/ set_fallback
  \/ negotiated_codec \/ EncoderNew \/ EncoderNewFails \/ ClearRefresh
  \/ LoopOk \/ CheckRefresh \/ CheckCodec \/ NothingChanged
  \/ BroadcastSend \/ BroadcastSnapshot \/ BroadcastSendNew \/ BroadcastSwap
  \/ NoFrame \/ FrameReady \/ SnapshotCheck \/ SwapHasSubscribes \/ Promote
  \/ EncodeSend \/ EncodeFails \/ EncoderDisabled \/ set_send
  \/ WaitFetched \/ WaitTimeout \/ AfterWait \/ RaiiDrop

Thread == ThreadStep \/ SomethingChanged

-----------------------------------------------------------------------------
(* Connection tasks.                                                       *)

alive_unless_closing(c) == c \notin closing

Alive(c) == peers[c] = "open" /\ c \notin closing /\ \A r \in call : r.conn # c

(* The frame with mark m reached connection c while the thread waits.      *)
Fetched(c, m) ==
  fetched_cur' = IF m = "cur" /\ pc \in {"set_send", "wait"}
                 THEN fetched_cur \cup {c} ELSE fetched_cur

(* rx_video.recv(): the frame is acknowledged, unless the client does it   *)
(* itself, and then written to the stream.                                 *)
FetchFrame(c) ==
  /\ Alive(c) /\ tx_video[c] # <<>> /\ Len(wire[c]) < MaxQueue
  /\ tx_video' = [tx_video EXCEPT ![c] = Tail(@)]
  /\ IF c \in WebConn
     THEN /\ wire' = [wire EXCEPT ![c] = Append(@, Head(tx_video[c]))]
          /\ UNCHANGED <<notifier, fetched_cur>>
     ELSE /\ notifier' = notifier \cup {c}
          /\ Fetched(c, Head(tx_video[c]))
          /\ UNCHANGED wire
  /\ UNCHANGED <<tmplVars, pc, refresh, bailing, encVars, send_conn_ids,
                 fetched_conn_ids, display_conn_ids, closing, events,
                 fresh, synced, requested, told, lax, raced>>

(* notify_video_frame_fetched_by_conn_id.                                  *)
notify_by_conn_id(c) ==
  notifier' = IF c \in display_conn_ids THEN notifier \cup {c} ELSE notifier

VideoReceived(c) ==
  /\ Alive(c) /\ wire[c] # <<>>
  /\ wire' = [wire EXCEPT ![c] = Tail(@)]
  /\ notify_by_conn_id(c)
  /\ Fetched(c, Head(wire[c]))
  /\ UNCHANGED <<tmplVars, pc, refresh, bailing, encVars, send_conn_ids,
                 fetched_conn_ids, display_conn_ids, tx_video, closing, events,
                 fresh, synced, requested, told, lax, raced>>

(* The connection's loop ended; remove_connection follows.                 *)
CloseLoop(c) ==
  /\ Alive(c)
  /\ closing' = closing \cup {c}
  /\ notify_by_conn_id(c)
  /\ tx_video' = [tx_video EXCEPT ![c] = <<>>]
  /\ wire' = [wire EXCEPT ![c] = <<>>]
  /\ lax' = TRUE
  /\ UNCHANGED <<tmplVars, pc, refresh, bailing, encVars, send_conn_ids,
                 fetched_conn_ids, display_conn_ids, events,
                 fresh, synced, requested, told, fetched_cur, raced>>

(* refresh_video_display, under the Server's read lock.                    *)
RefreshVideo(c) ==
  /\ Alive(c) /\ ServerFree
  /\ events < MaxEvents
  /\ events' = events + 1
  /\ refresh' = TRUE
  /\ requested' = requested \cup ({c} \cap (subscribes \cup new_subscribes))
  /\ UNCHANGED <<tmplVars, pc, bailing, encVars, ackVars, tx_video, wire,
                 closing, fresh, synced, told, fetched_cur, lax, raced>>

(* Encoder::update on behalf of any connection of the process.             *)
EncoderUpdate ==
  /\ events < MaxEvents
  /\ events' = events + 1
  /\ negotiated' \in Codec \ {negotiated}
  /\ raced' = (raced \/ pc \in {"fallback", "format"})
  /\ UNCHANGED <<tmplVars, pc, refresh, bailing, cfg, codec_format, retried,
                 ackVars, tx_video, wire, closing,
                 fresh, synced, requested, told, fetched_cur, lax>>

(* The operations of the Server, as the connection's task orders them.     *)
ServerStep ==
  /\ \/ /\ \/ \E c \in Conn : add_connection(c)
           \/ \E c \in closing : remove_connection(c)
           \/ \E r \in call : is_subed_second(r) \/ subscribe_finish(r)
           \/ join
        /\ UNCHANGED events
     \/ /\ \E c \in Conn \ closing, sub \in BOOLEAN : is_subed_first(c, sub)
        /\ events < MaxEvents
        /\ events' = events + 1
  /\ synced' = synced \cap subscribes'
  /\ requested' = requested \cap (subscribes' \cup new_subscribes')
  /\ lax' = (lax \/ ~(subscribes \subseteq subscribes'))
  /\ UNCHANGED <<pc, refresh, bailing, encVars, ackVars, tx_video, wire,
                 closing, fresh, told, fetched_cur, raced>>

Connection(c) ==
  FetchFrame(c) \/ VideoReceived(c) \/ CloseLoop(c) \/ RefreshVideo(c)

Init ==
  /\ TmplInit
  /\ pc = "active" /\ refresh = FALSE /\ bailing = FALSE
  /\ negotiated = VP9 /\ cfg = VP9 /\ codec_format = VP9 /\ retried = FALSE
  /\ send_conn_ids = {} /\ fetched_conn_ids = {}
  /\ notifier = {} /\ display_conn_ids = {}
  /\ tx_video = [c \in Conn |-> <<>>] /\ wire = [c \in Conn |-> <<>>]
  /\ closing = {} /\ events = 0
  /\ fresh = TRUE /\ synced = {} /\ requested = {} /\ told = {}
  /\ fetched_cur = {} /\ lax = FALSE /\ raced = FALSE

Next == Thread \/ ServerStep \/ EncoderUpdate \/ \E c \in Conn : Connection(c)

(* The thread runs; its retries meet a working capturer and encoder again  *)
(* and again, a connection that stays open reads its channel, a web client *)
(* acknowledges, and a Server::subscribe call that began ends.             *)
Fairness ==
  /\ WF_vars(ThreadStep)
  /\ SF_vars(get_encoder_config) /\ SF_vars(EncoderNew)
  /\ SF_vars(ClearRefresh) /\ SF_vars(NothingChanged)
  /\ SF_vars(FrameReady) /\ SF_vars(EncodeSend)
  /\ \A c \in Conn : WF_vars(FetchFrame(c)) /\ WF_vars(VideoReceived(c))
  /\ WF_vars(call # {} /\ ServerStep)

Spec == Init /\ [][Next]_vars

FairSpec == Spec /\ Fairness

-----------------------------------------------------------------------------
Locations ==
  {"active", "has", "config", "fallback", "format", "new", "clear", "loop",
   "opt", "codec", "others", "bcast", "bcast_snap", "bcast_new", "bcast_swap",
   "capture", "snap", "has_old", "promote", "encode", "set_send", "wait",
   "after", "drop", "exit"}

(* Type correctness of the thread's locals, the channels and the histories. *)
TypeOK ==
  /\ TmplTypeOK
  /\ pc \in Locations
  /\ refresh \in BOOLEAN /\ bailing \in BOOLEAN /\ retried \in BOOLEAN
  /\ {negotiated, cfg, codec_format} \subseteq Codec
  /\ send_conn_ids \subseteq Conn /\ fetched_conn_ids \subseteq Conn
  /\ notifier \subseteq Conn /\ display_conn_ids \subseteq Conn
  /\ \A q \in {tx_video, wire} : q \in [Conn -> Seq({"cur", "old"})]
  /\ closing \subseteq {c \in Conn : peers[c] # "none"}
  /\ fresh \in BOOLEAN /\ lax \in BOOLEAN /\ raced \in BOOLEAN
  /\ synced \subseteq Conn /\ requested \subseteq Conn
  /\ told \subseteq Conn /\ fetched_cur \subseteq Conn

(* handle_one_frame: "so that new sub and old sub share the same encoder   *)
(* after switch".  Whenever a frame is about to be encoded by an encoder   *)
(* that has produced one before, either all subscribers were sent its      *)
(* first frame or none was, whoever joined and left between the reads of   *)
(* the subscriber maps.                                                    *)
ShareEncoder ==
  pc = "encode" => \/ fresh
                   \/ subscribes \subseteq synced
                   \/ subscribes \cap synced = {}

(* A refresh asked for by a subscriber is never lost: until a new          *)
(* encoder's first frame is sent to that connection, the option is still   *)
(* set or the encoder is still new.  The option is cleared without looking *)
(* at who set it, between the creation of the encoder and its first frame. *)
RefreshNotLost == requested # {} => refresh \/ fresh

(* The codec that run compares with the negotiated one is the encoder's,   *)
(* unless the codec was renegotiated inside setup_encoder, between the     *)
(* choice of the encoder and the second read of the negotiated codec.      *)
CodecTracked ==
  pc \notin {"active", "has", "config", "fallback", "format", "drop", "exit"}
    => cfg = codec_format \/ raced

(* Flow control: as long as every wait ended with enough acknowledgements  *)
(* and nobody left, no connection has more than one frame underway.        *)
FlowControlled ==
  ~lax => \A c \in Conn : Len(tx_video[c]) + Len(wire[c]) <= 1

(* "break if all connections have received current frame": the wait ends,  *)
(* before its timeout, only when every connection that was sent the frame  *)
(* and is still there has fetched it.                                      *)
WaitMeansReceived ==
  [][WaitFetched /\ pc' = "after"
       => \A c \in send_conn_ids : Alive(c) => c \in fetched_cur]_vars

(* "add snapshot to send to new subscribers": a connection promoted by the *)
(* snapshot of a display change has been told of the change.               *)
DisplayChangeTold == [][BroadcastSwap => new_subscribes \subseteq told]_vars

(* A refresh leads to a new encoder's first frame for every connection     *)
(* that asked and is still subscribed, however acknowledgements are lost.  *)
RefreshServed == []<>(requested = {} \/ ~active)

(* Clearing `active` ends the thread, even from inside the wait.           *)
ThreadExits == []<>(active \/ pc = "exit")
=============================================================================
