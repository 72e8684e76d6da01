-------------------------- MODULE VideoServiceProofs --------------------------
(***************************************************************************)
(* The video service implements the bookkeeping of ServiceTmpl, never      *)
(* loses a refresh, has all subscribers share an encoder, and has at most  *)
(* one frame underway to each of them: for any connections, codecs and     *)
(* bounds.                                                                 *)
(***************************************************************************)
EXTENDS VideoService, ServiceTmplProofs, FiniteSetTheorems, SequenceTheorems

(* Before its first frame an encoder is new; so is the one not yet made.   *)
NewBeforeLoop ==
  /\ pc \in {"active", "has", "config", "fallback", "format", "new", "clear",
            "drop", "exit"} => fresh
  /\ fresh => synced = {}

(* Who waits in new_subscribes when a frame is encoded came after the      *)
(* swap, hence after the option was cleared: its request is still set.     *)
LateRequestSet ==
  pc = "encode" => requested \cap new_subscribes = {} \/ refresh

(* An encoder past its first frame has subscribers of one kind only.       *)
OneKind == fresh \/ subscribes \subseteq synced \/ subscribes \cap synced = {}

(* Without SWITCH the swap finds no old subscriber: none can have been     *)
(* added since has_subscribes, as they all enter through new_subscribes.   *)
AloneAtSwap == pc = "promote" /\ ~bailing => subscribes = {}

(* Once set_fallback has run, the negotiated codec is the encoder's until  *)
(* someone else renegotiates.                                              *)
FormatTracked == pc = "format" => cfg = negotiated \/ raced

VidInv ==
  /\ closing \subseteq Conn
  /\ {fresh, refresh, bailing, raced} \subseteq BOOLEAN
  /\ synced \subseteq subscribes
  /\ requested \subseteq subscribes \cup new_subscribes
  /\ NewBeforeLoop
  /\ RefreshNotLost
  /\ LateRequestSet
  /\ OneKind
  /\ AloneAtSwap
  /\ FormatTracked
  /\ CodecTracked

-----------------------------------------------------------------------------
(* A service with snapshots: an operation of the Server never adds to      *)
(* subscribes, and adds to new_subscribes only who was in neither map.     *)
LEMMA ServerOps ==
  ASSUME ServerNext
  PROVE  /\ subscribes' \subseteq subscribes
         /\ (new_subscribes' \ new_subscribes) \cap subscribes = {}
<1>1. ASSUME NEW c, on_subscribe(c) \/ on_unsubscribe(c)
              \/ UNCHANGED <<subscribes, new_subscribes>>
      PROVE  /\ subscribes' \subseteq subscribes
             /\ (new_subscribes' \ new_subscribes) \cap subscribes = {}
  BY <1>1, VideoNeedsSnapshot DEF on_subscribe, on_unsubscribe
<1>2. QED
  BY <1>1 DEF ServerNext, add_connection, remove_connection, is_subed_first,
     is_subed_second, subscribe_finish, join

(* The connection tasks' operations are those of the Server.               *)
LEMMA ServerStepImplements ==
  closing \subseteq Conn /\ ServerStep => ServerNext
  BY DEF ServerStep, ServerNext

(* Every step of the thread swaps the maps or leaves them alone.           *)
LEMMA ThreadImplements == Thread => Swap \/ UNCHANGED tmplVars
<1>1. CASE RunActive
  BY <1>1 DEF RunActive
<1>2. CASE RunHasSubscribes
  BY <1>2 DEF RunHasSubscribes
<1>3. CASE GetCapturerFails
  BY <1>3 DEF GetCapturerFails
<1>4. CASE get_encoder_config
  BY <1>4 DEF get_encoder_config
<1>5. CASE set_fallback
  BY <1>5 DEF set_fallback
<1>6. CASE negotiated_codec
  BY <1>6 DEF negotiated_codec
<1>7. CASE EncoderNew
  BY <1>7 DEF EncoderNew
<1>8. CASE EncoderNewFails
  BY <1>8 DEF EncoderNewFails
<1>9. CASE ClearRefresh
  BY <1>9 DEF ClearRefresh
<1>10. CASE LoopOk
  BY <1>10 DEF LoopOk
<1>11. CASE CheckRefresh
  BY <1>11 DEF CheckRefresh
<1>12. CASE CheckCodec
  BY <1>12 DEF CheckCodec
<1>13. CASE NothingChanged
  BY <1>13 DEF NothingChanged
<1>14. CASE BroadcastSend
  BY <1>14 DEF BroadcastSend
<1>15. CASE BroadcastSnapshot
  BY <1>15 DEF BroadcastSnapshot
<1>16. CASE BroadcastSendNew
  BY <1>16 DEF BroadcastSendNew
<1>17. CASE BroadcastSwap
  BY <1>17 DEF BroadcastSwap
<1>18. CASE NoFrame
  BY <1>18 DEF NoFrame
<1>19. CASE FrameReady
  BY <1>19 DEF FrameReady
<1>20. CASE SnapshotCheck
  BY <1>20 DEF SnapshotCheck
<1>21. CASE SwapHasSubscribes
  BY <1>21 DEF SwapHasSubscribes
<1>22. CASE Promote
  BY <1>22 DEF Promote
<1>23. CASE EncodeSend
  BY <1>23 DEF EncodeSend
<1>24. CASE EncodeFails
  BY <1>24 DEF EncodeFails
<1>25. CASE EncoderDisabled
  BY <1>25 DEF EncoderDisabled
<1>26. CASE set_send
  BY <1>26 DEF set_send
<1>27. CASE WaitFetched
  BY <1>27 DEF WaitFetched
<1>28. CASE WaitTimeout
  BY <1>28 DEF WaitTimeout
<1>29. CASE AfterWait
  BY <1>29 DEF AfterWait
<1>30. CASE RaiiDrop
  BY <1>30 DEF RaiiDrop
<1>31. CASE SomethingChanged
  BY <1>31 DEF SomethingChanged
<1>32. QED
  BY <1>1, <1>2, <1>3, <1>4, <1>5, <1>6, <1>7, <1>8, <1>9, <1>10, <1>11, <1>12,
     <1>13, <1>14, <1>15, <1>16, <1>17, <1>18, <1>19, <1>20, <1>21, <1>22,
     <1>23, <1>24, <1>25, <1>26, <1>27, <1>28, <1>29, <1>30, <1>31
     DEF Thread, ThreadStep

(* The other steps of a connection's task do not touch the maps.           *)
LEMMA ConnectionImplements ==
  ASSUME NEW c \in Conn, Connection(c) \/ EncoderUpdate
  PROVE  UNCHANGED tmplVars
  BY DEF Connection, FetchFrame, VideoReceived, CloseLoop, RefreshVideo,
     EncoderUpdate

(* So every step of the video service is one of ServiceTmpl, or none.      *)
LEMMA NextImplements ==
  closing \subseteq Conn /\ [Next]_vars => [TmplNext]_tmplVars
<1> SUFFICES ASSUME closing \subseteq Conn, [Next]_vars PROVE [TmplNext]_tmplVars
  OBVIOUS
<1>1. CASE Thread
  BY <1>1, ThreadImplements DEF TmplNext
<1>2. CASE ServerStep
  BY <1>2, ServerStepImplements DEF TmplNext
<1>3. CASE EncoderUpdate
  BY <1>3 DEF EncoderUpdate
<1>4. ASSUME NEW c \in Conn, Connection(c) PROVE UNCHANGED tmplVars
  BY <1>4, ConnectionImplements
<1>5. CASE UNCHANGED vars
  BY <1>5 DEF vars
<1>6. QED
  BY <1>1, <1>2, <1>3, <1>4, <1>5 DEF Next

-----------------------------------------------------------------------------
(* The thread keeps the invariant, whatever it finds changed.              *)
LEMMA ThreadStepKeeps == VidInv /\ Thread => VidInv'
<1> SUFFICES ASSUME VidInv, Thread PROVE VidInv'
  OBVIOUS
<1> USE DEF VidInv, NewBeforeLoop, RefreshNotLost, LateRequestSet, OneKind,
     AloneAtSwap, FormatTracked, CodecTracked, Leave, Stay, Goto, Quiet,
     tmplVars, connVars, encVars
<1>1. CASE RunActive
  BY <1>1 DEF RunActive
<1>2. CASE RunHasSubscribes
  BY <1>2 DEF RunHasSubscribes
<1>3. CASE GetCapturerFails
  BY <1>3 DEF GetCapturerFails
<1>4. CASE get_encoder_config
  BY <1>4 DEF get_encoder_config
<1>5. CASE set_fallback
  BY <1>5 DEF set_fallback
<1>6. CASE negotiated_codec
  BY <1>6 DEF negotiated_codec
<1>7. CASE EncoderNew
  BY <1>7 DEF EncoderNew
<1>8. CASE EncoderNewFails
  BY <1>8 DEF EncoderNewFails
<1>9. CASE ClearRefresh
  BY <1>9 DEF ClearRefresh
<1>10. CASE LoopOk
  BY <1>10 DEF LoopOk
<1>11. CASE CheckRefresh
  BY <1>11 DEF CheckRefresh
<1>12. CASE CheckCodec
  BY <1>12 DEF CheckCodec
<1>13. CASE NothingChanged
  BY <1>13 DEF NothingChanged
<1>14. CASE BroadcastSend
  BY <1>14 DEF BroadcastSend
<1>15. CASE BroadcastSnapshot
  BY <1>15 DEF BroadcastSnapshot
<1>16. CASE BroadcastSendNew
  BY <1>16 DEF BroadcastSendNew
<1>17. CASE BroadcastSwap
  BY <1>17 DEF BroadcastSwap, Swap, swap_new_subscribes
<1>18. CASE NoFrame
  BY <1>18 DEF NoFrame
<1>19. CASE FrameReady
  BY <1>19 DEF FrameReady
<1>20. CASE SnapshotCheck
  BY <1>20 DEF SnapshotCheck
<1>21. CASE SwapHasSubscribes
  BY <1>21 DEF SwapHasSubscribes
<1>22. CASE Promote
  BY <1>22 DEF Promote, Swap, swap_new_subscribes
<1>23. CASE EncodeSend
  BY <1>23 DEF EncodeSend
<1>24. CASE EncodeFails
  BY <1>24 DEF EncodeFails
<1>25. CASE EncoderDisabled
  BY <1>25 DEF EncoderDisabled
<1>26. CASE set_send
  BY <1>26 DEF set_send
<1>27. CASE WaitFetched
  BY <1>27 DEF WaitFetched
<1>28. CASE WaitTimeout
  BY <1>28 DEF WaitTimeout
<1>29. CASE AfterWait
  BY <1>29 DEF AfterWait
<1>30. CASE RaiiDrop
  BY <1>30 DEF RaiiDrop
<1>31. CASE SomethingChanged
  <2>1. /\ Leave \/ Goto("bcast")
        /\ UNCHANGED <<subscribes, new_subscribes, refresh, bailing, closing,
                       requested, encVars, raced>>
        /\ pc \in {"clear", "others", "capture", "wait"}
    BY <1>31 DEF SomethingChanged
  <2>2. CASE Leave
    BY <2>1, <2>2
  <2>3. CASE Goto("bcast")
    BY <2>1, <2>3
  <2>4. QED
    BY <2>1, <2>2, <2>3
<1>32. QED
  BY <1>1, <1>2, <1>3, <1>4, <1>5, <1>6, <1>7, <1>8, <1>9, <1>10, <1>11, <1>12,
     <1>13, <1>14, <1>15, <1>16, <1>17, <1>18, <1>19, <1>20, <1>21, <1>22,
     <1>23, <1>24, <1>25, <1>26, <1>27, <1>28, <1>29, <1>30, <1>31
     DEF Thread, ThreadStep

(* So do the operations of the Server: they forget who left.               *)
LEMMA ServerStepKeeps == VidInv /\ ServerStep => VidInv'
<1> SUFFICES ASSUME VidInv, ServerStep PROVE VidInv'
  OBVIOUS
<1>1. /\ subscribes' \subseteq subscribes
      /\ (new_subscribes' \ new_subscribes) \cap subscribes = {}
  BY ServerStepImplements, ServerOps DEF VidInv
<1>2. /\ UNCHANGED <<pc, refresh, bailing, closing, fresh, cfg, codec_format,
                     negotiated, raced>>
      /\ synced' = synced \cap subscribes'
      /\ requested' = requested \cap (subscribes' \cup new_subscribes')
  BY DEF ServerStep, encVars
<1>3. QED
  BY <1>1, <1>2 DEF VidInv, NewBeforeLoop, RefreshNotLost, LateRequestSet,
     OneKind, AloneAtSwap, FormatTracked, CodecTracked

(* And the connections' tasks and renegotiations, which only set refresh,  *)
(* and raced inside setup_encoder.                                         *)
LEMMA ConnectionKeeps ==
  ASSUME VidInv, NEW c \in Conn, Connection(c) \/ EncoderUpdate
  PROVE  VidInv'
<1> USE DEF VidInv, NewBeforeLoop, RefreshNotLost, LateRequestSet, OneKind,
     AloneAtSwap, FormatTracked, CodecTracked, tmplVars, encVars
<1>1. CASE FetchFrame(c)
  BY <1>1 DEF FetchFrame
<1>2. CASE VideoReceived(c)
  BY <1>2 DEF VideoReceived
<1>3. CASE CloseLoop(c)
  BY <1>3 DEF CloseLoop
<1>4. CASE RefreshVideo(c)
  BY <1>4 DEF RefreshVideo
<1>5. CASE EncoderUpdate
  BY <1>5 DEF EncoderUpdate
<1>6. QED
  BY <1>1, <1>2, <1>3, <1>4, <1>5 DEF Connection

(* The inductive invariant holds of every behaviour of the video service.  *)
THEOREM VideoInvariant == Spec => []VidInv
<1>1. Init => VidInv
  BY DEF Init, TmplInit, VidInv, NewBeforeLoop, RefreshNotLost, LateRequestSet,
     OneKind, AloneAtSwap, FormatTracked, CodecTracked
<1>2. VidInv /\ [Next]_vars => VidInv'
  <2> SUFFICES ASSUME VidInv, [Next]_vars PROVE VidInv'
    OBVIOUS
  <2>1. CASE UNCHANGED vars
    BY <2>1 DEF vars, vidVars, tmplVars, connVars, histVars, encVars, VidInv,
       NewBeforeLoop, RefreshNotLost, LateRequestSet, OneKind, AloneAtSwap,
       FormatTracked, CodecTracked
  <2>2. CASE EncoderUpdate
    BY <2>2 DEF EncoderUpdate, tmplVars, VidInv, NewBeforeLoop, RefreshNotLost,
       LateRequestSet, OneKind, AloneAtSwap, FormatTracked, CodecTracked
  <2>3. QED
    BY <2>1, <2>2, ThreadStepKeeps, ServerStepKeeps, ConnectionKeeps DEF Next
<1>3. QED
  BY <1>1, <1>2, PTL DEF Spec

(* The video service implements the abstract bookkeeping: what is proved   *)
(* of ServiceTmpl holds for it.                                            *)
THEOREM VideoImplementsTmpl == Spec => TmplSpec
<1>1. Init => TmplInit
  BY DEF Init
<1>2. VidInv /\ [Next]_vars => [TmplNext]_tmplVars
  BY NextImplements DEF VidInv
<1>3. QED
  BY <1>1, <1>2, VideoInvariant, PTL DEF Spec, TmplSpec

(* A refresh asked for by a subscriber is never forgotten: OPTION_REFRESH  *)
(* is still set, or the encoder still owes its first frame.                *)
THEOREM RefreshKept == Spec => []RefreshNotLost
<1>1. VidInv => RefreshNotLost
  BY DEF VidInv
<1>2. QED
  BY <1>1, VideoInvariant, PTL

(* handle_one_frame's snapshot makes old and new subscribers share an      *)
(* encoder from its first frame on.                                        *)
THEOREM EncoderShared == Spec => []ShareEncoder
<1>1. VidInv => ShareEncoder
  BY DEF VidInv, OneKind, ShareEncoder
<1>2. QED
  BY <1>1, VideoInvariant, PTL

(* run notices every renegotiation but one that falls into setup_encoder:  *)
(* the codec it compares with is its encoder's.                            *)
THEOREM CodecKept == Spec => []CodecTracked
<1>1. VidInv => CodecTracked
  BY DEF VidInv
<1>2. QED
  BY <1>1, VideoInvariant, PTL

(* The video service keeps the promise of the framework it is built on: no *)
(* frame goes to a connection that remove_connection took away, and none   *)
(* that subscribed is forgotten.                                           *)
THEOREM VideoSubscriptionsRight == Spec => []SubscriptionsRight
  BY VideoImplementsTmpl, SubscriptionsStayRight, PTL

-----------------------------------------------------------------------------
(* Flow control: while every wait ended with all acknowledgements, a frame *)
(* that is underway is one the thread is waiting for.                      *)

Underway(c) == tx_video[c] # <<>> \/ wire[c] # <<>>

Queues ==
  /\ tx_video \in [Conn -> Seq({"cur", "old"})]
  /\ wire \in [Conn -> Seq({"cur", "old"})]
  /\ \A c \in Conn : Len(tx_video[c]) + Len(wire[c]) <= 1

Acks ==
  /\ IsFiniteSet(send_conn_ids)
  /\ notifier \cup fetched_conn_ids \subseteq send_conn_ids
  /\ notifier # {} => pc \in {"set_send", "wait"}
  /\ fetched_conn_ids # {} => pc \in {"wait", "after"}
  /\ \A c \in Conn : Underway(c) => /\ pc \in {"set_send", "wait"}
                                    /\ c \in send_conn_ids
                                    /\ c \notin notifier \cup fetched_conn_ids

FlowInv == ~lax => Queues /\ Acks /\ closing = {}

FiniteSubs == IsFiniteSet(subscribes) /\ IsFiniteSet(new_subscribes)

(* Connections subscribe one by one, so there are finitely many at a time. *)
LEMMA SubsFinite == TmplSpec => []FiniteSubs
<1>1. TmplInit => FiniteSubs
  BY FS_EmptySet DEF TmplInit, FiniteSubs
<1>2. FiniteSubs /\ [TmplNext]_tmplVars => FiniteSubs'
  <2> SUFFICES ASSUME FiniteSubs, [TmplNext]_tmplVars PROVE FiniteSubs'
    OBVIOUS
  <2>1. ASSUME NEW c, on_subscribe(c) \/ on_unsubscribe(c)
                \/ UNCHANGED <<subscribes, new_subscribes>>
        PROVE  FiniteSubs'
    <3>1. /\ IsFiniteSet(subscribes \cup {c}) /\ IsFiniteSet(new_subscribes \cup {c})
          /\ IsFiniteSet(subscribes \ {c}) /\ IsFiniteSet(new_subscribes \ {c})
      BY FS_AddElement, FS_RemoveElement DEF FiniteSubs
    <3>2. QED
      BY <2>1, <3>1 DEF FiniteSubs, on_subscribe, on_unsubscribe
  <2>2. CASE ServerNext
    BY <2>1, <2>2 DEF ServerNext, add_connection, remove_connection,
       is_subed_first, is_subed_second, subscribe_finish, join
  <2>3. CASE Swap
    BY <2>3, FS_Union, FS_EmptySet DEF Swap, swap_new_subscribes, FiniteSubs
  <2>4. QED
    BY <2>1, <2>2, <2>3 DEF TmplNext, tmplVars
<1>3. QED
  BY <1>1, <1>2, PTL DEF TmplSpec

(* A step of the thread outside the wait.                                  *)
Outside ==
  /\ pc \notin {"set_send", "wait"}
  /\ UNCHANGED <<tx_video, wire, closing, notifier>>
  /\ lax => lax'
  /\ send_conn_ids' = send_conn_ids \/ send_conn_ids' = {}
  /\ fetched_conn_ids' = {} \/ (pc # "after" /\ UNCHANGED fetched_conn_ids)

(* Between waits nothing is underway and no acknowledgement is left: such  *)
(* a step keeps it so.                                                     *)
LEMMA OutsideKeeps == FlowInv /\ Outside => FlowInv'
<1> SUFFICES ASSUME FlowInv, Outside, ~lax' PROVE Queues' /\ Acks' /\ closing' = {}
  BY DEF FlowInv
<1> USE DEF Outside
<1>1. Queues /\ Acks /\ closing = {}
  BY DEF FlowInv
<1>2. notifier = {} /\ notifier' = {} /\ fetched_conn_ids' = {}
  BY <1>1 DEF Acks
<1>3. IsFiniteSet(send_conn_ids')
  BY <1>1, FS_EmptySet DEF Acks
<1>4. QED
  BY <1>1, <1>2, <1>3 DEF Queues, Acks, Underway

(* All steps of the thread but sending and waiting are of that kind.       *)
LEMMA ThreadOutside ==
  ASSUME Thread, ~EncodeSend, ~set_send, ~WaitFetched, ~WaitTimeout,
         ~(SomethingChanged /\ pc = "wait")
  PROVE  Outside
<1> USE DEF Outside, Leave, Stay, Goto, Quiet, connVars, ackVars
<1>1. CASE RunActive
  BY <1>1 DEF RunActive
<1>2. CASE RunHasSubscribes
  BY <1>2 DEF RunHasSubscribes
<1>3. CASE GetCapturerFails
  BY <1>3 DEF GetCapturerFails
<1>4. CASE get_encoder_config
  BY <1>4 DEF get_encoder_config
<1>5. CASE set_fallback
  BY <1>5 DEF set_fallback
<1>6. CASE negotiated_codec
  BY <1>6 DEF negotiated_codec
<1>7. CASE EncoderNew
  BY <1>7 DEF EncoderNew
<1>8. CASE EncoderNewFails
  BY <1>8 DEF EncoderNewFails
<1>9. CASE ClearRefresh
  BY <1>9 DEF ClearRefresh
<1>10. CASE LoopOk
  BY <1>10 DEF LoopOk
<1>11. CASE CheckRefresh
  BY <1>11 DEF CheckRefresh
<1>12. CASE CheckCodec
  BY <1>12 DEF CheckCodec
<1>13. CASE NothingChanged
  BY <1>13 DEF NothingChanged
<1>14. CASE BroadcastSend
  BY <1>14 DEF BroadcastSend
<1>15. CASE BroadcastSnapshot
  BY <1>15 DEF BroadcastSnapshot
<1>16. CASE BroadcastSendNew
  BY <1>16 DEF BroadcastSendNew
<1>17. CASE BroadcastSwap
  BY <1>17 DEF BroadcastSwap
<1>18. CASE NoFrame
  BY <1>18 DEF NoFrame
<1>19. CASE FrameReady
  BY <1>19 DEF FrameReady
<1>20. CASE SnapshotCheck
  BY <1>20 DEF SnapshotCheck
<1>21. CASE SwapHasSubscribes
  BY <1>21 DEF SwapHasSubscribes
<1>22. CASE Promote
  BY <1>22 DEF Promote
<1>23. CASE EncodeFails
  BY <1>23 DEF EncodeFails
<1>24. CASE EncoderDisabled
  BY <1>24 DEF EncoderDisabled
<1>25. CASE AfterWait
  BY <1>25 DEF AfterWait
<1>26. CASE RaiiDrop
  BY <1>26 DEF RaiiDrop
<1>27. CASE SomethingChanged /\ pc # "wait"
  BY <1>27 DEF SomethingChanged
<1>28. QED
  BY <1>1, <1>2, <1>3, <1>4, <1>5, <1>6, <1>7, <1>8, <1>9, <1>10, <1>11,
     <1>12, <1>13, <1>14, <1>15, <1>16, <1>17, <1>18, <1>19, <1>20, <1>21,
     <1>22, <1>23, <1>24, <1>25, <1>26, <1>27
     DEF Thread, ThreadStep

(* Numbers of frames of which there is at most one.                        *)
LEMMA AtMostOne ==
  /\ \A m \in {0, 1}, n \in {0} : m + n <= 1
  /\ \A m, n \in Nat : m + n <= 1 /\ m # 0 => m = 1 /\ n = 0
  /\ \A m, n \in Nat : m + n <= 1 => n + m <= 1
  OBVIOUS

(* A queue in which nothing waits stays empty when its frames age.         *)
LEMMA AgedEmpty ==
  ASSUME NEW q, q = <<>>
  PROVE  Aged(q) = <<>>
  BY DEF Aged

(* The frame is sent to subscribers none of which has one underway.        *)
LEMMA SendFlow ==
  ASSUME FlowInv, FiniteSubs, EncodeSend
  PROVE  FlowInv'
<1> SUFFICES ASSUME ~lax' PROVE Queues' /\ Acks' /\ closing' = {}
  BY DEF FlowInv
<1>1. /\ ~lax /\ pc = "encode" /\ pc' = "set_send" /\ closing' = closing
      /\ send_conn_ids' = subscribes /\ UNCHANGED <<notifier, fetched_conn_ids>>
      /\ tx_video' = [c \in Conn |-> IF c \in Receivers THEN Append(Aged(tx_video[c]), "cur")
                                     ELSE Aged(tx_video[c])]
      /\ wire' = [c \in Conn |-> Aged(wire[c])]
  BY DEF EncodeSend
<1>2. Queues /\ Acks /\ closing = {}
  BY <1>1 DEF FlowInv
<1>3. /\ notifier = {} /\ fetched_conn_ids = {}
      /\ \A c \in Conn : tx_video[c] = <<>> /\ wire[c] = <<>>
  BY <1>1, <1>2 DEF Acks, Underway
<1>4. \A c \in Conn : /\ wire'[c] = <<>>
                      /\ tx_video'[c] = IF c \in subscribes THEN <<"cur">> ELSE <<>>
  <2>1. \A c \in Conn : Aged(tx_video[c]) = <<>> /\ Aged(wire[c]) = <<>>
    BY <1>3, AgedEmpty
  <2>2. Append(<<>>, "cur") = <<"cur">>
    OBVIOUS
  <2>3. QED
    BY <1>1, <1>2, <2>1, <2>2 DEF Receivers
<1>5. Queues'
  <2>1. /\ <<>> \in Seq({"cur", "old"}) /\ <<"cur">> \in Seq({"cur", "old"})
        /\ Len(<<>>) = 0 /\ Len(<<"cur">>) = 1
    OBVIOUS
  <2>2. /\ tx_video' \in [Conn -> Seq({"cur", "old"})]
        /\ wire' \in [Conn -> Seq({"cur", "old"})]
    BY <1>1, <1>4, <2>1
  <2>3. \A c \in Conn : Len(tx_video'[c]) + Len(wire'[c]) <= 1
    <3>1. \A c \in Conn : Len(tx_video'[c]) \in {0, 1} /\ Len(wire'[c]) = 0
      BY <1>4, <2>1
    <3>2. QED
      BY <3>1, AtMostOne
  <2>4. QED
    BY <2>2, <2>3 DEF Queues
<1>6. Acks'
  <2>1. \A c \in Conn : Underway(c)' => c \in subscribes
    BY <1>4 DEF Underway
  <2>2. IsFiniteSet(send_conn_ids')
    BY <1>1 DEF FiniteSubs
  <2>3. QED
    BY <1>1, <1>3, <2>1, <2>2 DEF Acks
<1>7. QED
  BY <1>1, <1>2, <1>5, <1>6

(* The wait: it ends when as many connections as were sent the frame have  *)
(* acknowledged it, hence all of them.                                     *)
LEMMA WaitFlow ==
  ASSUME FlowInv, set_send \/ WaitFetched \/ WaitTimeout
                  \/ (SomethingChanged /\ pc = "wait")
  PROVE  FlowInv'
<1> SUFFICES ASSUME ~lax' PROVE Queues' /\ Acks' /\ closing' = {}
  BY DEF FlowInv
<1>1. CASE set_send
  <2>1. /\ ~lax /\ pc = "set_send" /\ pc' = "wait" /\ fetched_conn_ids' = {}
        /\ UNCHANGED <<tx_video, wire, closing, notifier, send_conn_ids>>
    BY <1>1 DEF set_send, Goto, Quiet, connVars
  <2>2. Queues /\ Acks /\ closing = {}
    BY <2>1 DEF FlowInv
  <2>3. QED
    BY <2>1, <2>2 DEF Queues, Acks, Underway
<1>2. CASE WaitFetched
  <2>1. /\ ~lax /\ pc = "wait" /\ UNCHANGED <<tx_video, wire, closing, send_conn_ids>>
        /\ pc' = IF Enough(fetched_conn_ids') THEN "after" ELSE "wait"
        /\ fetched_conn_ids' = IF send_conn_ids = {} THEN fetched_conn_ids
                               ELSE fetched_conn_ids \cup notifier
        /\ notifier' = IF send_conn_ids = {} THEN notifier ELSE {}
    BY <1>2 DEF WaitFetched, Goto, Quiet, connVars
  <2>2. Queues /\ Acks /\ closing = {}
    BY <2>1 DEF FlowInv
  <2>3. notifier' = {} /\ fetched_conn_ids' = fetched_conn_ids \cup notifier
    BY <2>1, <2>2 DEF Acks
  <2>4. fetched_conn_ids' \subseteq send_conn_ids /\ IsFiniteSet(send_conn_ids)
    BY <2>2, <2>3 DEF Acks
  <2>5. pc' = "after" => fetched_conn_ids' = send_conn_ids
    <3>1. /\ Cardinality(fetched_conn_ids') <= Cardinality(send_conn_ids)
          /\ Cardinality(send_conn_ids) = Cardinality(fetched_conn_ids')
               => send_conn_ids = fetched_conn_ids'
          /\ IsFiniteSet(fetched_conn_ids')
      BY <2>4, FS_Subset
    <3>2. Cardinality(fetched_conn_ids') \in Nat /\ Cardinality(send_conn_ids) \in Nat
      BY <2>4, <3>1, FS_CardinalityType
    <3>3. QED
      BY <2>1, <3>1, <3>2 DEF Enough
  <2>6. \A c \in Conn : Underway(c)' => /\ c \in send_conn_ids
                                        /\ c \notin fetched_conn_ids'
    BY <2>1, <2>2, <2>3 DEF Acks, Underway
  <2>7. Acks'
    BY <2>1, <2>3, <2>4, <2>5, <2>6 DEF Acks
  <2>8. QED
    BY <2>1, <2>2, <2>7 DEF Queues
<1>3. CASE WaitTimeout
  BY <1>3 DEF WaitTimeout
<1>4. CASE SomethingChanged /\ pc = "wait"
  BY <1>4 DEF SomethingChanged
<1>5. QED
  BY <1>1, <1>2, <1>3, <1>4

(* Of two queues with one frame between them, one is empty.                *)
LEMMA OneFrame ==
  ASSUME NEW S, NEW p \in Seq(S), NEW q \in Seq(S), Len(p) + Len(q) <= 1, p # <<>>
  PROVE  q = <<>> /\ Tail(p) = <<>>
<1>1. Len(p) \in Nat /\ Len(q) \in Nat /\ Len(p) # 0
  BY EmptySeq, LenProperties
<1>2. Len(p) = 1 /\ Len(q) = 0
  BY <1>1, AtMostOne
<1>3. Tail(p) \in Seq(S) /\ Len(Tail(p)) = 0
  BY <1>2, HeadTailProperties
<1>4. QED
  BY <1>2, <1>3, EmptySeq

(* A connection takes its frame and acknowledges it, once.                 *)
LEMMA FetchFlow ==
  ASSUME FlowInv, NEW c \in Conn, FetchFrame(c) \/ VideoReceived(c)
  PROVE  FlowInv'
<1> SUFFICES ASSUME ~lax' PROVE Queues' /\ Acks' /\ closing' = {}
  BY DEF FlowInv
<1>1. ~lax /\ UNCHANGED <<pc, closing, send_conn_ids, fetched_conn_ids>>
  BY DEF FetchFrame, VideoReceived
<1>2. Queues /\ Acks /\ closing = {}
  BY <1>1 DEF FlowInv
<1>3. /\ tx_video[c] \in Seq({"cur", "old"}) /\ wire[c] \in Seq({"cur", "old"})
      /\ Len(tx_video[c]) + Len(wire[c]) <= 1
  BY <1>2 DEF Queues
<1>4. Underway(c) /\ Len(wire[c]) + Len(tx_video[c]) <= 1
  <2>1. Len(tx_video[c]) \in Nat /\ Len(wire[c]) \in Nat
    BY <1>3, LenProperties
  <2>2. QED
    BY <1>3, <2>1, AtMostOne DEF FetchFrame, VideoReceived, Underway
<1>5. /\ pc \in {"set_send", "wait"} /\ c \in send_conn_ids
      /\ c \notin notifier \cup fetched_conn_ids
  BY <1>2, <1>4 DEF Acks
<1>6. CASE FetchFrame(c)
  <2>1. tx_video[c] # <<>> /\ wire[c] = <<>> /\ Tail(tx_video[c]) = <<>>
    BY <1>3, <1>6, OneFrame DEF FetchFrame
  <2>2. CASE c \in WebConn
    <3>1. /\ tx_video' = [tx_video EXCEPT ![c] = <<>>] /\ notifier' = notifier
          /\ wire' = [wire EXCEPT ![c] = Append(<<>>, Head(tx_video[c]))]
      BY <1>6, <2>1, <2>2 DEF FetchFrame
    <3>2. Append(<<>>, Head(tx_video[c])) \in Seq({"cur", "old"})
          /\ Len(Append(<<>>, Head(tx_video[c]))) = 1
      BY <1>3, <2>1
    <3>3. Queues'
      BY <1>2, <3>1, <3>2 DEF Queues
    <3>4. \A x \in Conn : Underway(x)' => Underway(x)
      BY <1>2, <1>4, <3>1 DEF Queues, Underway
    <3>5. QED
      BY <1>1, <1>2, <3>1, <3>3, <3>4 DEF Acks
  <2>3. CASE c \notin WebConn
    <3>1. /\ tx_video' = [tx_video EXCEPT ![c] = <<>>] /\ wire' = wire
          /\ notifier' = notifier \cup {c}
      BY <1>6, <2>1, <2>3 DEF FetchFrame
    <3>2. Queues'
      BY <1>2, <2>1, <3>1 DEF Queues
    <3>3. \A x \in Conn : Underway(x)' => Underway(x) /\ x # c
      BY <1>2, <2>1, <3>1 DEF Queues, Underway
    <3>4. QED
      BY <1>1, <1>2, <1>5, <3>1, <3>2, <3>3 DEF Acks
  <2>4. QED
    BY <2>2, <2>3
<1>7. CASE VideoReceived(c)
  <2>1. wire[c] # <<>> /\ tx_video[c] = <<>> /\ Tail(wire[c]) = <<>>
    BY <1>3, <1>4, <1>7, OneFrame DEF VideoReceived
  <2>2. /\ wire' = [wire EXCEPT ![c] = <<>>] /\ tx_video' = tx_video
        /\ notifier' = notifier \/ notifier' = notifier \cup {c}
    BY <1>7, <2>1 DEF VideoReceived, notify_by_conn_id
  <2>3. Queues'
    BY <1>2, <2>1, <2>2 DEF Queues
  <2>4. \A x \in Conn : Underway(x)' => Underway(x) /\ x # c
    BY <1>2, <2>1, <2>2 DEF Queues, Underway
  <2>5. QED
    BY <1>1, <1>2, <1>5, <2>2, <2>3, <2>4 DEF Acks
<1>8. QED
  BY <1>6, <1>7

(* The invariant of the flow control holds of every behaviour.             *)
THEOREM FlowInvariant == Spec => []FlowInv
<1>1. Init => FlowInv
  <2>1. ASSUME Init PROVE Queues /\ Acks /\ closing = {}
    <3>1. <<>> \in Seq({"cur", "old"}) /\ Len(<<>>) = 0
      OBVIOUS
    <3>2. QED
      BY <2>1, <3>1, FS_EmptySet DEF Init, Queues, Acks, Underway
  <2>2. QED
    BY <2>1 DEF FlowInv
<1>2. FlowInv /\ FiniteSubs /\ [Next]_vars => FlowInv'
  <2> SUFFICES ASSUME FlowInv, FiniteSubs, [Next]_vars PROVE FlowInv'
    OBVIOUS
  <2>1. CASE Thread
    <3>1. CASE Outside
      BY <3>1, OutsideKeeps
    <3>2. CASE EncodeSend
      BY <3>2, SendFlow
    <3>3. CASE set_send \/ WaitFetched \/ WaitTimeout \/ (SomethingChanged /\ pc = "wait")
      BY <3>3, WaitFlow
    <3>4. QED
      BY <2>1, <3>1, <3>2, <3>3, ThreadOutside
  <2>2. ASSUME NEW c \in Conn, FetchFrame(c) \/ VideoReceived(c) PROVE FlowInv'
    BY <2>2, FetchFlow
  <2>3. ASSUME NEW c \in Conn, CloseLoop(c) PROVE FlowInv'
    BY <2>3 DEF CloseLoop, FlowInv
  <2>4. ASSUME UNCHANGED <<pc, tx_video, wire, closing, ackVars>>, lax => lax'
        PROVE  FlowInv'
    BY <2>4 DEF FlowInv, Queues, Acks, Underway, ackVars
  <2>5. ASSUME NEW c \in Conn, RefreshVideo(c) PROVE FlowInv'
    BY <2>4, <2>5 DEF RefreshVideo
  <2>6. CASE EncoderUpdate
    BY <2>4, <2>6 DEF EncoderUpdate
  <2>7. CASE ServerStep
    BY <2>4, <2>7 DEF ServerStep
  <2>8. CASE UNCHANGED vars
    BY <2>4, <2>8 DEF vars, vidVars, connVars, histVars
  <2>9. QED
    BY <2>1, <2>2, <2>3, <2>5, <2>6, <2>7, <2>8 DEF Next, Connection
<1>3. QED
  BY <1>1, <1>2, VideoImplementsTmpl, SubsFinite, PTL DEF Spec

(* The wait of VideoFrameController is a window of one frame per           *)
(* connection, as long as every wait ended with its acknowledgements and   *)
(* nobody left: whoever joins, and however fetches, acknowledgements of    *)
(* web clients and renegotiations are interleaved with it.                 *)
THEOREM FlowIsControlled == Spec => []FlowControlled
<1>1. FlowInv => FlowControlled
  BY DEF FlowInv, Queues, FlowControlled
<1>2. QED
  BY <1>1, FlowInvariant, PTL
=============================================================================
