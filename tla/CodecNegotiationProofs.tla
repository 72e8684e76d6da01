------------------------ MODULE CodecNegotiationProofs ------------------------
(***************************************************************************)
(* For any connections, displays, adapters and encoders, the format shared *)
(* by the displays is one that every connection announced.                 *)
(***************************************************************************)
EXTENDS CodecNegotiation, TLAPS

\* A display that goes to write the format it read has read it since the last
\* announcement, or is one of `old`.
ReadSupported ==
  \A d \in Display : pc[d] \in {"try", "fallback"} /\ d \notin old => Supported(cfg[d].fmt)

Shape ==
  /\ pc \in [Display -> Place] /\ cfg \in [Display -> [kind : Kind, fmt : Codec]]
  /\ format \in Codec

NegInv == Shape /\ FormatSupported /\ ReadSupported

\* Encoder::update picks VP9 or a usable format.
LEMMA ChoiceUsable ==
  ASSUME NEW dec, NEW u, NEW f \in choices(dec, u)
  PROVE  f \in u \cup {"VP9"}
BY DEF choices, auto_codec

\* Encoder::update leaves a format that all the peers it counted can decode.
LEMMA UpdateSupports ==
  ASSUME NEW dec, NEW rm, NEW vr, NEW nu, NEW fb,
         update(dec, rm, vr, nu, fb), decodings' = dec
  PROVE  Supported(format)' /\ format' \in Codec
<1>1. format' \in Usable(dec, rm, vr, nu, fb) \cup {"VP9"}
  BY ChoiceUsable DEF update
<1> QED
  BY <1>1 DEF Usable, AllCan, Supported, Codec

LEMMA NegInit == Init => NegInv
BY DEF Init, NegInv, Shape, FormatSupported, ReadSupported, Supported, Codec, Kind, Place

\* A step that changes neither the peers nor any display's place and configuration.
LEMMA FrameStep ==
  ASSUME NegInv, UNCHANGED <<decodings, format, overwritten, old, pc, cfg>>
  PROVE  NegInv'
BY DEF NegInv, Shape, FormatSupported, ReadSupported, Supported

\* A step that moves a display to a place where it holds no format it has read.
LEMMA MoveStep ==
  ASSUME NegInv, NEW d \in Display, NEW there \in Place \ {"try", "fallback"}, Goto(d, there),
         UNCHANGED <<decodings, format, overwritten, old, cfg>>
  PROVE  NegInv'
BY DEF NegInv, Shape, FormatSupported, ReadSupported, Supported, Goto

\* The same, with an Encoder::update.
LEMMA CheckStep ==
  ASSUME NegInv, NEW d \in Display, NEW there \in Place \ {"try", "fallback"}, Goto(d, there),
         NEW rm, NEW vr, NEW nu, NEW fb, Check(rm, vr, nu, fb),
         UNCHANGED <<decodings, old, cfg>>
  PROVE  NegInv'
<1>1. Supported(format)' /\ format' \in Codec
  BY UpdateSupports DEF Check
<1>2. Shape' /\ ReadSupported'
  BY <1>1 DEF NegInv, Shape, ReadSupported, Supported, Goto
<1> QED
  BY <1>1, <1>2 DEF NegInv, FormatSupported

LEMMA AnnounceStep ==
  ASSUME NegInv, NEW dec, Announce(dec)
  PROVE  NegInv'
<1>1. Supported(format)' /\ format' \in Codec
  BY UpdateSupports DEF Announce
<1>2. Shape' /\ ReadSupported'
  BY <1>1 DEF NegInv, Shape, ReadSupported, Announce, local
<1> QED
  BY <1>1, <1>2 DEF NegInv, FormatSupported

LEMMA ThreadStep ==
  ASSUME NegInv, NEW d \in Display,
         Thread(d) \/ TakeScreenshot(d) \/ SetGdi(d) \/ FirstFrame(d) \/ WouldBlock(d)
           \/ EncoderNewFails(d) \/ EncodeFails(d)
  PROVE  NegInv'
<1> USE DEF conns, config, Place
<1>1. CASE Start(d)
  BY <1>1, MoveStep DEF Start
<1>2. CASE SetNotUse(d)
  BY <1>2, MoveStep DEF SetNotUse
<1>3. CASE ConfigCheck(d)
  BY <1>3, CheckStep DEF ConfigCheck
<1>4. CASE ReadNegotiated(d)
  BY <1>4 DEF ReadNegotiated, NegInv, Shape, FormatSupported, ReadSupported, Supported, Goto, Kind
<1>5. CASE TryGet(d)
  <2>1. EncoderFor(d, cfg[d].fmt) \in [kind : Kind, fmt : Codec]
    BY DEF EncoderFor, NegInv, Shape, Kind, Codec
  <2>2. EncoderFor(d, cfg[d].fmt).fmt \in {cfg[d].fmt, "VP9"}
    BY DEF EncoderFor
  <2> QED
    BY <1>5, <2>1, <2>2
    DEF TryGet, NegInv, Shape, FormatSupported, ReadSupported, Supported, Goto
<1>6. CASE set_fallback(d)
  <2>1. cfg[d].fmt \in Codec
    BY DEF NegInv, Shape
  <2>2. Shape' /\ ReadSupported'
    BY <1>6, <2>1 DEF set_fallback, NegInv, Shape, ReadSupported, Supported, Goto
  <2>3. FormatSupported'
    BY <1>6 DEF set_fallback, NegInv, FormatSupported, ReadSupported, Supported
  <2> QED
    BY <2>2, <2>3 DEF NegInv
<1>7. CASE ReadFormat(d)
  BY <1>7, MoveStep DEF ReadFormat
<1>8. CASE EncoderNew(d)
  BY <1>8, MoveStep DEF EncoderNew
<1>9. CASE FallbackToVP9(d)
  BY <1>9 DEF FallbackToVP9, NegInv, Shape, FormatSupported, ReadSupported, Supported, Goto, Codec
<1>10. CASE CodecChanged(d) \/ GdiWithVram(d) \/ ScreenshotTexture(d)
  BY <1>10, MoveStep DEF CodecChanged, GdiWithVram, ScreenshotTexture, Switch
<1>11. CASE Screenshot(d)
  BY <1>11, MoveStep, FrameStep DEF Screenshot
<1>12. CASE RaiiDrop(d)
  BY <1>12, MoveStep DEF RaiiDrop
<1>13. CASE RaiiCheck(d)
  BY <1>13, CheckStep DEF RaiiCheck
<1>14. CASE TakeScreenshot(d) \/ SetGdi(d) \/ FirstFrame(d) \/ WouldBlock(d)
  BY <1>14, FrameStep DEF TakeScreenshot, SetGdi, FirstFrame, WouldBlock
<1>15. CASE EncoderNewFails(d)
  BY <1>15, CheckStep DEF EncoderNewFails, clear
<1>16. CASE EncodeFails(d)
  BY <1>16, CheckStep DEF EncodeFails, clear, Switch
<1> QED
  BY <1>1, <1>2, <1>3, <1>4, <1>5, <1>6, <1>7, <1>8, <1>9, <1>10, <1>11, <1>12, <1>13, <1>14,
     <1>15, <1>16 DEF Thread

\* The format the displays share is one that every connection announced (or VP9), for
\* any connections, displays, adapters and hardware, unless a display wrote what it
\* had read before an announcement (Encoder::update, Encoder::set_fallback).
THEOREM FormatAnnounced == Spec => []FormatSupported
<1>1. NegInv /\ [Next]_vars => NegInv'
  <2> SUFFICES ASSUME NegInv, [Next]_vars PROVE NegInv'
    OBVIOUS
  <2>1. CASE \E c \in Conn : Remove(c) \/ \E a \in Announced : Update(c, a)
    BY <2>1, AnnounceStep DEF Remove, Update
  <2>2. CASE UNCHANGED vars
    BY <2>2, FrameStep DEF vars, conns, local
  <2> QED
    BY <2>1, <2>2, ThreadStep DEF Next
<1>2. NegInv => FormatSupported
  BY DEF NegInv
<1> QED
  BY NegInit, <1>1, <1>2, PTL DEF Spec
=============================================================================
