-------------------------- MODULE CodecNegotiation --------------------------
(***************************************************************************)
(* ENCODE_CODEC_FORMAT (codec.rs) and the displays that share it. Every    *)
(* connection announces what it can decode and what it prefers;            *)
(* Encoder::update chooses one format for all. Each display's video        *)
(* service reads it, may overwrite it with what its encoder can do         *)
(* (set_fallback), and starts again when it differs from its own. On       *)
(* Windows encoders that read textures (vram) come and go with the         *)
(* capturer of every display.                                              *)
(***************************************************************************)
EXTENDS FiniteSets, Naturals

CONSTANTS
  Conn,         \* authorized connections that may come and go
  Display,      \* displays whose video service runs
  Adapter,      \* [Display -> graphics adapter]
  GdiDisplay,   \* displays captured without textures from the start (camera, portable service)
  Ram,          \* formats with a hardware encoder for frames in memory
  VRam,         \* pairs <<adapter, format>> with an encoder for textures
  LowMemory,    \* total_memory <= 4 GB
  AV1Slow,      \* option av1-test is "N"
  Announced,    \* what a connection may announce: records [can, prefer]
  MaxEvents     \* bound: announcements, capturers that fall back, screenshots

Codec == {"VP8", "VP9", "AV1", "H264", "H265"}
Hardware == {"H264", "H265"}

ASSUME CodecAssumption ==
  /\ Announced \subseteq [can : SUBSET Codec, prefer : Codec \cup {"Auto"}]
  /\ GdiDisplay \subseteq Display /\ Ram \subseteq Hardware
  /\ LowMemory \in BOOLEAN /\ AV1Slow \in BOOLEAN /\ MaxEvents \in Nat

VARIABLES
  decodings,    \* PEER_DECODINGS: [subset of Conn -> Announced]
  format,       \* ENCODE_CODEC_FORMAT
  ram,          \* HwCodecConfig.ram_encode
  vram,         \* HwCodecConfig.vram_encode
  not_use,      \* displays with ENOCDE_NOT_USE set
  fallback_gdi, \* FALLBACK_GDI_DISPLAYS
  pc,           \* [Display -> place in run]
  gdi,          \* [Display -> BOOLEAN]: the capturer is GDI
  fresh,        \* [Display -> BOOLEAN]: try_gdi = 1
  try_vram,     \* [Display -> BOOLEAN]: Raii.try_vram
  cfg,          \* [Display -> [kind, fmt]]: encoder_cfg
  codec,        \* [Display -> Codec]: codec_format
  retry,        \* [Display -> BOOLEAN]: setup_encoder is called again after a failure
  shot,         \* [Display -> "none", "asked" or "restore"]: SCREENSHOTS
  events,       \* number of events so far
  \* History.
  old,          \* displays that read a format of an earlier announcement
  replaced,     \* displays whose waiting screenshot was replaced before vram was restored
  overwritten   \* such a display has put its format in place of a newer one

conns == <<decodings>>
config == <<ram, vram, not_use, fallback_gdi>>
local == <<pc, gdi, fresh, try_vram, cfg, codec, retry, shot>>
vars == <<conns, format, config, local, events, old, replaced, overwritten>>

-----------------------------------------------------------------------------
(* Encoder::update.                                                        *)

AllCan(dec, f) == DOMAIN dec # {} /\ \A c \in DOMAIN dec : f \in dec[c].can

\* A mutant: one adapter with an encoder is enough.
available_anywhere(f, rm, vr, nu, fb) ==
  IF fb # {} \/ nu # {} THEN {} ELSE {a \in {p[1] : p \in vr} : <<a, f>> \in vr}

\* VRamEncoder::available: without a fallback in memory, every display's adapter
\* must have an encoder.
available(f, rm, vr, nu, fb) ==
  IF fb # {} \/ nu # {} THEN {}
  ELSE LET v == {a \in {p[1] : p \in vr} : <<a, f>> \in vr} IN
       IF f \in rm \/ \A d \in Display : Adapter[d] \in v THEN v ELSE {}

Usable(dec, rm, vr, nu, fb) ==
  {f \in Codec \ {"VP9"} : /\ AllCan(dec, f)
                           /\ f \in Hardware => f \in rm \/ available(f, rm, vr, nu, fb) # {}}

\* auto: h265 > h264 > av1/vp9/vp8
auto_codec(u) ==
  IF "H265" \in u THEN "H265"
  ELSE IF "H264" \in u THEN "H264"
  ELSE IF "VP8" \in u /\ LowMemory THEN "VP8"
  ELSE IF "AV1" \in u /\ ~AV1Slow THEN "AV1" ELSE "VP9"

Votes(dec, f) == Cardinality({c \in DOMAIN dec : dec[c].prefer = f})

\* A mutant: every preference counts, usable or not.
choices_any_preference(dec, u) ==
  LET wanted == {f \in Codec : Votes(dec, f) > 0}
      top == {f \in wanted : \A g \in wanted : Votes(dec, g) <= Votes(dec, f)}
  IN IF top = {} THEN {auto_codec(u)} ELSE top

\* A mutant: the preference "Auto" is not replaced by a format.
choices_auto_kept(dec, u) ==
  LET wanted == {f \in u \cup {"VP9"} : Votes(dec, f) > 0}
      top == {f \in wanted : \A g \in wanted : Votes(dec, g) <= Votes(dec, f)}
  IN IF top = {} THEN {"Auto"} ELSE top

\* The most frequent usable preference; the order of a HashMap decides a tie.
choices(dec, u) ==
  LET wanted == {f \in u \cup {"VP9"} : Votes(dec, f) > 0}
      top == {f \in wanted : \A g \in wanted : Votes(dec, g) <= Votes(dec, f)}
  IN IF top = {} THEN {auto_codec(u)} ELSE top

\* update with the given peers and hardware; it holds both locks.
update(dec, rm, vr, nu, fb) ==
  /\ format' \in choices(dec, Usable(dec, rm, vr, nu, fb))
  /\ overwritten' = FALSE

Check(rm, vr, nu, fb) == update(decodings, rm, vr, nu, fb)

Init ==
  /\ decodings = << >> /\ format = "VP9"
  /\ ram = Ram /\ vram = VRam /\ not_use = {} /\ fallback_gdi = {}
  /\ pc = [d \in Display |-> "start"]
  /\ gdi = [d \in Display |-> FALSE] /\ fresh = [d \in Display |-> FALSE]
  /\ try_vram = [d \in Display |-> TRUE]
  /\ cfg = [d \in Display |-> [kind |-> "soft", fmt |-> "VP9"]]
  /\ codec = [d \in Display |-> "VP9"]
  /\ retry = [d \in Display |-> FALSE]
  /\ shot = [d \in Display |-> "none"]
  /\ events = 0 /\ old = {} /\ replaced = {} /\ overwritten = FALSE

-----------------------------------------------------------------------------
(* Connections.                                                            *)

Announce(dec) ==
  /\ events < MaxEvents /\ events' = events + 1
  /\ decodings' = dec
  /\ update(dec, ram, vram, not_use, fallback_gdi)
  /\ old' = {d \in Display : pc[d] \in {"try", "fallback"}}
  /\ UNCHANGED <<config, local, replaced>>

\* update_codec_on_login, update_options: Update and NewOnlyVP9.
Update(c, a) == Announce([x \in DOMAIN decodings \cup {c} |-> IF x = c THEN a ELSE decodings[x]])

\* Drop for AuthedConnID.
Remove(c) ==
  /\ c \in DOMAIN decodings
  /\ Announce([x \in DOMAIN decodings \ {c} |-> decodings[x]])

\* A request replaces one that waits, and with it its note to restore vram.
TakeScreenshot(d) ==
  /\ events < MaxEvents /\ events' = events + 1
  /\ shot' = [shot EXCEPT ![d] = "asked"]
  /\ replaced' = IF shot[d] = "restore" THEN replaced \cup {d} ELSE replaced
  /\ UNCHANGED <<conns, format, config, pc, gdi, fresh, try_vram, cfg, codec, retry, old,
                 overwritten>>

-----------------------------------------------------------------------------
(* run of one display.                                                     *)

Goto(d, there) == pc' = [pc EXCEPT ![d] = there]

\* Raii::new and get_capturer.
Start(d) ==
  /\ pc[d] = "start" /\ Goto(d, "config")
  /\ gdi' = [gdi EXCEPT ![d] = d \in GdiDisplay]
  /\ fresh' = [fresh EXCEPT ![d] = TRUE]
  /\ try_vram' = [try_vram EXCEPT ![d] = TRUE]
  /\ retry' = [retry EXCEPT ![d] = FALSE]
  /\ UNCHANGED <<conns, format, config, cfg, codec, shot, events, replaced, old,
                 overwritten>>

\* get_encoder_config: a display without textures stops the others' use of them.
SetNotUse(d) ==
  /\ pc[d] = "config" /\ Goto(d, "check")
  /\ not_use' = IF gdi[d] THEN not_use \cup {d} ELSE not_use
  /\ UNCHANGED <<conns, format, ram, vram, fallback_gdi, gdi, fresh, try_vram, cfg, codec,
                 retry, shot, events, replaced, old, overwritten>>

ConfigCheck(d) ==
  /\ pc[d] = "check" /\ Goto(d, "read")
  /\ Check(ram, vram, not_use, fallback_gdi)
  /\ UNCHANGED <<conns, config, gdi, fresh, try_vram, cfg, codec, retry, shot, events,
                 replaced, old>>

ReadNegotiated(d) ==
  /\ pc[d] = "read" /\ Goto(d, "try")
  /\ cfg' = [cfg EXCEPT ![d] = [kind |-> "none", fmt |-> format]]
  /\ old' = IF overwritten THEN old \cup {d} ELSE old \ {d}
  /\ UNCHANGED <<conns, format, config, gdi, fresh, try_vram, codec, retry, shot, events,
                 replaced, overwritten>>

EncoderFor(d, f) ==
  IF f \notin Hardware THEN [kind |-> "soft", fmt |-> f]
  ELSE IF Adapter[d] \in available(f, ram, vram, not_use, fallback_gdi)
       THEN [kind |-> "vram", fmt |-> f]
  ELSE IF f \in ram THEN [kind |-> "ram", fmt |-> f]
  ELSE [kind |-> "soft", fmt |-> "VP9"]

TryGet(d) ==
  /\ pc[d] = "try" /\ Goto(d, "fallback")
  /\ cfg' = [cfg EXCEPT ![d] = EncoderFor(d, cfg[d].fmt)]
  /\ UNCHANGED <<conns, format, config, gdi, fresh, try_vram, codec, retry, shot, events,
                 replaced, old, overwritten>>

set_fallback(d) ==
  /\ pc[d] = "fallback" /\ Goto(d, "negotiated")
  /\ format' = cfg[d].fmt
  /\ overwritten' = (overwritten \/ (d \in old /\ format # cfg[d].fmt))
  /\ UNCHANGED <<conns, config, gdi, fresh, try_vram, cfg, codec, retry, shot, events,
                 replaced, old>>

ReadFormat(d) ==
  /\ pc[d] = "negotiated" /\ Goto(d, "new")
  /\ codec' = [codec EXCEPT ![d] = format]
  /\ UNCHANGED <<conns, format, config, gdi, fresh, try_vram, cfg, retry, shot, events,
                 replaced, old, overwritten>>

EncoderNew(d) ==
  /\ pc[d] = "new" /\ Goto(d, "loop")
  /\ UNCHANGED <<conns, format, config, gdi, fresh, try_vram, cfg, codec, retry, shot,
                 events, replaced, old, overwritten>>

\* HwCodecConfig::clear for the kind of the display's encoder.
clear(d) ==
  LET rm == IF cfg[d].kind = "ram" THEN {} ELSE ram
      vr == IF cfg[d].kind = "vram" THEN {} ELSE vram
  IN /\ ram' = rm /\ vram' = vr
     /\ Check(rm, vr, not_use, fallback_gdi)
     /\ UNCHANGED <<not_use, fallback_gdi>>

\* Encoder::new fails: clear, then VP9, then once more from the configuration.
EncoderNewFails(d) ==
  /\ pc[d] = "new" /\ cfg[d].kind # "soft" /\ Goto(d, "failed")
  /\ clear(d)
  /\ UNCHANGED <<conns, gdi, fresh, try_vram, cfg, codec, retry, shot, events, replaced,
                 old>>

FallbackToVP9(d) ==
  /\ pc[d] = "failed" /\ Goto(d, IF retry[d] THEN "drop" ELSE "config")
  /\ format' = "VP9"
  /\ retry' = [retry EXCEPT ![d] = TRUE]
  /\ UNCHANGED <<conns, config, gdi, fresh, try_vram, cfg, codec, shot, events, replaced,
                 old, overwritten>>

\* bail!("SWITCH")
Switch(d) == pc[d] = "loop" /\ Goto(d, "drop")

CodecChanged(d) ==
  /\ Switch(d) /\ codec[d] # format
  /\ UNCHANGED <<conns, format, config, gdi, fresh, try_vram, cfg, codec, retry, shot,
                 events, replaced, old, overwritten>>

InLoop(d) == pc[d] = "loop" /\ codec[d] = format

\* The capturer falls back to GDI after an error or without images.
SetGdi(d) ==
  /\ InLoop(d) /\ ~gdi[d] /\ events < MaxEvents /\ events' = events + 1
  /\ gdi' = [gdi EXCEPT ![d] = TRUE]
  /\ UNCHANGED <<conns, replaced, format, config, pc, fresh, try_vram, cfg, codec, retry,
                 shot, old, overwritten>>

GdiWithVram(d) ==
  /\ Switch(d) /\ InLoop(d) /\ gdi[d] /\ cfg[d].kind = "vram"
  /\ fallback_gdi' = fallback_gdi \cup {d}
  /\ UNCHANGED <<conns, format, ram, vram, not_use, gdi, fresh, try_vram, cfg, codec,
                 retry, shot, events, replaced, old, overwritten>>

\* encoder.disable() after too many failures of a hardware encoder.
EncodeFails(d) ==
  /\ Switch(d) /\ InLoop(d) /\ cfg[d].kind # "soft"
  /\ clear(d)
  /\ UNCHANGED <<conns, gdi, fresh, try_vram, cfg, codec, retry, shot, events, replaced,
                 old>>

\* The first capture has an image: DXGI works.
FirstFrame(d) ==
  /\ InLoop(d) /\ fresh[d] /\ shot[d] = "none"
  /\ fresh' = [fresh EXCEPT ![d] = FALSE]
  /\ fallback_gdi' = IF gdi[d] THEN fallback_gdi ELSE fallback_gdi \ {d}
  /\ UNCHANGED <<conns, format, ram, vram, not_use, pc, gdi, try_vram, cfg, codec, retry,
                 shot, events, replaced, old, overwritten>>

WouldBlock(d) ==
  /\ InLoop(d) /\ fresh[d]
  /\ fresh' = [fresh EXCEPT ![d] = FALSE]
  /\ UNCHANGED <<conns, format, config, pc, gdi, try_vram, cfg, codec, retry, shot,
                 events, replaced, old, overwritten>>

\* A mutant: Raii gives the textures back although the screenshot still needs memory.
ScreenshotTextureRestoring(d) ==
  /\ Switch(d) /\ InLoop(d) /\ shot[d] = "asked" /\ cfg[d].kind = "vram"
  /\ shot' = [shot EXCEPT ![d] = "asked"]
  /\ not_use' = not_use \cup {d}
  /\ UNCHANGED <<conns, format, ram, vram, fallback_gdi, gdi, fresh, try_vram, cfg, codec,
                 retry, events, replaced, old, overwritten>>

\* A screenshot of a texture: without vram, and once more.
ScreenshotTexture(d) ==
  /\ Switch(d) /\ InLoop(d) /\ shot[d] = "asked" /\ cfg[d].kind = "vram"
  /\ shot' = [shot EXCEPT ![d] = "restore"]
  /\ not_use' = not_use \cup {d}
  /\ try_vram' = [try_vram EXCEPT ![d] = FALSE]
  /\ UNCHANGED <<conns, format, ram, vram, fallback_gdi, gdi, fresh, cfg, codec, retry,
                 events, replaced, old, overwritten>>

\* A mutant: goes on without starting again.
ScreenshotGoesOn(d) ==
  /\ InLoop(d) /\ shot[d] # "none" /\ (cfg[d].kind = "vram" => shot[d] = "restore")
  /\ shot' = [shot EXCEPT ![d] = "none"]
  /\ UNCHANGED <<conns, format, config, pc, gdi, fresh, try_vram, cfg, codec, retry,
                 events, replaced, old, overwritten>>

\* Otherwise it is taken; one that gave up vram starts again to restore it.
Screenshot(d) ==
  /\ InLoop(d) /\ shot[d] # "none" /\ (cfg[d].kind = "vram" => shot[d] = "restore")
  /\ shot' = [shot EXCEPT ![d] = "none"]
  /\ IF shot[d] = "restore" THEN Goto(d, "drop") ELSE UNCHANGED pc
  /\ UNCHANGED <<conns, format, config, gdi, fresh, try_vram, cfg, codec, retry, events,
                 replaced, old, overwritten>>

\* Drop for Raii.
RaiiDrop(d) ==
  /\ pc[d] = "drop" /\ Goto(d, "recheck")
  /\ not_use' = IF try_vram[d] THEN not_use \ {d} ELSE not_use
  /\ replaced' = IF try_vram[d] THEN replaced \ {d} ELSE replaced
  /\ UNCHANGED <<conns, format, ram, vram, fallback_gdi, gdi, fresh, try_vram, cfg, codec,
                 retry, shot, events, old, overwritten>>

RaiiCheck(d) ==
  /\ pc[d] = "recheck" /\ Goto(d, "start")
  /\ Check(ram, vram, not_use, fallback_gdi)
  /\ UNCHANGED <<conns, config, gdi, fresh, try_vram, cfg, codec, retry, shot, events,
                 replaced, old>>

\* What the thread does unless hardware or the capturer fails.
Thread(d) ==
  \/ Start(d) \/ SetNotUse(d) \/ ConfigCheck(d) \/ ReadNegotiated(d) \/ TryGet(d)
  \/ set_fallback(d) \/ ReadFormat(d) \/ EncoderNew(d) \/ FallbackToVP9(d)
  \/ CodecChanged(d) \/ GdiWithVram(d) \/ ScreenshotTexture(d) \/ Screenshot(d)
  \/ RaiiDrop(d) \/ RaiiCheck(d)

Next ==
  \/ \E c \in Conn : Remove(c) \/ \E a \in Announced : Update(c, a)
  \/ \E d \in Display : \/ Thread(d) \/ TakeScreenshot(d) \/ SetGdi(d) \/ FirstFrame(d)
                        \/ WouldBlock(d) \/ EncoderNewFails(d) \/ EncodeFails(d)

Spec == Init /\ [][Next]_vars
FairSpec == Spec /\ \A d \in Display : WF_vars(Thread(d))

-----------------------------------------------------------------------------
Place == {"start", "config", "check", "read", "try", "fallback", "negotiated", "new",
          "failed", "loop", "drop", "recheck"}
Kind == {"none", "soft", "ram", "vram"}

TypeOK ==
  /\ format \in Codec /\ codec \in [Display -> Codec]
  /\ pc \in [Display -> Place] /\ cfg \in [Display -> [kind : Kind, fmt : Codec]]
  /\ DOMAIN decodings \subseteq Conn /\ \A c \in DOMAIN decodings : decodings[c] \in Announced
  /\ ram \subseteq Ram /\ vram \subseteq VRam
  /\ not_use \subseteq Display /\ fallback_gdi \subseteq Display /\ old \subseteq Display
  /\ overwritten \in BOOLEAN

\* What every connection can decode; VP9 is taken for granted.
Supported(f) == f = "VP9" \/ \A c \in DOMAIN decodings : f \in decodings[c].can

\* The format that the displays are to use is one that every connection announced,
\* whichever of them fall back, fail or start at the same time. The exception is a
\* display that read the format before an announcement and writes it after.
FormatSupported == ~overwritten => Supported(format)

\* The displays come to rest: with no more announcements and failures, their
\* fallbacks do not chase each other through the format they share.
CodecSettles == <>[](\A d \in Display : InLoop(d))

\* A screenshot of a display encoded from textures is taken in the end ...
ScreenshotTaken == \A d \in Display : []<>(shot[d] = "none")

\* ... and then the display no longer keeps the others from using textures, unless a
\* second request replaced the one that was to restore them.
VramRestored == <>[](not_use \subseteq {d \in Display : gdi[d]} \cup replaced)

\* What the client relies on when it reports a format as unsupported: no display
\* goes on encoding in a format that a connection announced it cannot decode.
UnsupportedNotPicked ==
  (\A d \in Display : InLoop(d) /\ cfg[d].fmt = format) => Supported(format)
=============================================================================
