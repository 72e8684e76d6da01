--------------------------- MODULE PortableCapture ---------------------------
(***************************************************************************)
(* The shared memory through which the portable service, a helper process  *)
(* with system rights on Windows, hands captured frames to the video       *)
(* service (portable_service.rs). There is no lock between the processes:  *)
(* a write counter and a read counter stand for a full and an empty        *)
(* buffer, and both sides write the capturer's parameters. Each read or    *)
(* write of a group of fields is one step. A cleared frame header is 0,    *)
(* any other one is the size of the frame's display.                       *)
(***************************************************************************)
EXTENDS Integers

CONSTANTS
  Display,      \* indices of displays
  Size,         \* [Display -> size], sizes are positive
  CounterMod,   \* i32::MAX + 1
  MAX_DXGI_FAIL_TIME,
  MaxRestarts,  \* bound: restarts of the video service that no error forces
  MaxTimeouts   \* bound: changes of the frame time

None == -1

VARIABLES
  \* Shared memory.
  recreate,     \* CapturerPara.recreate
  current,      \* CapturerPara.current_display
  info,         \* FrameInfo
  wouldblock,   \* ADDR_CAPTURE_WOULDBLOCK
  w, r,         \* ADDR_CAPTURE_FRAME_COUNTER
  \* run_capture, in the helper.
  hp,           \* place
  c,            \* display of the capturer, or None
  cd,           \* current_display, as read
  para,         \* the parameters about to be written back
  first,        \* first_frame_captured
  failed,       \* dxgi_failed_times
  gdi,          \* the capturer is GDI
  iw,           \* the write counter, as read
  \* CapturerPortable, in the video service.
  vp,           \* place
  want,         \* display of the capturer, or None
  size,         \* its size, 0 when the displays could not be listed
  back,         \* the parameters about to be written back
  got,          \* FrameInfo, as read
  restarts, timeouts,
  lost          \* history: the helper has written back an older display

mem == <<recreate, current, info, wouldblock, w, r>>
helper == <<hp, c, cd, para, first, failed, gdi, iw>>
service == <<vp, want, size, back, got, restarts, timeouts>>
vars == <<mem, helper, service, lost>>

Init ==
  /\ recreate = FALSE /\ current = 0 /\ info = 0 /\ wouldblock = FALSE /\ w = 0 /\ r = 0
  /\ hp = "para" /\ c = None /\ cd = 0 /\ para = 0
  /\ first = FALSE /\ failed = 0 /\ gdi = FALSE /\ iw = 0
  /\ vp = "none" /\ want = None /\ size = 0 /\ back = <<FALSE, 0>> /\ got = 0
  /\ restarts = 0 /\ timeouts = 0 /\ lost = FALSE

-----------------------------------------------------------------------------
(* run_capture.                                                            *)

\* The parameters are read; another display or a request ends the capturer.
ReadPara ==
  /\ hp = "para"
  /\ cd' = current
  /\ IF c = None THEN hp' = "create" /\ UNCHANGED c
     ELSE IF recreate \/ current # c THEN c' = None /\ UNCHANGED hp
     ELSE hp' = "check" /\ UNCHANGED c
  /\ UNCHANGED <<mem, para, first, failed, gdi, iw, service, lost>>

\* Capturer::new succeeds; the parameters to write back are read again.
Create ==
  /\ hp = "create"
  /\ c' = cd /\ first' = FALSE
  /\ gdi' = (failed > MAX_DXGI_FAIL_TIME)
  /\ failed' = IF failed > MAX_DXGI_FAIL_TIME THEN 0 ELSE failed
  /\ para' = current
  /\ hp' = "set"
  /\ UNCHANGED <<mem, cd, iw, service, lost>>

CreateFails == hp = "create" /\ hp' = "para" /\ UNCHANGED <<mem, c, cd, para, first, failed, gdi, iw, service, lost>>

SetPara ==
  /\ hp = "set"
  /\ recreate' = FALSE /\ current' = para
  /\ lost' = (lost \/ current # para)
  /\ hp' = "check"
  /\ UNCHANGED <<info, wouldblock, w, r, c, cd, para, first, failed, gdi, iw, service>>

\* A mutant: the test of the counters is inverted.
CheckInverted ==
  /\ hp = "check"
  /\ hp' = IF w = r /\ first THEN "para" ELSE "frame"
  /\ UNCHANGED <<mem, c, cd, para, first, failed, gdi, iw, service, lost>>

\* counter_equal: wait until the last frame was taken.
Check ==
  /\ hp = "check"
  /\ hp' = IF first /\ w # r THEN "para" ELSE "frame"
  /\ UNCHANGED <<mem, c, cd, para, first, failed, gdi, iw, service, lost>>

Captured == hp = "frame" /\ hp' = "info" /\ UNCHANGED <<mem, c, cd, para, first, failed, gdi, iw, service, lost>>

DesktopChanged ==
  /\ hp = "frame"
  /\ c' = None /\ hp' = "para"
  /\ UNCHANGED <<mem, cd, para, first, failed, gdi, iw, service, lost>>

NothingNew ==
  /\ hp = "frame"
  /\ wouldblock' = TRUE /\ hp' = "para"
  /\ UNCHANGED <<recreate, current, info, w, r, c, cd, para, first, failed, gdi, iw, service, lost>>

CaptureFails ==
  /\ hp = "frame"
  /\ failed' = IF gdi THEN failed ELSE failed + 1
  /\ IF failed' > MAX_DXGI_FAIL_TIME THEN c' = None /\ wouldblock' = FALSE
     ELSE UNCHANGED <<c, wouldblock>>
  /\ hp' = "para"
  /\ UNCHANGED <<recreate, current, info, w, r, cd, para, first, gdi, iw, service, lost>>

\* set_frame_info; the pixels follow.
SetInfo ==
  /\ hp = "info"
  /\ info' = Size[c] /\ hp' = "read_counter"
  /\ UNCHANGED <<recreate, current, wouldblock, w, r, c, cd, para, first, failed, gdi, iw, service, lost>>

\* increase_counter reads and writes. Its second branch compares the write
\* counter with itself and is never taken.
IncreaseRead ==
  /\ hp = "read_counter"
  /\ wouldblock' = TRUE /\ iw' = w /\ hp' = "increase"
  /\ UNCHANGED <<recreate, current, info, w, r, c, cd, para, first, failed, gdi, service, lost>>

\* A mutant: the counter does not wrap.
IncreaseWriteOverflow ==
  /\ hp = "increase"
  /\ w' = iw + 1
  /\ first' = TRUE /\ failed' = 0 /\ hp' = "para"
  /\ UNCHANGED <<recreate, current, info, wouldblock, r, c, cd, para, gdi, iw, service, lost>>

IncreaseWrite ==
  /\ hp = "increase"
  /\ w' = (iw + 1) % CounterMod
  /\ first' = TRUE /\ failed' = 0 /\ hp' = "para"
  /\ UNCHANGED <<recreate, current, info, wouldblock, r, c, cd, para, gdi, iw, service, lost>>

Helper == \/ ReadPara \/ Create \/ CreateFails \/ SetPara \/ Check \/ Captured
          \/ DesktopChanged \/ NothingNew \/ CaptureFails \/ SetInfo
          \/ IncreaseRead \/ IncreaseWrite

-----------------------------------------------------------------------------
(* CapturerPortable::new and frame. An error makes the video service start *)
(* again.                                                                  *)

\* memset clears the memory in the order of its addresses.
Clear(d) ==
  /\ \/ vp = "error"
     \/ vp \in {"none", "poll"} /\ restarts < MaxRestarts
  /\ restarts' = IF vp = "error" THEN restarts ELSE restarts + 1
  /\ want' = d /\ lost' = FALSE
  /\ recreate' = FALSE /\ current' = 0 /\ info' = 0
  /\ vp' = "clear"
  /\ UNCHANGED <<wouldblock, w, r, helper, size, back, got, timeouts>>

ClearCounters ==
  /\ vp = "clear"
  /\ wouldblock' = FALSE /\ w' = 0 /\ r' = 0
  /\ vp' = "set"
  /\ UNCHANGED <<recreate, current, info, helper, want, size, back, got, restarts, timeouts, lost>>

\* set_para; known: try_get_displays succeeds.
Request(known) ==
  /\ vp = "set"
  /\ recreate' = TRUE /\ current' = want
  /\ wouldblock' = TRUE
  /\ size' = IF known THEN Size[want] ELSE 0
  /\ vp' = "poll"
  /\ UNCHANGED <<info, w, r, helper, want, back, got, restarts, timeouts, lost>>

\* frame with another timeout reads the parameters and writes them back.
TimeoutRead ==
  /\ vp = "poll" /\ timeouts < MaxTimeouts
  /\ timeouts' = timeouts + 1
  /\ back' = <<recreate, current>> /\ vp' = "timeout"
  /\ UNCHANGED <<mem, helper, want, size, got, restarts, lost>>

TimeoutWrite ==
  /\ vp = "timeout"
  /\ recreate' = back[1] /\ current' = back[2]
  /\ lost' = (lost \/ back[2] # want)
  /\ vp' = "ready"
  /\ UNCHANGED <<info, wouldblock, w, r, helper, want, size, back, got, restarts, timeouts>>

\* counter_ready
Ready ==
  /\ vp \in {"poll", "ready"}
  /\ vp' = IF w # r THEN "copy" ELSE IF wouldblock THEN "poll" ELSE "error"
  /\ UNCHANGED <<mem, helper, want, size, back, got, restarts, timeouts, lost>>

Copy ==
  /\ vp = "copy"
  /\ r' = w /\ vp' = "frame"
  /\ UNCHANGED <<recreate, current, info, wouldblock, w, helper, want, size, back, got, restarts, timeouts, lost>>

\* A mutant: only the upper limit of the length is checked.
is_valid_capture_frame_length_upper(len) == TRUE

\* is_valid_capture_frame_length; the helper never writes a frame that is too long.
is_valid_capture_frame_length(len) == len > 0

TakeFrame ==
  /\ vp = "frame"
  /\ got' = info
  /\ vp' = IF ~is_valid_capture_frame_length(info) THEN "error"
           ELSE IF info # size THEN "poll" ELSE "got"
  /\ UNCHANGED <<mem, helper, want, size, back, restarts, timeouts, lost>>

\* The frame is encoded.
Encode == vp = "got" /\ vp' = "poll" /\ UNCHANGED <<mem, helper, want, size, back, got, restarts, timeouts, lost>>

Service == \/ \E d \in Display : Clear(d)
           \/ ClearCounters \/ (\E b \in BOOLEAN : Request(b)) \/ TimeoutRead \/ TimeoutWrite
           \/ Ready \/ Copy \/ TakeFrame \/ Encode

Next == Helper \/ Service

Spec == Init /\ [][Next]_vars

\* Both threads run; the system lets the capturer be created and deliver frames
\* again and again; the video service starts again after an error.
FairSpec ==
  /\ Spec
  /\ WF_vars(ReadPara \/ SetPara \/ Check \/ SetInfo \/ IncreaseRead \/ IncreaseWrite)
  /\ SF_vars(Create) /\ SF_vars(Captured)
  /\ WF_vars(vp = "error" /\ \E d \in Display : Clear(d))
  /\ WF_vars(ClearCounters) /\ WF_vars(\E b \in BOOLEAN : Request(b))
  /\ WF_vars(TimeoutWrite \/ Ready \/ Copy \/ TakeFrame \/ Encode)

-----------------------------------------------------------------------------
(* Properties.                                                             *)

TypeOK ==
  /\ {recreate, wouldblock, first, gdi, lost} \subseteq BOOLEAN
  /\ {current, cd, para} \subseteq Display \cup {0} /\ {c, want} \subseteq Display \cup {None}
  /\ {w, r, iw} \subseteq 0..(CounterMod - 1)
  /\ {info, size, got} \subseteq {Size[d] : d \in Display} \cup {0}
  /\ failed \in 0..(MAX_DXGI_FAIL_TIME + 1)

\* A frame that reaches the encoder has pixels and the size the encoder was made
\* for, although the memory may be cleared between any two steps with which the
\* helper announces it (CapturerPortable::frame checks what it has read).
FrameValid == vp = "got" => got > 0 /\ got = Size[want]

\* The capturer is polled without an error, and its display was not overwritten
\* with an older one.
Steady == vp \in {"poll", "timeout", "ready", "copy", "frame", "got"} /\ size # 0 /\ ~lost

\* A video service that polls without errors goes on getting frames: whatever
\* restarts, capture errors and changes of the frame time have left in the
\* counters and in the parameters, helper and service never both wait for the
\* other (counter_equal, counter_ready).
FrameArrives == <>[]Steady => []<>(vp = "got")
=============================================================================
