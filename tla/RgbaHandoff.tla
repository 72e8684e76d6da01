----------------------------- MODULE RgbaHandoff -----------------------------
(***************************************************************************)
(* How a decoded picture reaches the windows when no texture is used.  The *)
(* video thread of a display stores the picture and marks it valid, then   *)
(* sends an event to every window that shows the display; a window reads   *)
(* the picture through a plain pointer, over several turns of its event    *)
(* loop, and then asks for the next one, which makes the picture invalid.  *)
(* While a picture is valid, new ones are thrown away.                     *)
(***************************************************************************)
EXTENDS Naturals, Sequences, FiniteSets

CONSTANTS Win, First, Display, MaxEvents

VARIABLES shows,    \* h.displays of a window that is in session_handlers; {} for one that is not
          stream,   \* its event_stream is set
          closing,  \* its page is closed and ignores events
          events,   \* w -> displays of EventToUI::Rgba it has not handled
          decoding, \* w -> d -> number of decodes under way that read the picture of d
          valid,    \* display_rgbas[d].valid
          told,     \* video thread of d: the picture is stored, the windows are not told yet
          painted,  \* history: windows that have painted since they were last seen to
          torn,     \* a picture was replaced while a window read it
          overlap   \* a window was closed while another one was opened, before that one was told of a picture

ui == <<shows, stream, closing>>
history == <<painted, torn, overlap>>
vars == <<ui, events, decoding, valid, told, history>>

Handler == {w \in Win : shows[w] # {}}

Init ==
    /\ \E d \in Display : shows = [w \in Win |-> IF w = First THEN {d} ELSE {}]
    /\ stream = [w \in Win |-> w = First] /\ closing = [w \in Win |-> FALSE]
    /\ events = [w \in Win |-> <<>>] /\ decoding = [w \in Win |-> [d \in Display |-> 0]]
    /\ valid = [d \in Display |-> FALSE] /\ told = [d \in Display |-> TRUE]
    /\ painted = {} /\ torn = FALSE /\ overlap = FALSE

next_rgba(d) == valid' = [valid EXCEPT ![d] = FALSE]

\* Bound: how far a window may fall behind.
Room == \A w \in Win : Len(events[w]) < MaxEvents /\ \A d \in Display : decoding[w][d] < MaxEvents

\* on_rgba_soft_render, the part under the lock of display_rgbas.
StoreRgba(d) ==
    /\ told[d] /\ ~valid[d]
    /\ Room
    /\ valid' = [valid EXCEPT ![d] = TRUE]
    /\ told' = [told EXCEPT ![d] = FALSE]
    /\ torn' = (torn \/ \E w \in Win : decoding[w][d] > 0)
    /\ UNCHANGED <<ui, events, decoding, painted, overlap>>

\* The windows that are told: single-display windows, of this display if there are several windows.
Receivers(d) == {w \in Handler : /\ Cardinality(shows[w]) = 1
                                 /\ Cardinality(Handler) > 1 => d \in shows[w]
                                 /\ stream[w]}

NotifyWindows(d) ==
    /\ ~told[d]
    /\ told' = [told EXCEPT ![d] = TRUE]
    /\ events' = [w \in Win |-> IF w \in Receivers(d) THEN Append(events[w], d) ELSE events[w]]
    /\ IF Receivers(d) = {} THEN next_rgba(d) ELSE UNCHANGED valid
    /\ UNCHANGED <<ui, decoding, history>>

\* The listener of a window handles an event: it takes the pointer, or asks for the next picture.
OnRgbaEvent(w) ==
    /\ events[w] # <<>>
    /\ events' = [events EXCEPT ![w] = Tail(@)]
    /\ LET d == Head(events[w]) IN
       IF closing[w] THEN UNCHANGED <<decoding, valid>>
       ELSE IF valid[d] THEN decoding' = [decoding EXCEPT ![w][d] = @ + 1] /\ UNCHANGED valid
       ELSE next_rgba(d) /\ UNCHANGED decoding
    /\ UNCHANGED <<ui, told, history>>

\* Mutant: the next picture is not asked for.
onRgba_silent(w, d) ==
    /\ decoding[w][d] > 0
    /\ decoding' = [decoding EXCEPT ![w][d] = @ - 1]
    /\ painted' = IF d \in shows[w] THEN painted \cup {w} ELSE painted
    /\ UNCHANGED <<ui, events, valid, told, torn, overlap>>

\* The decode ends; a window that has left session_handlers finds no session to ask.
onRgba(w, d) ==
    /\ decoding[w][d] > 0
    /\ decoding' = [decoding EXCEPT ![w][d] = @ - 1]
    /\ IF w \in Handler THEN next_rgba(d) ELSE UNCHANGED valid
    /\ painted' = IF d \in shows[w] THEN painted \cup {w} ELSE painted
    /\ UNCHANGED <<ui, events, told, torn, overlap>>

Repainted(w) == /\ w \in painted /\ painted' = painted \ {w}
                /\ UNCHANGED <<ui, events, decoding, valid, told, torn, overlap>>

\* Mutant: the flag of the display is not reset.
insert_peer_session_id_keeps(w, d) ==
    /\ shows[w] = {} /\ events[w] = <<>> /\ \A e \in Display : decoding[w][e] = 0
    /\ shows' = [shows EXCEPT ![w] = {d}] /\ stream' = [stream EXCEPT ![w] = FALSE]
    /\ closing' = [closing EXCEPT ![w] = FALSE]
    /\ overlap' = (overlap \/ \E v \in Handler : closing[v])
    /\ UNCHANGED <<events, decoding, valid, told, painted, torn>>

\* A window of the same session is opened; its stream comes later.
insert_peer_session_id(w, d) ==
    /\ shows[w] = {} /\ events[w] = <<>> /\ \A e \in Display : decoding[w][e] = 0
    /\ shows' = [shows EXCEPT ![w] = {d}] /\ stream' = [stream EXCEPT ![w] = FALSE]
    /\ closing' = [closing EXCEPT ![w] = FALSE]
    /\ next_rgba(d)
    /\ overlap' = (overlap \/ \E v \in Handler : closing[v])
    /\ UNCHANGED <<events, decoding, told, painted, torn>>

session_start(w) ==
    /\ w \in Handler /\ ~stream[w]
    /\ stream' = [stream EXCEPT ![w] = TRUE]
    /\ UNCHANGED <<shows, closing, events, decoding, valid, told, history>>

session_switch_display(w, d) ==
    /\ w \in Handler /\ stream[w] /\ ~closing[w] /\ shows[w] # {d}
    /\ shows' = [shows EXCEPT ![w] = {d}]
    /\ next_rgba(d)
    /\ UNCHANGED <<stream, closing, events, decoding, told, history>>

SwitchToAll(w) ==
    /\ w \in Handler /\ stream[w] /\ ~closing[w] /\ shows[w] # Display
    /\ shows' = [shows EXCEPT ![w] = Display]
    /\ UNCHANGED <<stream, closing, events, decoding, valid, told, history>>

Pending(w, d) == decoding[w][d] > 0 \/ \E i \in DOMAIN events[w] : events[w][i] = d

\* The only window that was told of a picture, of a display another one shows.
OnlyReader(w) == \E v \in Handler \ {w} : \E d \in shows[v] : valid[d] /\ Pending(w, d) /\ ~Pending(v, d)

\* FFI.close: events are ignored at once, the session is closed some awaits later.
close(w) ==
    /\ w \in Handler /\ stream[w] /\ ~closing[w] /\ \E v \in Handler \ {w} : ~closing[v]
    /\ closing' = [closing EXCEPT ![w] = TRUE]
    /\ overlap' = (overlap \/ OnlyReader(w) \/ \E v \in Handler : ~stream[v])
    /\ UNCHANGED <<shows, stream, events, decoding, valid, told, painted, torn>>

\* Mutant: what the window was told of outlives it.
session_close_leaves(w) ==
    /\ w \in Handler /\ closing[w]
    /\ shows' = [shows EXCEPT ![w] = {}] /\ stream' = [stream EXCEPT ![w] = FALSE]
    /\ UNCHANGED <<closing, events, decoding, valid, told, history>>

session_close(w) ==
    /\ w \in Handler /\ closing[w]
    /\ shows' = [shows EXCEPT ![w] = {}] /\ stream' = [stream EXCEPT ![w] = FALSE]
    /\ events' = [events EXCEPT ![w] = <<>>]
    /\ UNCHANGED <<closing, decoding, valid, told, history>>

Next ==
    \/ \E d \in Display : StoreRgba(d) \/ NotifyWindows(d)
    \/ \E w \in Win : \/ OnRgbaEvent(w) \/ Repainted(w) \/ session_start(w) \/ SwitchToAll(w)
                      \/ close(w) \/ session_close(w)
                      \/ \E d \in Display : \/ onRgba(w, d) \/ insert_peer_session_id(w, d)
                                            \/ session_switch_display(w, d)

\* Frames keep arriving (the bound may hold one back for a while), and every window's event loop keeps running.
Fairness ==
    /\ \A d \in Display : SF_vars(StoreRgba(d)) /\ WF_vars(NotifyWindows(d))
    /\ \A w \in Win : /\ WF_vars(OnRgbaEvent(w)) /\ WF_vars(Repainted(w)) /\ WF_vars(session_start(w))
                      /\ WF_vars(session_close(w)) /\ \A d \in Display : WF_vars(onRgba(w, d))

Spec == Init /\ [][Next]_vars /\ Fairness
-----------------------------------------------------------------------------
Showing(w, d) == shows[w] = {d} /\ stream[w] /\ ~closing[w]

\* Types; an event or a decode belongs to a window that has been told.
TypeOK ==
    /\ shows \in [Win -> SUBSET Display] /\ Handler # {}
    /\ stream \in [Win -> BOOLEAN] /\ closing \in [Win -> BOOLEAN]
    /\ \A w \in Win : Len(events[w]) < MaxEvents + Cardinality(Display) /\ (events[w] # <<>> => w \in Handler)
    /\ decoding \in [Win -> [Display -> Nat]]
    /\ valid \in [Display -> BOOLEAN] /\ told \in [Display -> BOOLEAN]

\* A picture that stays valid blocks every later one of its display.  Whatever the windows did, one of
\* them that is still there has the picture to read and will ask for the next one, unless a window
\* was closed while another one was being opened: the closing one may be the only one told of a
\* picture and ignores it, and nothing resets the flag for the other one.
NoStarvation ==
    \A w \in Win, d \in Display :
        Showing(w, d) /\ valid[d] /\ told[d] /\ ~overlap =>
            \E v \in Handler : Pending(v, d) /\ ~closing[v]

\* Once the windows are left alone, a display that a window shows by itself is painted again and
\* again, whatever was opened, switched and closed before.  Of two windows of one display the slower
\* one may never find a picture: the other one has asked for the next.
KeepsPainting ==
    <>[][FALSE]_ui =>
        \A d \in Display :
            <>[](~overlap /\ \E w \in Win : Showing(w, d)) => []<>(\E w \in painted : shows[w] = {d})

\* "If the current rgba is not fetched by flutter, i.e., is valid.  We give up": a picture is never
\* replaced while a window reads it.
NeverTorn == ~torn
=============================================================================
