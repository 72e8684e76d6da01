------------------------------- MODULE UiWindows -------------------------------
(***************************************************************************)
(* The windows of one remote session on the controlling side, the displays *)
(* they show, and the displays the controlled side captures for them.      *)
(* Every window is an engine of its own; a window that leaves a display    *)
(* asks the controlled side to capture exactly what it takes to be still   *)
(* in use: its own new display and the displays the renderers of the other *)
(* windows know.  A renderer learns of a display only when the window sets *)
(* its size or registers a texture.                                        *)
(***************************************************************************)
EXTENDS Naturals, Sequences, FiniteSets

CONSTANTS Win,      \* windows
          First,    \* the window the session was opened with
          Display,  \* displays of the peer; 0 is the primary one
          TextureRender, \* use_texture_render
          MaxChan

VARIABLES handlers,  \* session_handlers: w -> [open, started, displays]
          map,       \* renderer.map_display_sessions: w -> displays
          chan,      \* messages to the controlled side
          idx,       \* its display_idx
          subs,      \* the displays it captures for the connection
          multi,     \* its multi_ui_session
          raced      \* history: a set of displays was sent while a renderer did not know its window's

vars == <<handlers, map, chan, idx, subs, multi, raced>>
peer == <<idx, subs, multi>>

Open == {w \in Win : handlers[w].open}
NoHandler == [open |-> FALSE, started |-> FALSE, displays |-> {}]

Init ==
    /\ handlers = [w \in Win |-> IF w = First THEN [open |-> TRUE, started |-> TRUE, displays |-> {}] ELSE NoHandler]
    /\ map = [w \in Win |-> {}]
    /\ chan = <<>> /\ idx = 0 /\ subs = {0} /\ multi = FALSE /\ raced = FALSE

Capture(add, set) == [type |-> "capture", add |-> add, set |-> set]
SwitchDisplay(d) == [type |-> "switch", display |-> d]

\* A renderer that does not know what its window shows.
Unknown(w) == ~(handlers[w].displays \subseteq map[w])

\* A new window is opened from one that has the peer's displays, hence knows what it shows.
insert_peer_session_id(w, S) ==
    /\ ~handlers[w].open /\ \E v \in Open : handlers[v].displays # {}
    /\ handlers' = [handlers EXCEPT ![w] = [open |-> TRUE, started |-> FALSE, displays |-> S]]
    /\ map' = [map EXCEPT ![w] = {}]
    /\ UNCHANGED <<chan, peer, raced>>

session_start_with_displays(w) ==
    /\ handlers[w].open /\ ~handlers[w].started /\ Len(chan) < MaxChan
    /\ handlers' = [handlers EXCEPT ![w].started = TRUE]
    /\ chan' = Append(chan, Capture(handlers[w].displays, {}))
    /\ UNCHANGED <<map, peer, raced>>

\* The size of what the window shows; the first window starts with the primary display.
session_set_size(w, d) ==
    /\ handlers[w].started
    /\ d \in handlers[w].displays \/ (handlers[w].displays = {} /\ d = 0)
    /\ handlers' = [handlers EXCEPT ![w].displays = @ \cup {d}]
    /\ map' = [map EXCEPT ![w] = @ \cup {d}]
    /\ UNCHANGED <<chan, peer, raced>>

register_pixelbuffer_texture(w, d) ==
    /\ handlers[w].open
    /\ map' = [map EXCEPT ![w] = IF d \in handlers[w].displays THEN @ \cup {d} ELSE @ \ {d}]
    /\ UNCHANGED <<handlers, chan, peer, raced>>

\* Mutant: only the displays of the current window are kept.
remains_own(w, current) == current

\* check_remove_unused_displays: the displays that are still in use.
remains_displays(w, current) == current \cup UNION {map[v] : v \in Open \ {w}}

SetDisplays(S) == IF S = {} THEN <<>> ELSE <<Capture({}, S)>>

session_switch_display(w, d) ==
    /\ handlers[w].started /\ Len(chan) + 2 < MaxChan
    /\ handlers' = [handlers EXCEPT ![w].displays = {d}]
    /\ chan' = chan \o <<SwitchDisplay(d)>>
                    \o (IF TextureRender THEN <<>> ELSE <<Capture({}, {d})>>)
                    \o SetDisplays(remains_displays(w, {d}))
    /\ raced' = (raced\/ (\E v \in Open \ {w} : Unknown(v)))
    /\ UNCHANGED <<map, peer>>

\* All displays in one window.
SwitchToAll(w) ==
    /\ handlers[w].started /\ Len(chan) < MaxChan
    /\ handlers' = [handlers EXCEPT ![w].displays = Display]
    /\ chan' = Append(chan, Capture({}, Display))
    /\ UNCHANGED <<map, peer, raced>>

\* A window that is not the last one is closed.
remove_session_by_session_id(w) ==
    /\ handlers[w].open /\ Open # {w} /\ Len(chan) < MaxChan
    /\ handlers' = [handlers EXCEPT ![w] = NoHandler]
    /\ chan' = chan \o SetDisplays(remains_displays(w, {}))
    /\ map' = [map EXCEPT ![w] = {}]
    /\ raced' = (raced\/ (\E v \in Open \ {w} : Unknown(v)))
    /\ UNCHANGED peer

\* Mutant: the old display is dropped, also when it is the new one.
handle_switch_display_drops ==
    /\ chan # <<>> /\ Head(chan).type = "switch"
    /\ chan' = Tail(chan)
    /\ subs' = (subs \cup {Head(chan).display}) \ {idx}
    /\ idx' = Head(chan).display
    /\ UNCHANGED <<handlers, map, multi, raced>>

\* The controlled side: handle_switch_display of a peer with several windows keeps the old display.
handle_switch_display ==
    /\ chan # <<>> /\ Head(chan).type = "switch"
    /\ chan' = Tail(chan)
    /\ subs' = IF idx = Head(chan).display THEN subs ELSE subs \cup {Head(chan).display}
    /\ idx' = Head(chan).display
    /\ UNCHANGED <<handlers, map, multi, raced>>

\* Mutant: the displays are counted before they are set.
capture_displays_early ==
    /\ chan # <<>> /\ Head(chan).type = "capture"
    /\ chan' = Tail(chan)
    /\ subs' = IF Head(chan).add # {} THEN subs \cup Head(chan).add ELSE Head(chan).set
    /\ multi' = (Cardinality(subs) > 1)
    /\ UNCHANGED <<handlers, map, idx, raced>>

capture_displays ==
    /\ chan # <<>> /\ Head(chan).type = "capture"
    /\ chan' = Tail(chan)
    /\ subs' = IF Head(chan).add # {} THEN subs \cup Head(chan).add ELSE Head(chan).set
    /\ multi' = (Cardinality(subs') > 1)
    /\ UNCHANGED <<handlers, map, idx, raced>>

Next ==
    \/ \E w \in Win :
         \/ session_start_with_displays(w) \/ SwitchToAll(w) \/ remove_session_by_session_id(w)
         \/ \E d \in Display :
              \/ insert_peer_session_id(w, {d}) \/ session_set_size(w, d)
              \/ register_pixelbuffer_texture(w, d) \/ session_switch_display(w, d)
    \/ handle_switch_display \/ capture_displays

Spec == Init /\ [][Next]_vars
-----------------------------------------------------------------------------
Shown == UNION {handlers[w].displays : w \in Open}
Quiet == chan = <<>> /\ \A w \in Open : handlers[w].started

\* Types; what is captured is never nothing.
TypeOK ==
    /\ handlers \in [Win -> [open : BOOLEAN, started : BOOLEAN, displays : SUBSET Display]]
    /\ map \in [Win -> SUBSET Display]
    /\ Len(chan) <= MaxChan /\ idx \in Display /\ subs \in (SUBSET Display) \ {{}}
    /\ multi \in BOOLEAN /\ raced \in BOOLEAN

\* Every display a window shows is captured once the requests are handled, as long as no window was
\* closed or switched before the other renderers knew their displays (check_remove_unused_displays).
ShownCaptured == Quiet /\ ~raced => Shown \subseteq subs

\* The connection's multi_ui_session, which decides whether the focused window is followed and where
\* the cursor is embedded, says whether several displays are captured: a switch of the display, which
\* does not update it, is always followed by a request that does.
MultiCurrent == Quiet => multi = (Cardinality(subs) > 1)

\* "Set capture displays if some are not used any more": whatever the renderers know, a display some
\* window shows stays captured.
UsedKept == Quiet => Shown \subseteq subs
=============================================================================
