----------------------------- MODULE MCServices -----------------------------
(***************************************************************************)
(* The services that capture, for TLC: the video service and the cursor    *)
(* service, each with the subscriptions of ServiceTmpl, and the portable   *)
(* service, which captures for the video service on Windows.  which says   *)
(* which of them runs; the others stay as they were in the beginning.      *)
(***************************************************************************)
EXTENDS VideoService

VARIABLES which, cpc, may_reset, hcursor, cursor, shown

Pointer == INSTANCE CursorService WITH Cursor <- {"arrow", "hand"}, NoCursor <- "none", pc <- cpc

pointer == <<cpc, may_reset, hcursor, cursor, shown>>
all == <<which, vars, pointer>>

MCInit ==
    /\ which \in {"video", "cursor"}
    /\ Init
    /\ Pointer!Init /\ (which # "cursor" => cursor = "arrow")

MCNext ==
    /\ UNCHANGED which
    /\ \/ which = "video" /\ Next /\ UNCHANGED pointer
       \/ which = "cursor" /\ Pointer!Next /\ UNCHANGED vidVars

MCSpec == MCInit /\ [][MCNext]_all
-----------------------------------------------------------------------------
\* The type invariants of both modules.
TypesOK == TypeOK /\ Pointer!TypeOK

\* input_service::run_cursor: a subscriber that has been sent any cursor was last sent the one the
\* thread holds as current.
SubscribersCurrent == which = "cursor" => Pointer!SubscribersCurrent
=============================================================================
