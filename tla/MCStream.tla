------------------------------ MODULE MCStream ------------------------------
(*****************************************************************************)
(* The choice of the codec and the quality of service for TLC. They share   *)
(* no variable, so nothing is lost when one of them moves and the others    *)
(* stay as they were in the beginning: which says which one it is.          *)
(*****************************************************************************)
EXTENDS CodecNegotiation, Sequences, TLC

CONSTANTS d1, d2, u1, u2

VARIABLES which, users, latest, displays, fps, ratio, abr, newUser, sinceAdjust, waiting, due

\* Two displays on adapters of their own; what connections announce; textures are encoded on one adapter.
TwoAdapters == (d1 :> "a") @@ (d2 :> "b")
OnA == {<<"a", "H264">>}
OneAdapter == [d \in Display |-> "a"]
TwoOf == {[can |-> {"VP9", "VP8", "AV1"}, prefer |-> "AV1"], [can |-> {"VP9", "H264", "H265"}, prefer |-> "VP8"]}

\* What the Android client of the fork announces with and without its hardware decoder (get_prefer, VP8 unsupported).
VP8OrNot == {[can |-> {"VP9", "VP8"}, prefer |-> "Auto"], [can |-> {"VP9", "H264", "H265"}, prefer |-> "Auto"]}

\* Quality of service: one answer of the network in time or late; bitrates asked for; long histories.
Rates == INSTANCE VideoQoS WITH User <- {u1, u2}, Display <- {}, Delays <- {20, 3100}, Fps <- {}, Qualities <- {},
    Levels <- {100, 200, 600, 1500}, WINDOW_SAMPLES <- 1, MIN_SAMPLES <- 1, Linux <- TRUE
Asked == {Rates!Best, [kind |-> "Custom", ratio |-> 20]}
Ratios == INSTANCE VideoQoS WITH User <- {u1, u2}, Display <- {"d"}, Delays <- {20}, Fps <- {}, Qualities <- Asked,
    Levels <- {100, 200, 600, 1500}, WINDOW_SAMPLES <- 1, MIN_SAMPLES <- 1, Linux <- FALSE
RoundTrip == INSTANCE VideoQoS WITH User <- {u1}, Display <- {}, Delays <- {20, 180, 700, 3100}, Fps <- {},
    Qualities <- {}, Levels <- {100, 200, 600, 1500}, WINDOW_SAMPLES <- 4, MIN_SAMPLES <- 2, Linux <- TRUE

Symmetry == Permutations({u1, u2})

\* Bitrates: both signs of adjust_ratio show with one answer of one user.  Rates do not depend on abr_config.
Answers(u) == IF u \in DOMAIN users THEN Len(users[u].history) ELSE 0
Early ==
    /\ which = "rates" => abr
    /\ which = "ratios" => Answers(u1) + Answers(u2) <= 1 /\ \A u \in DOMAIN users : waiting[u] <= 0

qos == <<users, latest, displays, fps, ratio, abr, newUser, sinceAdjust, waiting, due>>
all == <<which, vars, qos>>

MCInit ==
    /\ which \in {"codec", "rates", "ratios", "rtt"}
    /\ Init
    /\ IF which = "rtt" THEN RoundTrip!Init ELSE Rates!Init

MCNext ==
    /\ UNCHANGED which
    /\ \/ which = "codec" /\ Next /\ UNCHANGED qos
       \/ /\ \/ which = "rates" /\ Rates!Next
             \/ which = "ratios" /\ Ratios!Next
             \/ which = "rtt" /\ RoundTrip!Next
          /\ UNCHANGED vars

MCSpec == MCInit /\ [][MCNext]_all
-----------------------------------------------------------------------------
\* VideoQoS::adjust_fps: one user whose answer is more than two seconds late slows all displays down.
LateUserSlowsAll == which = "rates" => Rates!TypeOK /\ Rates!LateUserSlowsAll

\* VideoQoS::adjust_ratio: the bounds of the clamp are in order and the ratio stays in its range.
\* RttCalculator: the round trip that avg_delay subtracts is never above the average.
RatesInRange == (which = "ratios" => Ratios!RatioInRange) /\ (which = "rtt" => RoundTrip!RttBelowMean)
=============================================================================
