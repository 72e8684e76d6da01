------------------------------ MODULE VideoQoS ------------------------------
(***************************************************************************)
(* VideoQoS (video_qos.rs): the frame rate and the bitrate ratio that all  *)
(* displays use, adjusted from the delays of all users. Every connection   *)
(* measures its delay with TestDelay once a second (connection.rs), every  *)
(* display reports once a second (video_service.rs). Ratios are in         *)
(* thousandths; a product with a factor below (above) one is any level at  *)
(* or below (above) the ratio.                                             *)
(***************************************************************************)
EXTENDS FiniteSetsExt, Integers, SequencesExt

CONSTANTS
  User,             \* ids of connections
  Display,          \* names of video services
  Delays,           \* delays in ms an answer can take
  Fps,              \* frame rates a user may ask for
  Qualities,        \* image qualities a user may ask for
  Levels,           \* bitrate ratios
  WINDOW_SAMPLES,   \* 60 in the code
  MIN_SAMPLES,      \* 10 in the code
  Linux             \* cfg!(target_os = "linux")

FPS == 30
MIN_FPS == 1
MAX_FPS == 120
INIT_FPS == 15
BR_MAX == 40000
BR_MIN == 200
BR_MIN_HIGH_RESOLUTION == 100
BR_BEST == 1500
BR_BALANCED == 670
BR_SPEED == 500
HISTORY_DELAY_LEN == 2
ADJUST_RATIO_INTERVAL == 3
DELAY_THRESHOLD_150MS == 150

None == -1
Null(x) == x = None
Or(x, default) == IF Null(x) THEN default ELSE x
AtLeast(a, b) == IF a < b THEN b ELSE a
AtMost(a, b) == IF a < b THEN a ELSE b
Clamp(x, lo, hi) == AtMost(AtLeast(x, lo), hi)

VARIABLES
  users,        \* VideoQoS.users: [subset of User -> UserData]
  latest,       \* the users that set a quality, in the order of their times
  displays,     \* [subset of Display -> support_changing_quality]
  fps,          \* VideoQoS.fps
  ratio,        \* VideoQoS.ratio
  abr,          \* abr_config
  newUser,      \* new_user_instant is less than a second ago
  sinceAdjust,  \* seconds since adjust_ratio_instant, up to the interval
  waiting,      \* [User -> seconds since last_test_delay, or None]
  due           \* users and displays whose timer has yet to fire in this second

vars == <<users, latest, displays, fps, ratio, abr, newUser, sinceAdjust, waiting, due>>

Best == [kind |-> "Best", ratio |-> BR_BEST]
Balanced == [kind |-> "Balanced", ratio |-> BR_BALANCED]
Low == [kind |-> "Low", ratio |-> BR_SPEED]

UserData ==
  [custom_fps |-> None, auto_adjust_fps |-> None, quality |-> Balanced, delayed |-> FALSE,
   history |-> <<>>, fps |-> None, quick |-> 0, inc |-> 0,
   min_rtt |-> None, smoothed |-> None, samples |-> <<>>]

-----------------------------------------------------------------------------
(* Delays and round trips.                                                 *)

\* A mutant: the smoothed value is not computed again.
rtt_update_once(u, d) ==
  LET s == Append(IF Len(u.samples) >= WINDOW_SAMPLES THEN Tail(u.samples) ELSE u.samples, d)
      m == AtMost(d, Or(u.min_rtt, d))
  IN [u EXCEPT !.min_rtt = m, !.samples = s,
               !.smoothed = IF Len(s) >= WINDOW_SAMPLES /\ Null(@) THEN (m + Min(ToSet(s))) \div 2 ELSE @]

\* RttCalculator::update
rtt_update(u, d) ==
  LET s == Append(IF Len(u.samples) >= WINDOW_SAMPLES THEN Tail(u.samples) ELSE u.samples, d)
      m == AtMost(d, Or(u.min_rtt, d))
  IN [u EXCEPT !.min_rtt = m, !.samples = s,
               !.smoothed = IF Len(s) >= WINDOW_SAMPLES THEN (m + Min(ToSet(s))) \div 2 ELSE @]

get_rtt(u) == IF ~Null(u.smoothed) THEN u.smoothed
              ELSE IF Len(u.samples) >= MIN_SAMPLES THEN u.min_rtt ELSE None

\* A mutant: the history is not trimmed.
add_delay_all(u, d) == [rtt_update(u, d) EXCEPT !.history = Append(u.history, d)]

add_delay(u, d) ==
  LET h == IF Len(u.history) > HISTORY_DELAY_LEN THEN Tail(u.history) ELSE u.history
  IN [rtt_update(u, d) EXCEPT !.history = Append(h, d)]

Mean(u) == FoldLeft(+, 0, u.history) \div Len(u.history)

avg_delay(u) ==
  IF u.history = <<>> THEN DELAY_THRESHOLD_150MS
  ELSE IF Mean(u) > get_rtt(u) /\ ~Null(get_rtt(u)) THEN Mean(u) - get_rtt(u) ELSE Mean(u)

-----------------------------------------------------------------------------
(* Frame rate.                                                             *)

user_fps(u) == IF ~Null(u.auto_adjust_fps) /\ u.auto_adjust_fps < Or(u.custom_fps, FPS)
               THEN u.auto_adjust_fps ELSE Or(u.custom_fps, FPS)

highest_fps(us) ==
  LET f == {user_fps(us[i]) : i \in DOMAIN us}
  IN IF f = {} THEN FPS ELSE Clamp(Min(f), MIN_FPS, MAX_FPS)

\* A mutant: a late answer of one user slows down only that user.
adjusted_fps_own(us, new) ==
  LET f == {IF us[i].delayed THEN INIT_FPS ELSE Or(us[i].fps, INIT_FPS) : i \in DOMAIN us}
      capped == IF f = {} THEN INIT_FPS ELSE Min(f)
  IN Clamp(IF new THEN AtMost(capped, INIT_FPS) ELSE capped, MIN_FPS, highest_fps(us))

\* VideoQoS::adjust_fps, as the new value of fps.
adjusted_fps(us, new) ==
  LET f == {Or(us[i].fps, INIT_FPS) : i \in DOMAIN us}
      slowest == IF f = {} THEN INIT_FPS ELSE Min(f)
      capped == IF \E i \in DOMAIN us : us[i].delayed THEN AtMost(slowest, MIN_FPS + 1) ELSE slowest
  IN Clamp(IF new THEN AtMost(capped, INIT_FPS) ELSE capped, MIN_FPS, highest_fps(us))

\* min_fps and normal_fps by the target ratio
FpsFor(target) == IF target >= BR_BEST THEN <<8, 16>>
                  ELSE IF target >= BR_BALANCED THEN <<10, 20>> ELSE <<12, 24>>

\* The code divides f32s and takes the ceiling; the result is this one for every
\* rate up to 30.
CeilDiv(a, b) == (a + b - 1) \div b

\* The user's frame rate after a delay, before it is limited. quick is
\* quick_increase_fps_count with this sample counted.
DelayFps(f, avg, old_avg, quick, target) ==
  LET min_fps == FpsFor(target)[1]
      normal_fps == FpsFor(target)[2]
      one == IF f < normal_fps THEN 1 ELSE 0
      divided == CeilDiv(f * DELAY_THRESHOLD_150MS, avg)
      product == (DELAY_THRESHOLD_150MS * min_fps) \div avg
  IN CASE avg < 50 -> AtLeast(min_fps, f + (IF quick >= 3 THEN 5 ELSE one))
       [] avg \in 50..99 -> AtLeast(min_fps, f + (IF avg < old_avg THEN one ELSE 0))
       [] avg \in 100..149 -> AtLeast(min_fps, f)
       [] avg \in 150..199 -> AtLeast(min_fps, divided)
       [] avg \in 200..299 -> AtMost(min_fps, divided)
       [] avg \in 300..599 -> product
       [] OTHER -> AtMost(product, divided)

\* A mutant: a good sample does not count.
on_delay_forgetful(u, d, f, target, highest) ==
  LET a == add_delay(u, AtLeast(d, 10))
      avg == AtLeast(avg_delay(a), 10)
  IN [a EXCEPT !.quick = 0, !.inc = 0,
               !.fps = Clamp(DelayFps(f, avg, avg_delay(u), 0, target), MIN_FPS, highest)]

\* The part of VideoQoS::user_network_delay that changes the user.
on_delay(u, d, f, target, highest) ==
  LET a == add_delay(u, AtLeast(d, 10))
      avg == AtLeast(avg_delay(a), 10)
      quick == IF avg < 50 THEN u.quick + 1 ELSE u.quick
      inc == IF avg < DELAY_THRESHOLD_150MS THEN u.inc + 1 ELSE 0
  IN [a EXCEPT !.quick = IF quick >= 3 \/ avg > 50 THEN 0 ELSE quick,
               !.inc = IF inc >= 3 THEN 0 ELSE inc,
               !.fps = Clamp(DelayFps(f, avg, avg_delay(u), quick, target)
                             + (IF inc >= 3 THEN 1 ELSE 0), MIN_FPS, highest)]

-----------------------------------------------------------------------------
(* Bitrate ratio.                                                          *)

\* A mutant: a custom quality is not limited.
convert_quality_raw(q) == q

\* A named quality, or a custom one as a ratio.
convert_quality(q) == IF q.kind = "Custom" THEN [q EXCEPT !.ratio = Clamp(@, BR_MIN, BR_MAX)] ELSE q

latest_quality(us, l) == IF l = <<>> THEN Balanced ELSE us[Last(l)].quality

in_vbr_state == abr /\ \A d \in DOMAIN displays : displays[d]

\* What min can be: the bitrate of a large screen lowers it.
RatioFloors(q) ==
  CASE q.kind = "Best" -> {l \in Levels : BR_MIN <= l /\ l <= (BR_BEST * 2) \div 5}
    [] q.kind = "Balanced" -> {l \in Levels : BR_MIN_HIGH_RESOLUTION <= l /\ l <= AtMost(BR_BALANCED \div 2, 400)}
    [] OTHER -> {BR_MIN_HIGH_RESOLUTION}

\* The ratios adjust_ratio can put in place of r.
adjusted_ratios(us, l, r, dynamic) ==
  LET max_delay == Max({avg_delay(us[i]) : i \in DOMAIN us})
      v == IF max_delay >= DELAY_THRESHOLD_150MS THEN {x \in Levels : x <= r}
           ELSE IF dynamic THEN {x \in Levels : x >= r} ELSE {r}
      q == latest_quality(us, l)
  IN {Clamp(x, m, q.ratio) : x \in v, m \in RatioFloors(q)}

\* VideoQoS::adjust_ratio with users us.
adjust_ratio(us, l, dynamic) ==
  IF in_vbr_state /\ us # <<>>
  THEN ratio' \in adjusted_ratios(us, l, ratio, dynamic) /\ sinceAdjust' = 0
  ELSE UNCHANGED <<ratio, sinceAdjust>>

-----------------------------------------------------------------------------
(* Operations.                                                             *)

Init ==
  /\ users = <<>> /\ latest = <<>> /\ displays = <<>>
  /\ fps = FPS /\ ratio = BR_BALANCED /\ abr = TRUE
  /\ newUser = TRUE /\ sinceAdjust = 0
  /\ waiting = [u \in User |-> None] /\ due = {}

on_connection_open(u) ==
  /\ u \notin DOMAIN users
  /\ users' = [i \in DOMAIN users \cup {u} |-> IF i = u THEN UserData ELSE users[i]]
  /\ abr' \in BOOLEAN
  /\ newUser' = TRUE
  /\ waiting' = [waiting EXCEPT ![u] = None]
  /\ UNCHANGED <<latest, displays, fps, ratio, sinceAdjust, due>>

on_connection_close(u) ==
  /\ u \in DOMAIN users
  /\ users' = [i \in DOMAIN users \ {u} |-> users[i]]
  /\ IF DOMAIN users = {u}
     THEN /\ displays' = <<>> /\ latest' = <<>>
          /\ fps' = FPS /\ ratio' = BR_BALANCED /\ abr' = TRUE
          /\ newUser' = TRUE /\ sinceAdjust' = 0
     ELSE /\ latest' = SelectSeq(latest, LAMBDA i : i # u)
          /\ UNCHANGED <<displays, fps, ratio, abr, newUser, sinceAdjust>>
  /\ waiting' = [waiting EXCEPT ![u] = None]
  /\ due' = due \ {u}

user_custom_fps(u, f) ==
  /\ u \in DOMAIN users /\ f \in MIN_FPS..MAX_FPS
  /\ users' = [users EXCEPT ![u].custom_fps = f]
  /\ UNCHANGED <<latest, displays, fps, ratio, abr, newUser, sinceAdjust, waiting, due>>

user_auto_adjust_fps(u, f) ==
  /\ u \in DOMAIN users /\ f \in MIN_FPS..MAX_FPS
  /\ users' = [users EXCEPT ![u].auto_adjust_fps = f]
  /\ UNCHANGED <<latest, displays, fps, ratio, abr, newUser, sinceAdjust, waiting, due>>

user_image_quality(u, q) ==
  /\ u \in DOMAIN users
  /\ users' = [users EXCEPT ![u].quality = convert_quality(q)]
  /\ latest' = Append(SelectSeq(latest, LAMBDA i : i # u), u)
  /\ ratio' = convert_quality(q).ratio
  /\ UNCHANGED <<displays, fps, abr, newUser, sinceAdjust, waiting, due>>

\* Connection: the answer to TestDelay, and VideoQoS::user_network_delay. An
\* answer d ms after the question comes in the second d \div 1000 of the wait.
user_network_delay(u, d) ==
  /\ u \in DOMAIN users /\ ~Null(waiting[u]) /\ waiting[u] = AtMost(d \div 1000, 3)
  /\ LET target == latest_quality(users, latest).ratio
         us == [users EXCEPT ![u] = on_delay(users[u], d, fps, target, highest_fps(users))]
     IN /\ users' = us
        /\ fps' = adjusted_fps(us, newUser)
        /\ IF Null(users[u].fps) /\ ~Linux THEN adjust_ratio(us, latest, FALSE)
           ELSE UNCHANGED <<ratio, sinceAdjust>>
  /\ waiting' = [waiting EXCEPT ![u] = None]
  /\ UNCHANGED <<latest, displays, abr, newUser, due>>

\* The connection's test_delay_timer: a question when none is open, then
\* VideoQoS::user_delay_response_elapsed.
TestDelayTimer(u) ==
  /\ u \in due \cap DOMAIN users
  /\ LET age == IF Null(waiting[u]) THEN 0 ELSE AtMost(waiting[u] + 1, 3)
         late == 1000 * age > 2000
         us == [users EXCEPT ![u] = IF late THEN [add_delay(@, 1000 * age) EXCEPT !.delayed = TRUE]
                                    ELSE [@ EXCEPT !.delayed = FALSE]]
     IN /\ waiting' = [waiting EXCEPT ![u] = age]
        /\ users' = us
        /\ fps' = IF late THEN adjusted_fps(us, newUser) ELSE fps
  /\ due' = due \ {u}
  /\ UNCHANGED <<latest, displays, ratio, abr, newUser, sinceAdjust>>

\* Raii::new and, once there is an encoder, set_support_changing_quality.
new_display(d, support) ==
  /\ users # <<>> /\ d \notin DOMAIN displays
  /\ displays' = [i \in DOMAIN displays \cup {d} |-> IF i = d THEN support ELSE displays[i]]
  /\ UNCHANGED <<users, latest, fps, ratio, abr, newUser, sinceAdjust, waiting, due>>

remove_display(d) ==
  /\ d \in DOMAIN displays
  /\ displays' = [i \in DOMAIN displays \ {d} |-> displays[i]]
  /\ due' = due \ {d}
  /\ UNCHANGED <<users, latest, fps, ratio, abr, newUser, sinceAdjust, waiting>>

\* check_qos, once a second. dynamic: enough frames were sent.
update_display_data(d, dynamic) ==
  /\ d \in due
  /\ fps' = adjusted_fps(users, newUser)
  /\ IF in_vbr_state
     THEN IF sinceAdjust >= ADJUST_RATIO_INTERVAL THEN adjust_ratio(users, latest, dynamic)
          ELSE UNCHANGED <<ratio, sinceAdjust>>
     ELSE ratio' = latest_quality(users, latest).ratio /\ UNCHANGED sinceAdjust
  /\ due' = due \ {d}
  /\ UNCHANGED <<users, latest, displays, abr, newUser, waiting>>

\* A second has passed; every timer is due again.
Second ==
  /\ due = {} /\ users # <<>>
  /\ due' = DOMAIN users \cup DOMAIN displays
  /\ newUser' = FALSE
  /\ sinceAdjust' = AtMost(sinceAdjust + 1, ADJUST_RATIO_INTERVAL)
  /\ UNCHANGED <<users, latest, displays, fps, ratio, abr, waiting>>

Next ==
  \/ \E u \in User : \/ on_connection_open(u) \/ on_connection_close(u) \/ TestDelayTimer(u)
                     \/ \E f \in Fps : user_custom_fps(u, f) \/ user_auto_adjust_fps(u, f)
                     \/ \E q \in Qualities : user_image_quality(u, q)
                     \/ \E d \in Delays : user_network_delay(u, d)
  \/ \E d \in Display : \/ \E b \in BOOLEAN : new_display(d, b) \/ update_display_data(d, b)
                        \/ remove_display(d)
  \/ Second

Spec == Init /\ [][Next]_vars

\* What fairness is about, without the arithmetic: a timer that is due fires, a
\* question is answered.
Fires(x) == x \in due /\ due' = due \ {x}
Answered(u) == ~Null(waiting[u]) /\ waiting' = [waiting EXCEPT ![u] = None]

\* The timers fire, and a client that stays connected answers.
FairSpec ==
  /\ Spec /\ WF_vars(Second)
  /\ \A x \in User \cup Display : WF_due(Fires(x))
  /\ \A u \in User : WF_waiting(Answered(u))

-----------------------------------------------------------------------------
(* Properties.                                                             *)

TypeOK ==
  /\ DOMAIN users \subseteq User /\ ToSet(latest) \subseteq DOMAIN users
  /\ \A u \in DOMAIN users : /\ Len(users[u].history) <= HISTORY_DELAY_LEN + 1
                             /\ Len(users[u].samples) <= WINDOW_SAMPLES
                             /\ users[u].fps \in {None} \cup MIN_FPS..MAX_FPS
                             /\ users[u].quick \in 0..2 /\ users[u].inc \in 0..2
  /\ fps \in MIN_FPS..MAX_FPS /\ displays \in UNION {[D -> BOOLEAN] : D \in SUBSET Display}
  /\ due \subseteq DOMAIN users \cup DOMAIN displays \cup Display

\* As long as one user's answer is more than two seconds late, all displays are
\* captured at most twice a second, whoever else joins, leaves or answers
\* (adjust_fps is reached from every place that changes a user's delay).
LateUserSlowsAll == (\E u \in DOMAIN users : users[u].delayed) => fps <= MIN_FPS + 1

\* The round trip that avg_delay subtracts is never above the average it is
\* subtracted from: u32 subtraction cannot wrap, and the branch without
\* subtraction is taken only when both are equal (RttCalculator::update).
RttBelowMean == \A u \in DOMAIN users :
  ~Null(get_rtt(users[u])) => get_rtt(users[u]) <= Mean(users[u])

\* f32::clamp panics when its bounds are out of order: whichever user set the
\* quality last, and whatever the bitrate, adjust_ratio's are in order, and the
\* ratio stays in the range in which VideoQoS::ratio leaves it alone.
RatioInRange ==
  /\ \A m \in RatioFloors(latest_quality(users, latest)) : m <= latest_quality(users, latest).ratio
  /\ BR_MIN_HIGH_RESOLUTION <= ratio /\ ratio <= BR_MAX

\* "Average delay minus RTT" (avg_delay). Violated: with a steady delay the two
\* are equal, and the whole delay is returned.
DelayMinusRtt == \A u \in DOMAIN users :
  ~Null(get_rtt(users[u])) => avg_delay(users[u]) = Mean(users[u]) - get_rtt(users[u])

\* The last answer of every user was fast.
GoodNetwork == users # <<>> /\ \A u \in DOMAIN users : users[u].history # <<>> /\ Last(users[u].history) < 50

\* When the network is good from some time on, the frame rate is raised until it
\* is the highest one the users allow, whatever delays came before
\* (user_network_delay: "increase fps").
SpeedsUp == <>[]GoodNetwork => <>[](fps = highest_fps(users))
=============================================================================
