------------------------------ MODULE MCAccess ------------------------------
(****************************************************************************)
(* What a connection may do, for TLC: its permissions, the limits on wrong  *)
(* passwords and on logins to the operating system, voice calls and         *)
(* privacy mode. They share no variable, so nothing is lost when one of     *)
(* them moves and the others stay as they were in the beginning: which      *)
(* says which one it is.                                                    *)
(****************************************************************************)
EXTENDS ConnPermissions, OsCredential, TLC

CONSTANTS c1, c2, net, a

VARIABLES which, minute, LOGIN_FAILURES, lpc, at, snap, temporary, wrong, late, row, cl, cn, cm, up, down, toCm, fromCm,
          asked, crossed, pm, lock, st, job, timed, allowed, postfail, gaveUp, torn, crashed,
          recreate, current, info, wouldblock, w, r, hp, c, cd, para, first, failed, gdi, iw, vp, want, size, back, got,
          restarts, timeouts, lost,
          STARTING, RUNNING, STARTING_TOKEN, token, shmem, written, entry, ask, watch, helper, server, task, ponged,
          overlap

\* Two connections of one IPv6 address; the prefix allows one failure more than the address.
Limits == INSTANCE LoginLimits WITH Keys <- [x \in {c1, c2} |-> <<net, a>>], Limit <- (net :> 3) @@ (a :> 2),
    MinuteMax <- 1, MAX_CONSECUTIVE_FAILURES <- 2, MaxTime <- 2, now <- minute, pc <- lpc, state <- temporary
Calls == INSTANCE VoiceCall WITH ViewCamera <- TRUE, MaxRequests <- 2, MaxChan <- 3
Privacy == INSTANCE PrivacyMode WITH Impl <- {"window", "idd"}, perm <- allowed, late <- gaveUp
Frames == INSTANCE PortableCapture WITH Display <- {0, 1}, Size <- [d \in {0, 1} |-> d + 1], CounterMod <- 3,
    MAX_DXGI_FAIL_TIME <- 1, MaxRestarts <- 1, MaxTimeouts <- 1
Launches == INSTANCE PortableLaunch WITH MaxLaunch <- 2, call <- ask

Symmetry == Permutations({c1, c2})

limits == <<minute, LOGIN_FAILURES, lpc, at, snap, temporary, wrong, late, row>>
calls == <<cl, cn, cm, up, down, toCm, fromCm, asked, crossed>>
privacy == <<pm, lock, st, job, timed, allowed, postfail, gaveUp, torn, crashed>>
capture == <<recreate, current, info, wouldblock, w, r, hp, c, cd, para, first, failed, gdi, iw, vp, want, size, back,
             got, restarts, timeouts, lost>>
launches == <<STARTING, RUNNING, STARTING_TOKEN, token, shmem, written, entry, ask, watch, helper, server, task,
              ponged, overlap>>
conn == <<permVars, vars, limits, calls, privacy>>
portable == <<capture, launches>>
all == <<which, conn, portable>>

\* Bound: of the mishaps of a privacy mode (a message not posted, waiting given up, a crash) one happens.
OneMishap == which = "privacy" => ~(postfail /\ crashed) /\ (gaveUp # {} => ~postfail /\ ~crashed)

MCInit ==
    /\ which \in {"permissions", "credential", "limits", "calls", "privacy", "frames", "launches"}
    /\ PermInit /\ (which # "permissions" => perm = {})
    /\ Init /\ Limits!Init
    /\ Calls!Init /\ (which # "calls" => cn.enabled)
    /\ Privacy!PrivacyInit /\ (which # "privacy" => pm.impl = "window")
    /\ Frames!Init /\ Launches!Init

MCNext ==
    /\ UNCHANGED which
    /\ \/ which = "permissions" /\ PermNext /\ UNCHANGED <<vars, limits, calls, privacy, portable>>
       \/ which = "credential" /\ Next /\ UNCHANGED <<permVars, limits, calls, privacy, portable>>
       \/ which = "limits" /\ Limits!Next /\ UNCHANGED <<permVars, vars, calls, privacy, portable>>
       \/ which = "calls" /\ Calls!Next /\ UNCHANGED <<permVars, vars, limits, privacy, portable>>
       \/ which = "privacy" /\ Privacy!PrivacyNext /\ UNCHANGED <<permVars, vars, limits, calls, portable>>
       \/ which = "frames" /\ Frames!Next /\ UNCHANGED <<conn, launches>>
       \/ which = "launches" /\ Launches!Next /\ UNCHANGED <<conn, capture>>

MCSpec == MCInit /\ [][MCNext]_all
-----------------------------------------------------------------------------
\* check_failure and update_failure: overlapping attempts compare at most one wrong password per
\* connection above the limit of an address or prefix.  check_update_temporary_password: a temporary
\* password meets at most one wrong attempt per connection above its limit.
LoginBounded == Limits!TypeOK /\ Limits!AttemptsBounded /\ Limits!RotationBounded

\* Once everything sent has been handled, client and connection agree whether a voice call is on or
\* waiting; the connection manager always shows a call that is on, or a request that can be dismissed;
\* a view-camera connection gets the sound exactly during a call for which sound is enabled; and the
\* input device of a call is given back on both sides.
CallAgreed ==
    which = "calls" =>
        Calls!TypeOK /\ Calls!SidesAgree /\ Calls!LocalUserInControl /\ Calls!SoundAsCalled /\ Calls!DeviceReleased

\* turn_off_privacy: when no one has the privacy mode on, input and screens are free, whatever failed
\* on the way; a connection that ended, or whose permission was taken away, does not own the mode; and
\* while the displays are disabled, what enables them after a crash is saved.
PrivacyKept ==
    which = "privacy" => Privacy!PrivacyTypeOK /\ Privacy!NothingLeft /\ Privacy!OwnerEntitled /\ Privacy!Recoverable

\* The portable service.  CapturerPortable::frame: a frame that reaches the encoder has pixels and the
\* size the encoder was made for.  RUNNING stays set while the connection of a helper that has answered
\* is served.  The token the IPC server waits for is the one in the memory it shares with the helper,
\* unless two launches were prepared at once.
PortableKept ==
    /\ Frames!TypeOK /\ Frames!FrameValid
    /\ Launches!TypeOK /\ Launches!RunningKept /\ Launches!TokenInMemory
=============================================================================
