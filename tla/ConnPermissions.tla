--------------------------- MODULE ConnPermissions ---------------------------
(***************************************************************************)
(* What an authorised remote-control connection subscribes to.  The local  *)
(* user takes permissions away and gives them back in the connection       *)
(* manager, the peer sets its options and its displays, and each handler   *)
(* updates only the subscriptions it knows to depend on what it changed.   *)
(* The services may be subscribed late, after the peer has chosen a user   *)
(* session; options and switches are handled before that as well.          *)
(***************************************************************************)
EXTENDS Naturals, FiniteSets

CONSTANTS Display,  \* 0 is the primary one
          OneWayClipboard, OneWayFile \* built-in options

ASSUME PermAssumption ==
    /\ 0 \in Display /\ IsFiniteSet(Display)
    /\ OneWayClipboard \in BOOLEAN /\ OneWayFile \in BOOLEAN

Permission == {"keyboard", "clipboard", "audio", "file"}
Option == {"disable_audio", "disable_clipboard", "disable_keyboard", "enable_file_transfer",
           "show_remote_cursor", "follow_remote_window"}

VARIABLES perm,   \* what the local user permits
          opt,    \* what the peer has set to Yes
          subs,   \* services the connection is subscribed to, displays aside
          shown,  \* displays it is subscribed to
          multi,  \* multi_ui_session
          subed   \* services_subed

permVars == <<perm, opt, subs, shown, multi, subed>>

PermInit ==
    /\ perm \in SUBSET Permission /\ opt = {} /\ subs = {} /\ shown = {}
    /\ multi = FALSE /\ subed = FALSE

peer_keyboard_enabled(p, o) == "keyboard" \in p /\ "disable_keyboard" \notin o
clipboard_enabled(p, o) == "clipboard" \in p /\ "disable_clipboard" \notin o
can_sub_clipboard_service(p, o) == clipboard_enabled(p, o) /\ peer_keyboard_enabled(p, o) /\ ~OneWayClipboard
audio_enabled(p, o) == "audio" \in p /\ "disable_audio" \notin o
file_transfer_enabled(p, o) == "file" \in p /\ "enable_file_transfer" \in o
can_sub_file_clipboard_service(p, o) == clipboard_enabled(p, o) /\ file_transfer_enabled(p, o) /\ ~OneWayFile
cursor_wanted(p, o) == peer_keyboard_enabled(p, o) \/ "show_remote_cursor" \in o

\* Server::subscribe for some services at once: on is the set of those wanted.
subscribe(services, on) == subs' = (subs \ services) \cup (services \cap on)

When(service, b) == IF b THEN {service} ELSE {}

\* All services but the ones not permitted, and the primary display.
try_sub_monitor_services ==
    /\ ~subed /\ subed' = TRUE
    /\ subs' = subs \cup When("cursor", cursor_wanted(perm, opt))
                    \cup When("pos", "show_remote_cursor" \in opt)
                    \cup When("focus", "follow_remote_window" \in opt)
                    \cup When("clipboard", can_sub_clipboard_service(perm, opt))
                    \cup When("file_clipboard", can_sub_file_clipboard_service(perm, opt))
                    \cup When("audio", audio_enabled(perm, opt))
    /\ shown' = shown \cup {0}
    /\ UNCHANGED <<perm, opt, multi>>

\* Mutant: the clipboard is not looked at when the keyboard is switched.
SwitchPermission_keyboard_only(n, enabled) ==
    LET p == IF enabled THEN perm \cup {n} ELSE perm \ {n} IN
    /\ perm' = p
    /\ \/ n = "keyboard" /\ subscribe({"cursor"}, When("cursor", enabled \/ "show_remote_cursor" \in opt))
       \/ n = "clipboard" /\ subscribe({"clipboard"}, When("clipboard", can_sub_clipboard_service(p, opt)))
       \/ n = "audio" /\ subscribe({"audio"}, When("audio", audio_enabled(p, opt)))
       \/ n = "file" /\ subscribe({"file_clipboard"}, When("file_clipboard", can_sub_file_clipboard_service(p, opt)))
    /\ UNCHANGED <<opt, shown, multi, subed>>

\* The connection manager switches a permission.
SwitchPermission(n, enabled) ==
    LET p == IF enabled THEN perm \cup {n} ELSE perm \ {n} IN
    /\ perm' = p
    /\ \/ /\ n = "keyboard"
          /\ subscribe({"clipboard", "file_clipboard", "cursor"},
                       When("clipboard", can_sub_clipboard_service(p, opt))
                       \cup When("file_clipboard", can_sub_file_clipboard_service(p, opt))
                       \cup When("cursor", enabled \/ "show_remote_cursor" \in opt))
       \/ n = "clipboard" /\ subscribe({"clipboard"}, When("clipboard", can_sub_clipboard_service(p, opt)))
       \/ n = "audio" /\ subscribe({"audio"}, When("audio", audio_enabled(p, opt)))
       \/ n = "file" /\ subscribe({"file_clipboard"}, When("file_clipboard", can_sub_file_clipboard_service(p, opt)))
    /\ UNCHANGED <<opt, shown, multi, subed>>

\* Mutant: the position of the cursor is forgotten.
Affected_no_pos(name) ==
    [show_remote_cursor |-> {"cursor"}, follow_remote_window |-> {"focus"}, disable_audio |-> {"audio"},
     enable_file_transfer |-> {"file_clipboard"}, disable_clipboard |-> {"clipboard"},
     disable_keyboard |-> {"clipboard", "file_clipboard", "cursor"}][name]

\* Mutant: files are left alone when file transfer is switched.
Affected_no_files(name) ==
    [show_remote_cursor |-> {"cursor", "pos"}, follow_remote_window |-> {"focus"}, disable_audio |-> {"audio"},
     enable_file_transfer |-> {}, disable_clipboard |-> {"clipboard"},
     disable_keyboard |-> {"clipboard", "file_clipboard", "cursor"}][name]

\* The services one option of the peer decides about, and those of them that are wanted.
Affected(name) ==
    [show_remote_cursor |-> {"cursor", "pos"}, follow_remote_window |-> {"focus"}, disable_audio |-> {"audio"},
     enable_file_transfer |-> {"file_clipboard"}, disable_clipboard |-> {"clipboard"},
     disable_keyboard |-> {"clipboard", "file_clipboard", "cursor"}][name]

Wanted(o) ==
    When("cursor", cursor_wanted(perm, o))
    \cup When("pos", "show_remote_cursor" \in o) \cup When("focus", "follow_remote_window" \in o)
    \cup When("clipboard", can_sub_clipboard_service(perm, o))
    \cup When("file_clipboard", can_sub_file_clipboard_service(perm, o)) \cup When("audio", audio_enabled(perm, o))

\* One option of an OptionMessage; a message with several is a sequence of these.
update_options(name, yes) ==
    LET o == IF yes THEN opt \cup {name} ELSE opt \ {name} IN
    /\ opt' = o
    /\ subscribe(Affected(name), Wanted(o))
    /\ UNCHANGED <<perm, shown, multi, subed>>

\* Mutant: the focus is not followed again when one display is left.
capture_displays_once(S) ==
    /\ subed /\ S # {}
    /\ shown' = S /\ multi' = (Cardinality(S) > 1)
    /\ IF multi' THEN subscribe({"focus"}, {}) ELSE UNCHANGED subs
    /\ UNCHANGED <<perm, opt, subed>>

\* Mutant: the displays are counted before they are set.
capture_displays_early(S) ==
    /\ subed /\ S # {}
    /\ shown' = S /\ multi' = (Cardinality(shown) > 1)
    /\ IF "follow_remote_window" \in opt THEN subscribe({"focus"}, When("focus", Cardinality(S) <= 1))
       ELSE UNCHANGED subs
    /\ UNCHANGED <<perm, opt, subed>>

\* The displays to capture are set.
capture_displays(S) ==
    /\ subed /\ S # {}
    /\ shown' = S /\ multi' = (Cardinality(S) > 1)
    /\ IF "follow_remote_window" \in opt THEN subscribe({"focus"}, When("focus", Cardinality(S) <= 1))
       ELSE UNCHANGED subs
    /\ UNCHANGED <<perm, opt, subed>>

PermNext ==
    \/ try_sub_monitor_services
    \/ \E n \in Permission, b \in BOOLEAN : SwitchPermission(n, b)
    \/ \E n \in Option, b \in BOOLEAN : update_options(n, b)
    \/ \E S \in SUBSET Display : capture_displays(S)

PermSpec == PermInit /\ [][PermNext]_permVars
-----------------------------------------------------------------------------
\* Types; until the services are subscribed nothing is captured.
PermTypeOK ==
    /\ perm \in SUBSET Permission /\ opt \in SUBSET Option
    /\ subs \in SUBSET {"cursor", "pos", "focus", "clipboard", "file_clipboard", "audio"}
    /\ shown \in SUBSET Display /\ multi = (Cardinality(shown) > 1) /\ subed = (shown # {})

\* Clipboard and sound go to the peer exactly as long as the local user permits them and the peer
\* wants them, although five handlers change what they depend on.
SubscribedAsPermitted ==
    /\ "clipboard" \in subs => can_sub_clipboard_service(perm, opt)
    /\ "audio" \in subs => audio_enabled(perm, opt)
    /\ subed => /\ can_sub_clipboard_service(perm, opt) => "clipboard" \in subs
                /\ audio_enabled(perm, opt) => "audio" \in subs

\* Files are announced only while both sides allow file transfer.  The clipboard permission is not
\* part of it: switching the clipboard does not update this subscription.
FilesAsPermitted == "file_clipboard" \in subs => file_transfer_enabled(perm, opt) /\ ~OneWayFile

\* The cursor's shape is sent whenever the peer may use the keyboard or has asked to see the cursor,
\* its position only in the latter case.
CursorFollows ==
    /\ subed /\ cursor_wanted(perm, opt) => "cursor" \in subs
    /\ "cursor" \in subs => "keyboard" \in perm \/ "show_remote_cursor" \in opt
    /\ "pos" \in subs => "show_remote_cursor" \in opt
    /\ subed /\ "show_remote_cursor" \in opt => "pos" \in subs

\* The focused window is followed only on request, and with one display always when requested.
FocusFollows ==
    /\ "focus" \in subs => "follow_remote_window" \in opt
    /\ subed /\ "follow_remote_window" \in opt /\ ~multi => "focus" \in subs

\* The three together: no handler forgets a service that depends on what it changed.
OthersAsPermitted == FilesAsPermitted /\ CursorFollows /\ FocusFollows
=============================================================================
