------------------------------ MODULE Syspopup ------------------------------
(***************************************************************************)
(* The Wi-Fi system popup (wifi-syspopup/): a list of APs over another     *)
(* application, the password popup and the EAP popup over that, and a      *)
(* result, Wi-Fi or 3G, published when it ends.                            *)
(*                                                                         *)
(* A redraw of the list frees its rows.  The password popup's callbacks    *)
(* hold the row it was opened from: passpopup.row is that row's place in   *)
(* the list, and 0 once the row was freed.  What a callback does with      *)
(* freed memory is undefined: it goes on as if the memory were intact, or  *)
(* crashes.  Signal strength, icons and texts are left out.  The daemon is *)
(* external; closing a connection is taken to be immediate.                *)
(***************************************************************************)
EXTENDS ScanFlags, Sequences, FiniteSets

CONSTANTS AP,         \* the profiles
          NoAP,       \* no profile
          MaxTimers,  \* bound on armed 0.1 s timers
          MaxShows,   \* bound on queued view_main_show idlers
          MaxEvents   \* bound on events posted and not delivered

ASSUME SyspopupAssumption ==
    /\ NoAP \notin AP /\ IsFiniteSet(AP)
    /\ {MaxIdlers, MaxTimers, MaxShows, MaxEvents} \subseteq Nat \ {0}

VARIABLES
    phase,         \* "starting", "running", "exited", "crashed"
    gate,          \* wlan_manager's flags and queued _refresh_ui idlers
    owed,          \* history: results came while the gate was shut and no redraw since
    asked,         \* history: a scan was accepted and no results came since
    timers,        \* armed _enable_scan_updates_cb timers
    shows,         \* queued view_main_show idlers
    rows,          \* the genlist: each row's AP and connection_mode
    passpopup,     \* the password popup and the row it holds
    eapPopup,      \* the EAP popup is open
    alert,         \* alertpopup: "Activating", a notice, or one that is gone
    wifi_qs_exit,  \* memory/wifi/wifi_qs_exit
    link,          \* the daemon's link: its state and AP; "OFF" without power
    events         \* events of the daemon, oldest first

flags  == <<gate, owed, asked>>
idlers == <<timers, shows>>
popups == <<passpopup, eapPopup, alert>>
daemon == <<link, events>>
vars   == <<phase, flags, idlers, rows, popups, wifi_qs_exit, daemon>>

Modes == {"OFF", "CONNECTING"}
Row(a, mode) == [ap |-> a, connection_mode |-> mode]
Rows == [ap : AP, connection_mode : Modes]

NoPopup == [st |-> "none", row |-> 0]

Links == [st : {"OFF", "IDLE"}, ap : {NoAP}] \cup [st : {"CONNECTING", "CONNECTED"}, ap : AP]
Idle == [st |-> "IDLE", ap |-> NoAP]
Off  == [st |-> "OFF", ap |-> NoAP]
Opening(a) == [st |-> "CONNECTING", ap |-> a]

Fails == {"FAIL", "FAIL_TIMEOUT"}
EventTypes == {"POWER_ON_OK", "POWER_OFF_OK", "POWER_ON_FAILED", "CONNECTION_OK"} \cup Fails

\* The variables keep their ranges; in particular the row a popup holds is a row
\* of the list as it now is, whatever has been redrawn.
TypeOK ==
    /\ phase \in {"starting", "running", "exited", "crashed"}
    /\ gate \in Gates /\ owed \in BOOLEAN /\ asked \in BOOLEAN
    /\ timers \in 0..MaxTimers
    /\ shows \in 0..MaxShows
    /\ rows \in Seq(Rows)
    /\ passpopup.st \in {"none", "entry", "wps"}
    /\ passpopup.row \in {0} \cup DOMAIN rows
    /\ eapPopup \in BOOLEAN
    /\ alert \in {"none", "activating", "notice", "gone"}
    /\ wifi_qs_exit \in {"unset", "3G", "WIFI"}
    /\ link \in Links
    /\ events \in Seq([type : EventTypes, ap : AP \cup {NoAP}])
    /\ Len(events) <= MaxEvents

-----------------------------------------------------------------------------
(* The list: view-main.c.                                                   *)

\* The profile table, each profile once.
Tables ==
    {t \in UNION {[1..n -> AP] : n \in 0..Cardinality(AP)} :
        \A i, j \in DOMAIN t : t[i] = t[j] => i = j}

OffRows(t) == [i \in DOMAIN t |-> Row(t[i], "OFF")]

\* view_main_show's two loops: the first stops at the connecting AP without
\* stepping over it, and the second goes on from there.
ListOf(t, connecting) ==
    IF \A i \in DOMAIN t : t[i] # connecting
    THEN OffRows(t)
    ELSE LET k == CHOOSE i \in DOMAIN t : t[i] = connecting
         IN  Append(OffRows(SubSeq(t, 1, k - 1)), Row(connecting, "CONNECTING"))
                 \o OffRows(SubSeq(t, k, Len(t)))

\* What the list may be after a redraw with the daemon in state l.  The state
\* query may fail and the table be NULL: then it stays empty.
Drawn(l) ==
    IF l.st = "OFF" THEN {<<>>}
    ELSE {ListOf(t, IF l.st = "CONNECTING" THEN l.ap ELSE NoAP) : t \in Tables}

\* view_main_state_get.
NoRowConnecting == \A i \in DOMAIN rows : rows[i].connection_mode # "CONNECTING"

-----------------------------------------------------------------------------

Running == phase = "running"
Survives(ok) == phase' \in IF ok THEN {phase} ELSE {phase, "crashed"}
Covered == passpopup.st # "none" \/ eapPopup

\* wifi_syspopup_destroy and wifi_syspopup_exit: the list and the password popup
\* go, the result is published, the main loop ends.
Destroy(result) ==
    /\ phase' = "exited"
    /\ wifi_qs_exit' = result
    /\ rows' = <<>>
    /\ passpopup' = NoPopup
    /\ UNCHANGED <<flags, idlers, eapPopup>>

\* Mutant of RefreshCallback: the alert popup stays.
RefreshCallbackKeepsAlert ==
    /\ shows < MaxShows
    /\ shows' = shows + 1
    /\ UNCHANGED <<phase, alert>>

\* wlan_engine_refresh_callback: the alert popup is deleted, also one that has
\* deleted itself, and the redraw is left to an idler.
RefreshCallback ==
    /\ shows < MaxShows
    /\ shows' = shows + 1
    /\ Survives(alert # "gone")
    /\ alert' = "none"

\* connman_request_connection_open: a request while another is under way is in
\* progress, which counts as accepted.
OpenAccepted(a) ==
    /\ link.st # "OFF"
    /\ link' = IF link.st = "CONNECTING" THEN link ELSE Opening(a)
    /\ UNCHANGED events

Closed(a) == IF link.st # "OFF" /\ link.ap = a THEN Idle ELSE link

Init ==
    /\ phase = "starting"
    /\ gate = OpenGate /\ owed = FALSE /\ asked = FALSE
    /\ timers = 0 /\ shows = 0
    /\ rows = <<>>
    /\ passpopup = NoPopup /\ eapPopup = FALSE /\ alert = "none"
    /\ wifi_qs_exit = "unset"
    /\ link \in Links
    /\ events = <<>>

-----------------------------------------------------------------------------
(* app_reset.                                                               *)

\* With "-t", when the daemon refuses the registration, or when _power_on_check
\* says so, the popup ends before it is shown.
LaunchAndEnd ==
    /\ phase = "starting"
    /\ Destroy("3G")
    /\ UNCHANGED <<alert, daemon>>

\* The popup is shown.  Without power it was asked for and "Activating" shows,
\* unless the hotspot is on; profiles already known are drawn at once.  If
\* syspopup_create fails, the program ends without a result.
Launch ==
    /\ phase = "starting"
    /\ link.st # "CONNECTED"
    /\ \/ /\ phase' = "running"
          /\ \/ shows' = 1 /\ alert' = "none"
             \/ shows' = 0 /\ alert' \in IF link.st = "OFF" THEN {"activating", "none"} ELSE {"none"}
       \/ phase' = "exited" /\ UNCHANGED <<shows, alert>>
    /\ UNCHANGED <<flags, timers, rows, passpopup, eapPopup, wifi_qs_exit, daemon>>

-----------------------------------------------------------------------------
(* Input to the list: _gl_sel.                                              *)

\* An alert popup takes the input of what is under it.
NoAlert == alert \in {"none", "gone"}
CanTap(i) == Running /\ ~Covered /\ NoAlert /\ i \in DOMAIN rows

\* Mutant of TapConnect: a tap is taken while another row is connecting.
TapConnectAnyway(i) ==
    /\ CanTap(i)
    /\ OpenAccepted(rows[i].ap)
    /\ rows' = [rows EXCEPT ![i].connection_mode = "CONNECTING"]
    /\ UNCHANGED <<phase, flags, idlers, popups, wifi_qs_exit>>

TapConnect(i) ==
    /\ CanTap(i) /\ NoRowConnecting
    /\ OpenAccepted(rows[i].ap)
    /\ rows' = [rows EXCEPT ![i].connection_mode = "CONNECTING"]
    /\ UNCHANGED <<phase, flags, idlers, popups, wifi_qs_exit>>

\* An AP with a password: common_pswd_popup_create.  The bound leaves a timer for
\* the popup to arm when it closes.
TapSecured(i) ==
    /\ CanTap(i) /\ NoRowConnecting
    /\ timers < MaxTimers
    /\ passpopup' = [st |-> "entry", row |-> i]
    /\ gate' = Disable(gate)
    /\ UNCHANGED <<owed, asked, phase, idlers, rows, eapPopup, alert, wifi_qs_exit, daemon>>

\* create_eap_connect as a popup.
TapEap(i) ==
    /\ CanTap(i) /\ NoRowConnecting
    /\ eapPopup' = TRUE
    /\ gate' = Disable(gate)
    /\ UNCHANGED <<owed, asked, phase, idlers, rows, passpopup, alert, wifi_qs_exit, daemon>>

\* The request is refused: view_main_refresh.
TapRefused(i) ==
    /\ CanTap(i) /\ NoRowConnecting
    /\ rows' \in Drawn(link)
    /\ UNCHANGED <<phase, flags, idlers, popups, wifi_qs_exit, daemon>>

\* The Cancel button of the popup, which the others cover, or myterm.
UserExit ==
    /\ Running
    /\ Destroy("3G")
    /\ UNCHANGED <<alert, daemon>>

-----------------------------------------------------------------------------
(* Input to the password popup and the EAP popup.                           *)

CanType == Running /\ passpopup.st = "entry" /\ NoAlert
Held == passpopup.row # 0

\* The profile name read from the row: any, if the row was freed.
HeldAps == IF Held THEN {rows[passpopup.row].ap} ELSE AP

\* common_pswd_popup_destroy, which opens the gate 0.1 s later.
ClosePasspopup ==
    /\ passpopup' = NoPopup
    /\ timers' = timers + 1

\* _popup_ok_cb with a password of the wrong length: a notice for 2 s (none
\* under the quick panel), in place of the alert popup before it.
PasswordTooShort ==
    /\ CanType
    /\ Survives(Held /\ alert # "gone")
    /\ alert' = "notice"
    /\ UNCHANGED <<flags, idlers, rows, passpopup, eapPopup, wifi_qs_exit, daemon>>

\* _popup_ok_cb with one that is sent.
PasswordOk ==
    /\ CanType
    /\ Survives(Held)
    /\ \E mode \in Modes :
          /\ IF mode = "CONNECTING" THEN \E a \in HeldAps : OpenAccepted(a) ELSE UNCHANGED daemon
          /\ rows' = IF Held THEN [rows EXCEPT ![passpopup.row].connection_mode = mode] ELSE rows
    /\ ClosePasspopup
    /\ UNCHANGED <<flags, shows, eapPopup, alert, wifi_qs_exit>>

PasswordCancel ==
    /\ CanType
    /\ ClosePasspopup
    /\ UNCHANGED <<phase, flags, shows, rows, eapPopup, alert, wifi_qs_exit, daemon>>

\* common_pswd_popup_pbc_popup_create: the push-button popup takes the place of
\* the entry and holds the same row.
PbcPopup == passpopup' = [passpopup EXCEPT !.st = "wps"]

\* _wps_btn_cb, the request accepted.
WpsButton ==
    /\ CanType
    /\ Survives(Held)
    /\ \E a \in HeldAps : OpenAccepted(a)
    /\ PbcPopup
    /\ UNCHANGED <<flags, idlers, rows, eapPopup, alert, wifi_qs_exit>>

\* _wps_pbc_popup_cancel_connecting, by its button or after two minutes.
WpsCancel ==
    /\ Running /\ passpopup.st = "wps"
    /\ Survives(Held)
    /\ link' \in {Closed(a) : a \in HeldAps}
    /\ ClosePasspopup
    /\ UNCHANGED <<flags, shows, rows, eapPopup, alert, wifi_qs_exit, events>>

\* __common_eap_connect_destroy opens the gate itself.
CloseEap ==
    /\ Running /\ eapPopup /\ gate.idlers < MaxIdlers
    /\ eapPopup' = FALSE
    /\ gate' = Enable(gate)
    /\ UNCHANGED <<owed, asked, phase, idlers, rows, passpopup, alert, wifi_qs_exit>>

\* The Connect button; the popup goes whether or not the request is accepted, and
\* the row is not marked.
EapConnect ==
    /\ CloseEap
    /\ (\E a \in AP : OpenAccepted(a)) \/ UNCHANGED daemon

EapCancel == CloseEap /\ UNCHANGED daemon

-----------------------------------------------------------------------------
(* The main loop.                                                           *)

\* _enable_scan_updates_cb.
TimerFires ==
    /\ Running /\ gate.idlers < MaxIdlers
    /\ timers > 0
    /\ timers' = timers - 1
    /\ gate' = Enable(gate)
    /\ UNCHANGED <<owed, asked, phase, shows, rows, popups, wifi_qs_exit, daemon>>

\* _refresh_ui.
RefreshUi ==
    /\ Running
    /\ gate.idlers > 0
    /\ RefreshCallback
    /\ gate' = Drained(gate) /\ owed' = FALSE
    /\ UNCHANGED <<asked, timers, rows, passpopup, eapPopup, wifi_qs_exit, daemon>>

\* Mutant of ShowRows: the popup keeps its place in a list that is shorter.
ShowRowsKeepsHeld ==
    /\ Running
    /\ shows > 0
    /\ shows' = shows - 1
    /\ rows' \in Drawn(link)
    /\ UNCHANGED <<phase, flags, timers, passpopup, eapPopup, alert, wifi_qs_exit, daemon>>

\* view_main_show, from its idler.
ShowRows ==
    /\ Running
    /\ shows > 0
    /\ shows' = shows - 1
    /\ rows' \in Drawn(link)
    /\ passpopup' = [passpopup EXCEPT !.row = 0]
    /\ UNCHANGED <<phase, flags, timers, eapPopup, alert, wifi_qs_exit, daemon>>

\* The notice deletes itself; alertpopup still points to it.
NoticeTimesOut ==
    /\ Running
    /\ alert = "notice"
    /\ alert' = "gone"
    /\ UNCHANGED <<phase, flags, idlers, rows, passpopup, eapPopup, wifi_qs_exit, daemon>>

-----------------------------------------------------------------------------
(* Messages: wlan_engine_callback.                                          *)

Received(type) ==
    /\ Running
    /\ events # <<>> /\ Head(events).type = type
    /\ events' = Tail(events)

\* Mutant of ConnectionOk: while the password popup is open it is ignored.
ConnectionOkIgnored ==
    /\ Received("CONNECTION_OK")
    /\ IF Covered
       THEN UNCHANGED <<phase, flags, idlers, rows, popups, wifi_qs_exit>>
       ELSE Destroy("WIFI") /\ UNCHANGED alert
    /\ UNCHANGED link

\* CONNECTION_OK, CONNECTION_IND, WPS_ENROLL_OK.
ConnectionOk ==
    /\ Received("CONNECTION_OK")
    /\ Destroy("WIFI")
    /\ UNCHANGED <<alert, link>>

\* Mutant of ConnectionFailed: the popup is freed, not destroyed.
ConnectionFailedFreesPopup ==
    /\ \E t \in Fails : Received(t)
    /\ link' = IF Head(events).type = "FAIL_TIMEOUT" THEN Closed(Head(events).ap) ELSE link
    /\ passpopup' = NoPopup
    /\ rows' \in Drawn(link')
    /\ UNCHANGED <<phase, flags, idlers, eapPopup, alert, wifi_qs_exit>>

\* CONNECTION_FAIL_*, CONNECTION_INVALID_KEY, WPS_ENROLL_FAIL: the password popup
\* goes, whichever AP it is for, and the list is redrawn at once, past the gate.
\* After a timeout the connection is closed first.
ConnectionFailed ==
    /\ \E t \in Fails : Received(t)
    /\ link' = IF Head(events).type = "FAIL_TIMEOUT" THEN Closed(Head(events).ap) ELSE link
    /\ IF passpopup.st # "none" THEN ClosePasspopup ELSE UNCHANGED <<passpopup, timers>>
    /\ rows' \in Drawn(link')
    /\ UNCHANGED <<phase, flags, shows, eapPopup, alert, wifi_qs_exit>>

\* POWER_ON_OK: the first scan, accepted or refused.
PowerOnOk ==
    /\ Received("POWER_ON_OK")
    /\ \/ gate' = ScanRequested(gate) /\ asked' = TRUE /\ UNCHANGED owed
       \/ UNCHANGED flags
    /\ UNCHANGED <<phase, idlers, rows, popups, wifi_qs_exit, link>>

\* POWER_ON_NOT_SUPPORTED, POWER_ON_RESTRICTED.
PowerOnFailed ==
    /\ Received("POWER_ON_FAILED")
    /\ Destroy("3G")
    /\ alert' = "none"
    /\ UNCHANGED link

PowerOffOk ==
    /\ Received("POWER_OFF_OK")
    /\ Destroy("3G")
    /\ UNCHANGED <<alert, link>>

\* SCAN_OK and SCAN_RESULT_IND: wlan_manager_scanned_profile_refresh.
ScanResult ==
    /\ Running /\ link.st # "OFF"
    /\ owed' = gate.b_scan_blocked /\ asked' = FALSE
    /\ IF gate.b_scan_blocked
       THEN gate' = [gate EXCEPT !.b_ui_refresh = TRUE] /\ UNCHANGED <<phase, shows, alert>>
       ELSE RefreshCallback /\ UNCHANGED gate
    /\ UNCHANGED <<timers, rows, passpopup, eapPopup, wifi_qs_exit, daemon>>

-----------------------------------------------------------------------------
(* The daemon.                                                              *)

gadget == <<phase, flags, idlers, rows, popups, wifi_qs_exit>>

Post(types, a) ==
    /\ Len(events) + Len(types) <= MaxEvents
    /\ events' = events \o [i \in DOMAIN types |-> [type |-> types[i], ap |-> a]]

AutoJoin(a) ==
    /\ Running
    /\ link = Idle
    /\ link' = Opening(a)
    /\ UNCHANGED <<gadget, events>>

\* The connection succeeds, fails, or is closed on somebody's request, of which
\* the popup takes no notice (DISCONNECTION_OK, CANCEL_WPS_ENROLL_*).
Answered ==
    /\ Running
    /\ link.st = "CONNECTING"
    /\ \/ link' = [link EXCEPT !.st = "CONNECTED"] /\ Post(<<"CONNECTION_OK">>, link.ap)
       \/ link' = Idle /\ \E t \in Fails : Post(<<t>>, link.ap)
       \/ link' = Idle /\ UNCHANGED events
    /\ UNCHANGED gadget

\* DISCONNECTION_IND is not taken notice of either.
Dropped ==
    /\ Running
    /\ link.st = "CONNECTED"
    /\ link' = Idle
    /\ UNCHANGED <<gadget, events>>

\* Response and indication of one switch are both turned into this message.
SwitchedOn ==
    /\ Running
    /\ link = Off
    /\ link' = Idle
    /\ Post(<<"POWER_ON_OK">>, NoAP) \/ Post(<<"POWER_ON_OK", "POWER_ON_OK">>, NoAP)
    /\ UNCHANGED gadget

SwitchedOff ==
    /\ Running
    /\ link # Off
    /\ link' = Off
    /\ Post(<<"POWER_OFF_OK">>, NoAP)
    /\ UNCHANGED gadget

PowerRefused ==
    /\ Running
    /\ link = Off
    /\ Post(<<"POWER_ON_FAILED">>, NoAP)
    /\ UNCHANGED <<gadget, link>>

-----------------------------------------------------------------------------

Tap(i) == TapConnect(i) \/ TapSecured(i) \/ TapEap(i) \/ TapRefused(i)

User ==
    \/ \E i \in DOMAIN rows : Tap(i)
    \/ UserExit
    \/ PasswordTooShort \/ PasswordOk \/ PasswordCancel \/ WpsButton \/ WpsCancel
    \/ EapConnect \/ EapCancel

Environment ==
    \/ \E a \in AP : AutoJoin(a)
    \/ Answered \/ Dropped \/ SwitchedOn \/ SwitchedOff \/ PowerRefused

Delivery == ConnectionOk \/ ConnectionFailed \/ PowerOnOk \/ PowerOnFailed \/ PowerOffOk

Next ==
    \/ LaunchAndEnd \/ Launch
    \/ User \/ Environment \/ Delivery \/ ScanResult
    \/ TimerFires \/ RefreshUi \/ ShowRows \/ NoticeTimesOut

\* The main loop dispatches what is due, messages are delivered, a power request
\* is answered, and the daemon goes on scanning while the radio is on.
Fairness ==
    /\ WF_vars(TimerFires)
    /\ WF_vars(RefreshUi)
    /\ WF_vars(ShowRows)
    /\ WF_vars(Delivery)
    /\ WF_vars(ScanResult)
    /\ WF_vars(alert = "activating" /\ (SwitchedOn \/ PowerRefused))

Spec == Init /\ [][Next]_vars
FairSpec == Spec /\ Fairness

-----------------------------------------------------------------------------
(* Properties.                                                              *)

\* At most one row says that it is connecting.  Rows are marked by taps, by the
\* password popup for the row it holds, and by redraws, which may come between
\* the tap and the password, and mark an AP the daemon joins by itself
\* (_gl_sel, _popup_ok_cb, view_main_show).
OneConnectingRow ==
    \A i, j \in DOMAIN rows :
        rows[i].connection_mode = "CONNECTING" /\ rows[j].connection_mode = "CONNECTING" => i = j

\* The popups shut the gate; whichever way they go (their buttons, or a message
\* about another AP), somebody is left who opens it: otherwise the list would
\* never be redrawn again (common_pswd_popup.c, common_eap_connect.c).
GateIsGivenBack ==
    Running /\ gate.b_scan_blocked => Covered \/ timers > 0 \/ gate.idlers > 0

\* The system popup keeps wlan_manager.c's promise of ResultGate as the gadget does:
\* results that come under a popup are dropped by no path, and the gate opens over
\* them only with a redraw, which is then left to an idler, or with an accepted scan.
Ended == phase \in {"exited", "crashed"}
Promise == INSTANCE ResultGate WITH
    shut <- gate.b_scan_blocked /\ ~Ended,
    deferred <- gate.b_ui_refresh /\ ~Ended,
    owed <- owed /\ ~Ended,
    answerDue <- asked /\ ~Ended,
    ended <- Ended
KeepsPromise == Promise!Spec

\* While the daemon stays connected the popup ends: no order of the messages and
\* of the input to its popups makes it miss that (wlan_engine_callback).
ConnectionEndsPopup ==
    Running /\ link.st = "CONNECTED" ~> ~Running \/ link.st # "CONNECTED"

\* A row that says connecting takes no taps, nor does any other.  The closing of
\* the connection is not taken notice of, and redraws are held up by the gate,
\* but the mark goes in the end, or a popup covers the list (_gl_sel).
Stale == ~NoRowConnecting /\ link.st # "CONNECTING"
TapsComeBack == Running /\ Stale ~> ~Stale \/ Covered \/ ~Running

\* "Activating" does not stay: the redraw that deletes it comes also if the first
\* scan is refused (view-alerts.c, wlan_engine_refresh_callback).
ActivatingEnds == Running /\ alert = "activating" ~> alert # "activating" \/ ~Running

\* common_pswd_popup.c:201, of the open password popup: "Lets disable the scan
\* updates so that the UI is not refreshed un necessarily".  Then the row that
\* its callbacks hold is not freed.
PopupHoldsItsRow == passpopup.st # "none" => Held

\* wifi-syspopup-engine-callback.c:200: "deallocate alert popup if it has
\* allocated".  A notice that has deleted itself is not.
AlertIsAllocated == [][shows' > shows => alert # "gone"]_vars
=============================================================================
