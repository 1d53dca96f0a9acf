------------------------------ MODULE ScanGate ------------------------------
(***************************************************************************)
(* The gate of the Wi-Fi gadget through which scan results reach the AP    *)
(* list (wlan_manager.c: b_scan_blocked and b_ui_refresh) and everything   *)
(* that shuts, opens or bypasses it: the views of the naviframe, the       *)
(* password and hidden-AP popups, powering off, scan requests, the 0.1 s   *)
(* timers and the idlers.  All code runs on one EFL main loop, so a step   *)
(* is one callback; what interleaves is the order of the callbacks.        *)
(*                                                                         *)
(* Abstractions.  The header modes ON, CONNECTED, CONNECTING,              *)
(* DISCONNECTING and CANCEL_CONNECTING are one value "ON".  A row's data   *)
(* is left out.  Input to the main view needs the view on top, settled,    *)
(* and no modal popup over it.                                             *)
(***************************************************************************)
EXTENDS ScanFlags, Naturals, Sequences

CONSTANTS MaxTimers,       \* bound on armed 0.1 s timers
          MaxTransitions,  \* bound on running naviframe transitions
          MaxNotes         \* bound on undelivered power notifications

ASSUME BoundsAssumption ==
    /\ MaxIdlers \in Nat \ {0}
    /\ MaxTimers \in Nat \ {0}
    /\ MaxTransitions \in Nat \ {0}
    /\ MaxNotes \in Nat \ {0}

VARIABLES
    phase,            \* "running", "exited" (wlan_manager freed), "crashed"
    gate,             \* the two flags and the number of queued _refresh_ui idlers
    initialIdler,     \* load_initial_ap_list still queued
    timers,           \* armed _enable_scan_updates_cb timers
    mainItem,         \* the main view is still at the bottom of the naviframe
    above,            \* the views pushed above it, the top one last
    screen,           \* SCREEN_TYPE_ID_KEY of the naviframe
    transitions,      \* "transition,finished" signals still to come
    eap_view,         \* ug_app_state->eap_view is set
    passpopup,        \* ug_app_state->passpopup is set
    hidden_ap_popup,  \* "none", "entry" (SSID dialog) or "progress"
    header,           \* header_mode
    subContents,      \* the AP list has its title (VIEWER_WINSET_SUB_CONTENTS)
    wifi,             \* the daemon's view of the radio
    powerNotes,       \* power notifications on their way, oldest first
    scanPending,      \* a scan was accepted and is not answered yet
    specificPending,  \* a specific scan was accepted and is not answered yet
    owed              \* results were announced, not refused and not yet listed

navi    == <<mainItem, above, transitions, eap_view>>
views   == <<navi, screen>>
popups  == <<passpopup, hidden_ap_popup>>
panel   == <<header, subContents>>
daemon  == <<wifi, powerNotes, specificPending>>
results == <<scanPending, owed>>
loop    == <<phase, initialIdler, timers>>
vars    == <<loop, gate, views, popups, panel, daemon, results>>

Views == {"detail", "eap"}
HeaderModes == {"OFF", "ACTIVATING", "ON", "SEARCHING", "DEACTIVATING"}
PowerNotes == {"POWER_ON_OK", "POWER_OFF_OK"}

\* The state the code keeps: no counter of idlers, timers or transitions runs
\* below zero, and no variable leaves its range.
TypeOK ==
    /\ phase \in {"running", "exited", "crashed"}
    /\ gate \in Gates
    /\ initialIdler \in BOOLEAN
    /\ timers \in 0..MaxTimers
    /\ mainItem \in BOOLEAN
    /\ above \in Seq(Views)
    /\ eap_view \in BOOLEAN
    /\ screen \in Views \cup {"main"}
    /\ transitions \in 0..MaxTransitions
    /\ passpopup \in BOOLEAN
    /\ hidden_ap_popup \in {"none", "entry", "progress"}
    /\ header \in HeaderModes
    /\ subContents \in BOOLEAN
    /\ wifi \in {"on", "off"}
    /\ powerNotes \in Seq(PowerNotes)
    /\ scanPending \in BOOLEAN
    /\ specificPending \in BOOLEAN
    /\ owed \in BOOLEAN

-----------------------------------------------------------------------------
(* What a redraw does besides.                                             *)

\* The header after viewer_manager_refresh: it asks the daemon, and an error
\* counts as OFF.
HeaderAfterRefresh == IF wifi = "off" THEN {"OFF"} ELSE {"OFF", "ON"}

\* wlan_manager_scanned_profile_refresh: draw the list or remember to do so.
ScannedProfileRefresh ==
    IF gate.b_scan_blocked
    THEN /\ gate' = [gate EXCEPT !.b_ui_refresh = TRUE]
         /\ owed' = TRUE
         /\ UNCHANGED header
    ELSE /\ owed' = FALSE
         /\ header' \in HeaderAfterRefresh
         /\ UNCHANGED gate

\* The naviframe's top item.
Top == IF above # <<>> THEN above[Len(above)] ELSE IF mainItem THEN "main" ELSE "none"

\* elm_naviframe_item_push and elm_naviframe_item_pop of a view above the main
\* one: both end with a "transition,finished" signal.
CanMove == transitions < MaxTransitions
Push(v) ==
    /\ CanMove
    /\ above' = Append(above, v)
    /\ screen' = v
    /\ transitions' = transitions + 1
    /\ eap_view' = (eap_view \/ v = "eap")
    /\ UNCHANGED mainItem
Pop ==
    /\ CanMove
    /\ above' = SubSeq(above, 1, Len(above) - 1)
    /\ transitions' = transitions + 1
    /\ UNCHANGED <<mainItem, screen>>

Running == phase = "running"
Modal   == passpopup \/ hidden_ap_popup = "entry"
MainInput == Running /\ Top = "main" /\ transitions = 0 /\ ~Modal
CanArm  == timers < MaxTimers
CanQueue == gate.idlers < MaxIdlers

Init ==
    /\ phase = "running"
    /\ gate = OpenGate
    /\ initialIdler = TRUE
    /\ timers = 0
    /\ mainItem = TRUE /\ above = <<>> /\ screen = "main" /\ transitions = 0
    /\ eap_view = FALSE
    /\ passpopup = FALSE /\ hidden_ap_popup = "none"
    /\ \/ /\ wifi = "off" /\ header = "OFF" /\ subContents = FALSE
          /\ scanPending = FALSE
       \/ /\ wifi = "on" /\ header = "SEARCHING" /\ subContents = TRUE
          /\ scanPending \in BOOLEAN    \* wlan_manager_start ignores a refused scan
    /\ powerNotes \in {<<>>, <<IF wifi = "on" THEN "POWER_ON_OK" ELSE "POWER_OFF_OK">>}
    /\ specificPending = FALSE
    /\ owed = FALSE

-----------------------------------------------------------------------------
(* Input to the main view.                                                  *)

\* power_control on a header that is OFF, from a tap or, whatever the view, from
\* a shake of the device: it asks for power.  Accepted, or refused because of
\* the mobile hotspot: ACTIVATING; else OFF.
PowerOn ==
    /\ Running
    /\ header = "OFF"
    /\ header' \in {"OFF", "ACTIVATING"}
    /\ UNCHANGED <<loop, gate, views, popups, subContents, daemon, results>>

\* _gl_header_sel_cb on a header that is neither OFF nor in transit:
\* power_control clears the list and asks for power-off; if that is accepted
\* the title goes and the gate is shut last.
PowerOff ==
    /\ MainInput
    /\ header \in {"ON", "SEARCHING"}
    /\ header' = "DEACTIVATING"
    /\ subContents' = FALSE
    /\ gate' = Disable(gate)
    /\ UNCHANGED <<loop, views, popups, daemon, results>>

\* Mutant of RefreshKey: the flags are cleared for a scan that is refused.
RefreshKeyRefused ==
    /\ MainInput
    /\ header = "ON"
    /\ gate' = ScanRequested(gate)
    /\ UNCHANGED <<loop, views, popups, panel, daemon, results>>

\* _refresh_sk_cb: the Scan soft key, when the scan is accepted.
RefreshKey ==
    /\ MainInput
    /\ header = "ON"
    /\ gate' = ScanRequested(gate)
    /\ header' = "SEARCHING"
    /\ scanPending' = TRUE
    /\ UNCHANGED <<loop, views, popups, subContents, daemon, owed>>

\* radio_button_cb on a secured AP: the password popup, which shuts the gate.
OpenPasswordPopup ==
    /\ MainInput
    /\ header = "ON" /\ subContents
    /\ passpopup' = TRUE
    /\ gate' = Disable(gate)
    /\ UNCHANGED <<loop, views, hidden_ap_popup, panel, daemon, results>>

\* view_detail, or create_eap_connect from radio_button_cb: a view is pushed and
\* SCREEN_TYPE_ID_KEY set at once; the gate is shut when the transition ends.
PushView(v) ==
    /\ MainInput
    /\ subContents
    /\ v = "eap" => header = "ON"
    /\ Push(v)
    /\ UNCHANGED <<loop, gate, popups, panel, daemon, results>>

\* _hidden_button_callback / view_hidden_ap_popup_create.
OpenHiddenPopup ==
    /\ MainInput
    /\ subContents /\ header \in {"ON", "SEARCHING"}
    /\ hidden_ap_popup' = "entry"
    /\ gate' = Disable(gate)
    /\ UNCHANGED <<loop, views, passpopup, panel, daemon, results>>

-----------------------------------------------------------------------------
(* Input to a popup or to a view above the main view.                       *)

\* common_pswd_popup_destroy, from Cancel, OK, or the WPS button: a timer will
\* open the gate.
ClosePasswordPopup ==
    /\ Running /\ CanArm
    /\ passpopup
    /\ passpopup' = FALSE
    /\ timers' = timers + 1
    /\ UNCHANGED <<phase, initialIdler, gate, views, hidden_ap_popup, panel,
                   daemon, results>>

\* view_hidden_ap_popup_ok_cb: the specific scan is accepted and the dialog
\* gives way to the progress popup, or it is refused and the popup destroyed.
HiddenPopupOk ==
    /\ Running /\ CanArm
    /\ hidden_ap_popup = "entry"
    /\ \/ hidden_ap_popup' = "progress" /\ specificPending' = TRUE
       \/ hidden_ap_popup' = "none" /\ UNCHANGED specificPending
    /\ timers' = timers + 1
    /\ UNCHANGED <<phase, initialIdler, gate, views, passpopup, panel, wifi,
                   powerNotes, results>>

\* view_hidden_ap_popup_cancel_cb.
HiddenPopupCancel ==
    /\ Running /\ CanArm
    /\ hidden_ap_popup = "entry"
    /\ hidden_ap_popup' = "none"
    /\ timers' = timers + 1
    /\ UNCHANGED <<phase, initialIdler, gate, views, passpopup, panel, daemon,
                   results>>

\* detailview_sk_cb, ok_cb (Forget): the detail view is popped.
LeaveDetail ==
    /\ Running
    /\ Top = "detail" /\ transitions = 0 /\ ~Modal
    /\ Pop
    /\ UNCHANGED <<loop, gate, eap_view, popups, panel, daemon, results>>

\* __common_eap_connect_destroy, by Back or Connect: the view frees its data
\* and opens the gate itself, before the transition ends.
CloseEap ==
    /\ CanQueue
    /\ Pop
    /\ eap_view' = FALSE
    /\ gate' = Enable(gate)

LeaveEap ==
    /\ Running
    /\ Top = "eap" /\ transitions = 0 /\ ~Modal
    /\ CloseEap
    /\ UNCHANGED <<loop, popups, panel, daemon, results>>

\* on_key_event with SCREEN_TYPE_ID_KEY not MAIN: the top item is popped,
\* whatever it is; while a pop is still in transition that may be the main
\* view, which leaves the naviframe empty.  An EAP view's data stays behind.
EndKeyPop ==
    /\ Running
    /\ screen # "main"
    /\ \/ above # <<>> /\ Pop
       \/ above = <<>> /\ mainItem' = FALSE /\ UNCHANGED <<above, screen, transitions>>
    /\ UNCHANGED <<loop, gate, eap_view, popups, panel, daemon, results>>

\* wifi_exit, by Back or END on the main view or by on_destroy at any time:
\* both managers are freed, the timers and idlers are not cancelled.  The
\* freed objects are given their initial values.
WifiExit ==
    /\ Running
    /\ phase' = "exited"
    /\ gate' = [b_scan_blocked |-> FALSE, b_ui_refresh |-> FALSE, idlers |-> gate.idlers]
    /\ mainItem' = TRUE /\ above' = <<>> /\ screen' = "main" /\ transitions' = 0
    /\ eap_view' = FALSE
    /\ passpopup' = FALSE /\ hidden_ap_popup' = "none"
    /\ header' = "OFF" /\ subContents' = FALSE
    /\ wifi' = "off" /\ powerNotes' = <<>> /\ specificPending' = FALSE
    /\ scanPending' = FALSE /\ owed' = FALSE
    /\ UNCHANGED <<initialIdler, timers>>

-----------------------------------------------------------------------------
(* What the main loop dispatches: timers, idlers, finished transitions.     *)

\* _enable_scan_updates_cb.
TimerFires ==
    /\ Running /\ CanQueue
    /\ timers > 0
    /\ timers' = timers - 1
    /\ gate' = Enable(gate)
    /\ UNCHANGED <<phase, initialIdler, views, popups, panel, daemon, results>>

\* Mutant of RefreshUi: it is called without having been queued.
RefreshUiUnqueued ==
    /\ Running
    /\ gate' = Drained(gate)
    /\ header' \in HeaderAfterRefresh
    /\ owed' = FALSE
    /\ UNCHANGED <<loop, views, popups, subContents, daemon, scanPending>>

\* _refresh_ui: draws the list and opens the gate, whoever has shut it since.
RefreshUi ==
    /\ Running
    /\ gate.idlers > 0
    /\ gate' = Drained(gate)
    /\ header' \in HeaderAfterRefresh
    /\ owed' = FALSE
    /\ UNCHANGED <<loop, views, popups, subContents, daemon, scanPending>>

\* load_initial_ap_list: draws the first profiles past the gate, if there are any.
LoadInitialApList ==
    /\ Running
    /\ initialIdler
    /\ initialIdler' = FALSE
    /\ header' \in {header} \cup HeaderAfterRefresh
    /\ UNCHANGED <<phase, timers, gate, views, popups, subContents, daemon, results>>

\* Mutants of TransitionFinished: the screen type is read before it is updated,
\* or is not updated.
TransitionFinishedStaleScreen ==
    /\ Running /\ CanQueue
    /\ transitions > 0
    /\ transitions' = transitions - 1
    /\ screen' = IF Top = "main" THEN "main" ELSE screen
    /\ gate' = IF screen = "main" THEN Enable(gate) ELSE Disable(gate)
    /\ UNCHANGED <<loop, mainItem, above, eap_view, popups, panel, daemon, results>>

TransitionFinishedKeepsScreen ==
    /\ Running /\ CanQueue
    /\ transitions > 0
    /\ transitions' = transitions - 1
    /\ gate' = IF Top = "main" THEN Enable(gate) ELSE Disable(gate)
    /\ UNCHANGED <<loop, mainItem, above, screen, eap_view, popups, panel, daemon, results>>

\* _hide_finished_cb ("transition,finished").
TransitionFinished ==
    /\ Running /\ CanQueue
    /\ transitions > 0
    /\ transitions' = transitions - 1
    /\ screen' = IF Top = "main" THEN "main" ELSE screen
    /\ gate' = IF screen' = "main" THEN Enable(gate) ELSE Disable(gate)
    /\ UNCHANGED <<loop, mainItem, above, eap_view, popups, panel, daemon, results>>

\* A timer or idler that outlives wifi_exit dereferences the freed
\* manager_object; load_initial_ap_list does so only if profiles are cached.
LateCallback ==
    /\ phase = "exited"
    /\ \/ timers > 0 /\ timers' = timers - 1
          /\ phase' = "crashed" /\ UNCHANGED <<gate, initialIdler>>
       \/ gate.idlers > 0 /\ gate' = [gate EXCEPT !.idlers = @ - 1]
          /\ phase' = "crashed" /\ UNCHANGED <<timers, initialIdler>>
       \/ initialIdler /\ initialIdler' = FALSE
          /\ phase' \in {"exited", "crashed"} /\ UNCHANGED <<timers, gate>>
    /\ UNCHANGED <<views, popups, panel, daemon, results>>

-----------------------------------------------------------------------------
(* Notifications of the connection daemon (network_evt_cb and               *)
(* wlan_engine_callback).                                                   *)

\* The radio is switched, here or by another program: a request is answered by
\* a response and an indication, and both become the same message.
RadioSwitched ==
    /\ Running
    /\ wifi' = IF wifi = "on" THEN "off" ELSE "on"
    /\ \E n \in {1, 2} :
         /\ Len(powerNotes) + n <= MaxNotes
         /\ powerNotes' = powerNotes \o
              [i \in 1..n |-> IF wifi = "on" THEN "POWER_OFF_OK" ELSE "POWER_ON_OK"]
    /\ UNCHANGED <<loop, gate, views, popups, panel, specificPending, results>>

\* POWER_ON_OK with the first scan accepted.
PowerOnOk ==
    /\ Running
    /\ powerNotes # <<>> /\ Head(powerNotes) = "POWER_ON_OK"
    /\ powerNotes' = Tail(powerNotes)
    /\ gate' = ScanRequested(gate)
    /\ header' = "SEARCHING"
    /\ subContents' = TRUE
    /\ scanPending' = TRUE
    /\ UNCHANGED <<loop, views, popups, wifi, specificPending, owed>>

\* viewer_manager_hide(SUB_CONTENTS): the password popup and the EAP view go
\* with the title, and closing the EAP view opens the gate.  (An EAP view that
\* END has popped is closed through its deleted Back button, taken to do nothing.)
HideSubContents ==
    /\ subContents' = FALSE
    /\ passpopup' = FALSE
    /\ IF passpopup THEN CanArm /\ timers' = timers + 1 ELSE UNCHANGED timers
    /\ IF eap_view /\ Top = "eap"
       THEN CloseEap
       ELSE eap_view' = FALSE /\ UNCHANGED <<mainItem, above, screen, transitions, gate>>
    /\ UNCHANGED <<hidden_ap_popup, initialIdler, phase>>

\* POWER_ON_OK with the first scan refused.
PowerOnOkNoScan ==
    /\ Running
    /\ powerNotes # <<>> /\ Head(powerNotes) = "POWER_ON_OK"
    /\ powerNotes' = Tail(powerNotes)
    /\ header' = "ON"
    /\ HideSubContents
    /\ UNCHANGED <<wifi, specificPending, results>>

PowerOffOk ==
    /\ Running
    /\ powerNotes # <<>> /\ Head(powerNotes) = "POWER_OFF_OK"
    /\ powerNotes' = Tail(powerNotes)
    /\ header' = "OFF"
    /\ HideSubContents
    /\ UNCHANGED <<wifi, specificPending, results>>

\* POWER_ON_NOT_SUPPORTED, POWER_ON_RESTRICTED.
PowerOnFailed ==
    /\ Running
    /\ header = "ACTIVATING"
    /\ header' = "OFF"
    /\ UNCHANGED <<loop, gate, views, popups, subContents, daemon, results>>

\* SCAN_OK, the answer to an accepted scan: ignored when powering off or off.
ScanOk ==
    /\ Running
    /\ scanPending
    /\ scanPending' = FALSE
    /\ IF header \in {"DEACTIVATING", "OFF"}
       THEN owed' = FALSE /\ UNCHANGED <<gate, header>>
       ELSE ScannedProfileRefresh
    /\ UNCHANGED <<loop, views, popups, subContents, daemon>>

\* SCAN_RESULT_IND, a background scan: not ignored in any header mode.
ScanResultInd ==
    /\ Running
    /\ ScannedProfileRefresh
    /\ UNCHANGED <<loop, views, popups, subContents, daemon, scanPending>>

\* CONNECTING, CONNECTION_*, DISCONNECTION_*: with no title there is no row to
\* find or to add and the handler returns.
ConnectionEvent ==
    /\ Running
    /\ subContents
    /\ header' = "ON"
    /\ UNCHANGED <<loop, gate, views, popups, subContents, daemon, results>>

\* CONNECTION_FAIL_*, CONNECTION_INVALID_KEY, WPS_ENROLL_OK and WPS_ENROLL_FAIL
\* also destroy the password popup.
ConnectionEventClosingPopup ==
    /\ Running /\ CanArm
    /\ subContents /\ passpopup
    /\ header' = "ON"
    /\ passpopup' = FALSE
    /\ timers' = timers + 1
    /\ UNCHANGED <<phase, initialIdler, gate, views, hidden_ap_popup, subContents,
                   daemon, results>>

\* SPECIFIC_SCAN_IND / viewer_manager_specific_scan_response_hlr: one secured AP
\* opens the password popup, one EAP AP pushes the EAP view, any other answer
\* only informs; then the hidden-AP popup is destroyed.  A dialog still
\* without an SSID makes the handler return.
SpecificScanInd ==
    /\ Running /\ CanArm
    /\ specificPending
    /\ specificPending' = FALSE
    /\ IF hidden_ap_popup # "progress"
       THEN UNCHANGED <<gate, timers, views, popups>>
       ELSE /\ hidden_ap_popup' = "none"
            /\ timers' = timers + 1
            /\ \/ /\ passpopup' = TRUE
                  /\ gate' = Disable(gate)
                  /\ UNCHANGED views
               \/ Push("eap") /\ UNCHANGED <<gate, passpopup>>
               \/ UNCHANGED <<gate, views, passpopup>>
    /\ UNCHANGED <<phase, initialIdler, panel, wifi, powerNotes, results>>

\* SPECIFIC_SCAN_FAIL destroys whatever hidden-AP popup is there.
SpecificScanFail ==
    /\ Running /\ CanArm
    /\ specificPending
    /\ specificPending' = FALSE
    /\ hidden_ap_popup' = "none"
    /\ timers' = IF hidden_ap_popup = "none" THEN timers ELSE timers + 1
    /\ UNCHANGED <<phase, initialIdler, gate, views, passpopup, panel, wifi,
                   powerNotes, results>>

-----------------------------------------------------------------------------

User ==
    \/ PowerOn \/ PowerOff \/ RefreshKey
    \/ OpenPasswordPopup \/ OpenHiddenPopup
    \/ \E v \in {"detail", "eap"} : PushView(v)
    \/ ClosePasswordPopup \/ HiddenPopupOk \/ HiddenPopupCancel
    \/ LeaveDetail \/ LeaveEap \/ EndKeyPop \/ WifiExit

MainLoop == TimerFires \/ RefreshUi \/ LoadInitialApList \/ TransitionFinished

Daemon ==
    \/ RadioSwitched \/ PowerOnOk \/ PowerOnOkNoScan \/ PowerOffOk \/ PowerOnFailed
    \/ ScanOk \/ ScanResultInd \/ ConnectionEvent \/ ConnectionEventClosingPopup
    \/ SpecificScanInd \/ SpecificScanFail

\* The process that hosted the gadget goes on, or is gone.
Stopped ==
    /\ phase # "running"
    /\ UNCHANGED vars

Next == User \/ MainLoop \/ Daemon \/ LateCallback \/ Stopped

\* The main loop dispatches what is due; the daemon answers an accepted scan.
Fairness ==
    /\ WF_vars(TimerFires)
    /\ WF_vars(RefreshUi)
    /\ WF_vars(TransitionFinished)
    /\ WF_vars(ScanOk)

Spec == Init /\ [][Next]_vars
FairSpec == Spec /\ Fairness

-----------------------------------------------------------------------------
(* Properties.                                                              *)

\* A refresh is remembered only behind a shut gate: an open gate never owes
\* one, so no path (a scan request, an idler, a timer) opens the gate and
\* leaves the flag for a later popup to replay.
DeferredOnlyWhileBlocked == gate.b_ui_refresh => gate.b_scan_blocked

\* Results that were announced and not refused are never forgotten: either
\* the flag that will list them is set, or a scan has been accepted whose
\* answer will.  wlan_manager_request_scan may clear the flag only because of
\* the second.
AnnouncedResultsAreKept ==
    owed => gate.b_ui_refresh \/ scanPending

\* Whoever will open a shut gate again is still there: an open popup, a timer,
\* an idler, a view above the main one (or END has emptied the naviframe) or a
\* transition; except after a power-off, where the next accepted scan opens it.
ShutGateHasKeeper ==
    phase = "running" /\ gate.b_scan_blocked =>
        \/ passpopup \/ hidden_ap_popup = "entry"
        \/ timers > 0 \/ gate.idlers > 0
        \/ Top # "main" \/ transitions > 0
        \/ ~subContents

\* SCREEN_TYPE_ID_KEY, by which END decides between leaving a view and leaving
\* the gadget and TransitionFinished between opening and shutting the gate,
\* tells the main view from the others, except while a transition is still to
\* finish or when the naviframe has been emptied.
ScreenTypeLagsOnlyInTransit ==
    phase = "running" /\ transitions = 0 /\ Top # "none" => (screen = "main" <=> Top = "main")

\* A search whose scan was accepted ends (the header does not spin for ever), if
\* the user keeps coming back to the main view without a popup.
Unattended == Top = "main" /\ ~passpopup /\ hidden_ap_popup # "entry"
SearchEnds ==
    []<>(Unattended \/ phase # "running") =>
        (header = "SEARCHING" /\ scanPending ~> header # "SEARCHING")

\* Results that were announced are listed in the end, if the user comes back to
\* the main view for good and leaves the radio on.  Coming back again and again
\* is not enough: each accepted scan clears the flag, and its answer may again
\* meet a popup.  Nor is it without the title: power_control shuts the gate for
\* powering off and only an accepted scan, which brings the title, opens it.
DeferredResultsAreListed ==
    <>[]((Unattended /\ subContents) \/ phase # "running") => (owed ~> ~owed)

\* Whatever its callers do, wlan_manager.c keeps the promise of ResultGate: a
\* result that was deferred is dropped by no path; the gate opens over it only
\* with a redraw or with a scan whose answer is still to come.
Promise == INSTANCE ResultGate WITH
    shut <- gate.b_scan_blocked,
    deferred <- gate.b_ui_refresh,
    answerDue <- scanPending,
    ended <- phase # "running"
KeepsPromise == Promise!Spec

\* common_pswd_popup.c:201, for as long as the popup is open: "Lets disable the
\* scan updates so that the UI is not refreshed un necessarily".
PasswordPopupHoldsGate == passpopup => gate.b_scan_blocked
=============================================================================
