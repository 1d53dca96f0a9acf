------------------------------ MODULE ApPanel -------------------------------
(***************************************************************************)
(* The main view of the Wi-Fi gadget: the header, the AP list with its     *)
(* title, the hidden-network button and the Scan key (viewer_manager.c,    *)
(* wifi_viewer_list.c), the messages of the connection daemon that change  *)
(* them (connman-response.c, wifi-wlan-callbacks.c), and the taps that     *)
(* send requests back (wifi-ui-list-callbacks.c).                          *)
(*                                                                         *)
(* Each C function of the panel is an operator on the record "panel"; a    *)
(* handler applies them in the order of the calls.  The list is redrawn at *)
(* once or later: which of the two is ScanGate's subject and a free choice *)
(* here.  The order of the rows is left out.  The daemon is external: one  *)
(* link at a time, events delivered in order.                              *)
(***************************************************************************)
EXTENDS Naturals, Sequences, FiniteSets

CONSTANTS AP,        \* the profiles
          NoAP,      \* no profile
          MaxEvents  \* bound on events posted and not delivered

ASSUME ApAssumption == NoAP \notin AP /\ MaxEvents \in Nat \ {0}

VARIABLES
    panel,         \* what the main view shows, see Panels
    mainView,      \* SCREEN_TYPE_ID_KEY is MAIN
    deferred,      \* a redraw of the list is owed
    passpopup,     \* the AP the password popup asks for
    scanPending,   \* a scan was accepted and is not answered yet
    connected_AP,  \* wlan_manager's record of the connected AP
    wifi,          \* the radio is on
    link,          \* the daemon's link: its state and AP
    events         \* events of the daemon, oldest first

daemon == <<wifi, link, events>>
vars == <<panel, mainView, deferred, passpopup, scanPending, connected_AP, daemon>>

IdleModes == {"OFF", "ON", "CONNECTED"}
BusyModes == {"CONNECTING", "DISCONNECTING", "CANCEL_CONNECTING"}
HeaderModes == IdleModes \cup BusyModes \cup {"ACTIVATING", "DEACTIVATING", "SEARCHING"}
RadioModes == {"OFF", "CONNECTED", "CONNECTING", "DISCONNECTING"}

Panels == [header : HeaderModes,
           hidden_btn : {"absent", "enabled", "disabled"},
           scan_button : BOOLEAN,
           grouptitle : BOOLEAN,             \* the pointer to the title is set
           strayTitle : BOOLEAN,             \* a title it no longer points to
           rows : [AP -> RadioModes \cup {"absent"}],
           disabled : SUBSET AP,             \* rows that cannot be tapped
           noApRow : BOOLEAN]                \* the "No AP found" row

Idle == [st |-> "IDLE", ap |-> NoAP]
Links == {Idle} \cup [st : {"CONNECTING", "CONNECTED", "DISCONNECTING"}, ap : AP]

Fails == {"FAIL", "FAIL_TIMEOUT", "FAIL_KEEP"}
PowerEvents == [type : {"POWER_ON_OK", "POWER_OFF_OK", "POWER_ON_FAILED"}, ap : {NoAP}]
LinkEvents ==
    [type : {"CONNECTING", "CONNECTION_OK", "DISCONNECTION", "ASSOCIATION_FAILURE"} \cup Fails,
     ap : AP]

\* The header, the rows and the link only take the values of their enums, also
\* when viewer_manager_refresh copies the daemon's state into them.
TypeOK ==
    /\ panel \in Panels
    /\ mainView \in BOOLEAN
    /\ deferred \in BOOLEAN
    /\ passpopup \in AP \cup {NoAP}
    /\ scanPending \in BOOLEAN
    /\ connected_AP \in AP \cup {NoAP}
    /\ wifi \in BOOLEAN
    /\ link \in Links
    /\ events \in Seq(PowerEvents \cup LinkEvents)
    /\ Len(events) <= MaxEvents

-----------------------------------------------------------------------------
(* viewer_manager.c and wifi_viewer_list.c on the panel.                    *)

\* viewer_manager_scan_button_set(TRUE): only while the main view shows.
ScanButtonOn(p) == [p EXCEPT !.scan_button = @ \/ mainView]

HiddenDisableSet(p, disabled) ==
    [p EXCEPT !.hidden_btn =
        IF @ = "absent" THEN @ ELSE IF disabled THEN "disabled" ELSE "enabled"]

HeaderModeSet(p, mode) ==
    IF p.header = mode THEN p
    ELSE LET q == HiddenDisableSet([p EXCEPT !.header = mode], mode \notin IdleModes)
         IN  IF mode \in IdleModes THEN ScanButtonOn(q) ELSE q

Listed(p) == {a \in AP : p.rows[a] # "absent"}
ListEmpty(p) == ~p.noApRow /\ Listed(p) = {}
ListClear(p) ==
    [p EXCEPT !.rows = [a \in AP |-> "absent"], !.disabled = {}, !.noApRow = FALSE]

ShowSearching(p) == [p EXCEPT !.scan_button = FALSE, !.disabled = Listed(p)]

\* Mutant of HideSearching: the rows stay disabled.
HideSearchingKeepsRows(p) == ScanButtonOn(p)

HideSearching(p) == [ScanButtonOn(p) EXCEPT !.disabled = {}]

\* viewer_list_title_item_set, on an empty list: a title is inserted whether
\* there is one or not, since assertm_if only logs; what grouptitle pointed to
\* stays on the screen, and nothing deletes it.
TitleItemSet(p) ==
    IF ListEmpty(p) THEN [p EXCEPT !.grouptitle = TRUE, !.strayTitle = @ \/ p.grouptitle] ELSE p

ShowSubContents(p) ==
    [TitleItemSet(p) EXCEPT !.hidden_btn = IF @ = "absent" THEN "enabled" ELSE @]

\* Mutant of HideSubContents: viewer_list_title_item_del is left out.
HideSubContentsKeepsTitle(p) == [p EXCEPT !.hidden_btn = "absent"]

HideSubContents(p) == [p EXCEPT !.grouptitle = FALSE, !.hidden_btn = "absent"]

\* viewer_list_item_insert_after with no item to follow: after the title, and
\* without a title genlist refuses the row.
ItemInsert(p, a) ==
    [p EXCEPT !.rows[a] = IF p.grouptitle THEN "OFF" ELSE "absent", !.disabled = @ \ {a}]

\* viewer_manager_move_item_to_top deletes the row and inserts a new one.
MoveItemToTop(p, a) == IF a \notin Listed(p) THEN p ELSE ItemInsert(p, a)

RadioModeSet(p, a, mode) ==
    IF a \notin Listed(p) THEN p ELSE [p EXCEPT !.rows[a] = mode]

UpdateListAll(p, profiles) ==
    [p EXCEPT !.rows = [a \in AP |-> IF p.grouptitle /\ a \in profiles THEN "OFF" ELSE "absent"],
              !.noApRow = p.grouptitle /\ profiles = {}]

\* viewer_manager_refresh, with the profiles the daemon lists: the AP of its
\* link and any others; without any, the profile table may be NULL, and then
\* the list stays empty.  An error of wlan_manager_state_get counts as OFF.
Relisted(p, profiles, table) ==
    IF table THEN UpdateListAll(ListClear(p), profiles) ELSE ListClear(p)

\* Mutant of RefreshOff: the list is not cleared first.
RefreshOffKeepsList(p) == HeaderModeSet(p, "OFF")

RefreshOff(p) == HeaderModeSet(ListClear(p), "OFF")

\* Mutants of RefreshOn: no case for a daemon without a link; that case leaves
\* the header alone.
RefreshOnLinkOnly(p, profiles, table) ==
    RadioModeSet(HeaderModeSet(Relisted(p, profiles, table), link.st), link.ap, link.st)

RefreshOn(p, profiles, table) ==
    LET q == Relisted(p, profiles, table)
    IN  IF link.st = "IDLE" THEN HeaderModeSet(q, "ON")
        ELSE RadioModeSet(HeaderModeSet(q, link.st), link.ap, link.st)

ListedByDaemon == {S \in SUBSET AP : link = Idle \/ link.ap \in S}
Refreshed(p) ==
    {RefreshOff(p)} \cup
    (IF wifi
     THEN {RefreshOn(p, S, TRUE) : S \in ListedByDaemon} \cup
          {RefreshOn(p, S, FALSE) : S \in ListedByDaemon \cap {{}}}
     ELSE {})

\* wlan_manager_scanned_profile_refresh.
ProfileRefresh(p) ==
    \/ panel' \in Refreshed(p) /\ UNCHANGED deferred
    \/ panel' = p /\ deferred' = TRUE

-----------------------------------------------------------------------------
(* The daemon (external).                                                   *)

Event(type, a) == [type |-> type, ap |-> a]
Post(es) ==
    /\ Len(events) + Len(es) <= MaxEvents
    /\ events' = events \o es

\* net_open_connection_with_profile, when accepted.  A link to another AP is
\* closed first; a link in transition or to the same AP makes the request fail,
\* or the call itself says "in progress", which the gadget takes for success.
OpenAccepted(a) ==
    /\ wifi
    /\ \/ link = Idle /\ link' = [st |-> "CONNECTING", ap |-> a] /\ UNCHANGED events
       \/ /\ link.st = "CONNECTED" /\ link.ap # a
          /\ link' = [st |-> "CONNECTING", ap |-> a]
          /\ Post(<<Event("DISCONNECTION", link.ap)>>)
       \/ /\ link.st \in {"CONNECTING", "DISCONNECTING"} \/ link.ap = a
          /\ UNCHANGED link
          /\ Post(<<Event("FAIL_KEEP", a)>>)
       \/ link.st \in {"CONNECTING", "DISCONNECTING"} /\ UNCHANGED <<link, events>>
    /\ UNCHANGED wifi

\* net_close_connection, when accepted: the AP has the link.
CloseAccepted(a) ==
    /\ link.ap = a
    /\ link' = [link EXCEPT !.st = "DISCONNECTING"]
    /\ UNCHANGED <<wifi, events>>

gadget == <<panel, mainView, deferred, passpopup, scanPending, connected_AP>>

AutoJoin(a) ==
    /\ wifi /\ link = Idle
    /\ link' = [st |-> "CONNECTING", ap |-> a]
    /\ UNCHANGED <<gadget, wifi, events>>

\* NET_STATE_IND, association; it may be left out.
Associated ==
    /\ link.st = "CONNECTING"
    /\ \A i \in 1..Len(events) : events[i] # Event("CONNECTING", link.ap)
    /\ Post(<<Event("CONNECTING", link.ap)>>)
    /\ UNCHANGED <<gadget, wifi, link>>

\* The link comes up, fails or goes down, with the event that tells so.
Answered ==
    /\ \/ /\ link.st = "CONNECTING"
          /\ link' = [link EXCEPT !.st = "CONNECTED"]
          /\ Post(<<Event("CONNECTION_OK", link.ap)>>)
       \/ /\ link.st = "CONNECTING"
          /\ link' = Idle
          /\ \E t \in {"FAIL", "FAIL_TIMEOUT", "ASSOCIATION_FAILURE"} : Post(<<Event(t, link.ap)>>)
       \/ /\ link.st = "DISCONNECTING"
          /\ link' = Idle
          /\ Post(<<Event("DISCONNECTION", link.ap)>>)
    /\ UNCHANGED <<gadget, wifi>>

Dropped ==
    /\ link.st = "CONNECTED"
    /\ link' = Idle
    /\ Post(<<Event("DISCONNECTION", link.ap)>>)
    /\ UNCHANGED <<gadget, wifi>>

\* The radio is switched, on request or by another program; the response to
\* the request and the indication are both turned into the same message.
RadioSwitched ==
    /\ wifi' = ~wifi
    /\ link' = Idle
    /\ LET down == IF link.st = "CONNECTED" THEN <<Event("DISCONNECTION", link.ap)>> ELSE <<>>
           e == Event(IF wifi THEN "POWER_OFF_OK" ELSE "POWER_ON_OK", NoAP)
       IN  Post(down \o <<e>>) \/ Post(down \o <<e, e>>)
    /\ UNCHANGED gadget

PowerOnFails ==
    /\ ~wifi /\ panel.header = "ACTIVATING"
    /\ \A i \in 1..Len(events) : events[i].type # "POWER_ON_FAILED"
    /\ Post(<<Event("POWER_ON_FAILED", NoAP)>>)
    /\ UNCHANGED <<gadget, wifi, link>>

-----------------------------------------------------------------------------
(* Input.                                                                   *)

Blank == [header |-> "OFF", hidden_btn |-> "enabled", scan_button |-> TRUE,
          grouptitle |-> FALSE, strayTitle |-> FALSE,
          rows |-> [a \in AP |-> "absent"], disabled |-> {}, noApRow |-> FALSE]

\* on_create, when the daemon is registered with and tells its state.  The
\* radio may have been switched after the registration and before the answer:
\* then the notification is on its way.
Init ==
    /\ wifi \in BOOLEAN
    /\ link \in IF wifi THEN {l \in Links : l.st # "DISCONNECTING"} ELSE {Idle}
    /\ panel = IF wifi
               THEN ShowSubContents([Blank EXCEPT !.header = "SEARCHING", !.hidden_btn = "disabled"])
               ELSE HideSubContents([Blank EXCEPT !.scan_button = FALSE])
    /\ mainView = TRUE
    /\ deferred = FALSE
    /\ passpopup = NoAP
    /\ scanPending \in IF wifi THEN BOOLEAN ELSE {FALSE}
    /\ connected_AP = IF link.st = "CONNECTED" THEN link.ap ELSE NoAP
    /\ events \in {<<>>, <<Event(IF wifi THEN "POWER_ON_OK" ELSE "POWER_OFF_OK", NoAP)>>}

OnMain == mainView /\ passpopup = NoAP
CanTap(a) == OnMain /\ a \in Listed(panel) \ panel.disabled
others == <<mainView, deferred, passpopup, scanPending, connected_AP>>

\* power_control while OFF, from a tap on the header or a shake of the device:
\* accepted (or refused because of the mobile hotspot), or refused.
PowerOn ==
    /\ panel.header = "OFF"
    /\ panel' \in {HeaderModeSet(panel, "ACTIVATING"), panel}
    /\ UNCHANGED <<others, daemon>>

\* power_control on a powered header: the list goes before the request is made.
PowerOff ==
    /\ OnMain
    /\ panel.header \notin {"OFF", "ACTIVATING", "DEACTIVATING"}
    /\ LET p == ListClear(panel)
       IN  panel' \in {p, HeaderModeSet(HideSubContents(ShowSearching(p)), "DEACTIVATING")}
    /\ UNCHANGED <<others, daemon>>

\* _refresh_sk_cb.  An accepted scan forgets the owed redraw.
ScanKey ==
    /\ OnMain /\ panel.scan_button
    /\ \/ /\ panel.header \in {"OFF", "DEACTIVATING"}
          /\ panel' = ShowSearching(panel)
          /\ UNCHANGED <<scanPending, deferred>>
       \/ /\ panel.header \in {"ON", "CONNECTED"} /\ wifi
          /\ panel' = HeaderModeSet(ShowSearching(panel), "SEARCHING")
          /\ scanPending' = TRUE
          /\ deferred' = FALSE
    /\ UNCHANGED <<mainView, passpopup, connected_AP, daemon>>

\* radio_button_cb on a row that is OFF: connect, or ask for the password.
Connect(a) ==
    /\ CanTap(a)
    /\ panel.rows[a] = "OFF" /\ panel.header \in {"ON", "CONNECTED"}
    /\ \/ /\ OpenAccepted(a)
          /\ panel' = HeaderModeSet(panel, "CONNECTING")
          /\ UNCHANGED passpopup
       \/ passpopup' = a /\ UNCHANGED <<panel, daemon>>
    /\ UNCHANGED <<mainView, deferred, scanPending, connected_AP>>

\* radio_button_cb on a row that is CONNECTED or CONNECTING, whatever the header.
Disconnect(a) ==
    /\ CanTap(a)
    /\ panel.rows[a] \in {"CONNECTED", "CONNECTING"}
    /\ CloseAccepted(a)
    /\ panel' = HeaderModeSet(panel,
                  IF panel.rows[a] = "CONNECTED" THEN "DISCONNECTING" ELSE "CANCEL_CONNECTING")
    /\ UNCHANGED others

\* _popup_ok_cb with a valid password, or the WPS button; _popup_cancel_cb.
PasswordOk ==
    /\ passpopup # NoAP
    /\ \/ OpenAccepted(passpopup) /\ panel' = HeaderModeSet(panel, "CONNECTING")
       \/ panel' = HeaderModeSet(panel, "ON") /\ UNCHANGED daemon
    /\ passpopup' = NoAP
    /\ UNCHANGED <<mainView, deferred, scanPending, connected_AP>>

PasswordCancel ==
    /\ passpopup # NoAP
    /\ passpopup' = NoAP
    /\ UNCHANGED <<panel, mainView, deferred, scanPending, connected_AP, daemon>>

\* A detail or EAP view covers the main view; _hide_finished_cb uncovers it.
CoverMainView ==
    /\ \E a \in AP : CanTap(a)
    /\ mainView' = FALSE
    /\ UNCHANGED <<panel, deferred, passpopup, scanPending, connected_AP, daemon>>

UncoverMainView ==
    /\ ~mainView
    /\ mainView' = TRUE
    /\ UNCHANGED <<panel, deferred, passpopup, scanPending, connected_AP, daemon>>

\* _refresh_ui, on the main view.
DeferredRefresh ==
    /\ deferred
    /\ deferred' = FALSE
    /\ panel' \in Refreshed(panel)
    /\ UNCHANGED <<mainView, passpopup, scanPending, connected_AP, daemon>>

-----------------------------------------------------------------------------
(* Messages: network_evt_cb and wlan_engine_callback.                       *)

Received(type) ==
    /\ events # <<>> /\ Head(events).type = type
    /\ events' = Tail(events)

\* POWER_ON_OK, the first scan accepted or refused.
PowerOnOk ==
    /\ Received("POWER_ON_OK")
    /\ wifi
    /\ panel' = ShowSubContents(ShowSearching(HiddenDisableSet(HeaderModeSet(panel, "SEARCHING"), TRUE)))
    /\ scanPending' = TRUE
    /\ deferred' = FALSE
    /\ UNCHANGED <<mainView, passpopup, connected_AP, wifi, link>>

PowerOnOkNoScan ==
    /\ Received("POWER_ON_OK")
    /\ panel' = HideSubContents(HideSearching(HiddenDisableSet(HeaderModeSet(panel, "ON"), FALSE)))
    /\ passpopup' = NoAP
    /\ UNCHANGED <<mainView, deferred, scanPending, connected_AP, wifi, link>>

PowerOffOk ==
    /\ Received("POWER_OFF_OK")
    /\ panel' = HideSubContents(ShowSearching(HeaderModeSet(ListClear(panel), "OFF")))
    /\ connected_AP' = NoAP
    /\ passpopup' = NoAP
    /\ UNCHANGED <<mainView, deferred, scanPending, wifi, link>>

\* POWER_ON_NOT_SUPPORTED, POWER_ON_RESTRICTED.
PowerOnFailed ==
    /\ Received("POWER_ON_FAILED")
    /\ panel' = HeaderModeSet(panel, "OFF")
    /\ UNCHANGED <<others, wifi, link>>

\* SCAN_OK: ignored when powering off or off.
ScanOk ==
    /\ scanPending
    /\ scanPending' = FALSE
    /\ IF panel.header \in {"DEACTIVATING", "OFF"}
       THEN UNCHANGED <<panel, deferred>>
       ELSE ProfileRefresh(HideSearching(HiddenDisableSet(panel, FALSE)))
    /\ UNCHANGED <<mainView, passpopup, connected_AP, daemon>>

\* SCAN_RESULT_IND, a background scan; load_initial_ap_list redraws likewise.
ScanResultInd ==
    /\ ProfileRefresh(panel)
    /\ UNCHANGED <<mainView, passpopup, scanPending, connected_AP, daemon>>

\* The row of the message's profile; CONNECTING and CONNECTION_OK add it.
\* Without a row the handler returns.
WithRow(a, add) == IF add /\ a \notin Listed(panel) THEN ItemInsert(panel, a) ELSE panel

Connecting(a) ==
    /\ Received("CONNECTING") /\ Head(events).ap = a
    /\ LET p == WithRow(a, TRUE)
       IN  panel' = IF a \notin Listed(p) THEN panel
                    ELSE RadioModeSet(HeaderModeSet(MoveItemToTop(p, a), "CONNECTING"), a, "CONNECTING")
    /\ UNCHANGED <<others, wifi, link>>

\* CONNECTION_OK and CONNECTION_IND; WPS_ENROLL_OK, which adds no row and
\* closes the popup of the push button.
ConnectionOk(a, wps) ==
    /\ Received("CONNECTION_OK") /\ Head(events).ap = a
    /\ connected_AP' \in {a, connected_AP}    \* net_get_profile_info may fail
    /\ LET p == WithRow(a, ~wps)
       IN  IF a \notin Listed(p)
           THEN UNCHANGED <<panel, passpopup>>
           ELSE /\ panel' = HeaderModeSet(RadioModeSet(MoveItemToTop(p, a), a, "CONNECTED"),
                                          "CONNECTED")
                /\ passpopup' = IF wps THEN NoAP ELSE passpopup
    /\ UNCHANGED <<mainView, deferred, scanPending, wifi, link>>

\* CONNECTION_FAIL_*, CONNECTION_INVALID_KEY, WPS_ENROLL_FAIL.  Most forget the
\* connected AP, FAIL_KEEP (in progress, already exists, WPS) does not, and a
\* timeout also closes the connection.
ConnectionFailed(a) ==
    /\ \E t \in Fails : Received(t)
    /\ Head(events).ap = a
    /\ connected_AP' = IF Head(events).type = "FAIL_KEEP" THEN connected_AP ELSE NoAP
    /\ link' = IF Head(events).type = "FAIL_TIMEOUT" /\ link.ap = a
               THEN [link EXCEPT !.st = "DISCONNECTING"] ELSE link
    /\ IF a \notin Listed(panel)
       THEN UNCHANGED <<panel, passpopup>>
       ELSE /\ panel' = RadioModeSet(HeaderModeSet(panel, "ON"), a, "OFF")
            /\ passpopup' = NoAP
    /\ UNCHANGED <<mainView, deferred, scanPending, wifi>>

\* Mutants of Disconnection: the row is not reset; the connected AP is not.
DisconnectionKeepsRow(a) ==
    /\ Received("DISCONNECTION") \/ Received("ASSOCIATION_FAILURE")
    /\ Head(events).ap = a
    /\ connected_AP' = IF Head(events).type = "DISCONNECTION" /\ connected_AP = a
                       THEN NoAP ELSE connected_AP
    /\ panel' = IF a \notin Listed(panel) THEN panel ELSE HeaderModeSet(panel, "ON")
    /\ UNCHANGED <<mainView, deferred, passpopup, scanPending, wifi, link>>

DisconnectionKeepsAp(a) ==
    /\ Received("DISCONNECTION") \/ Received("ASSOCIATION_FAILURE")
    /\ Head(events).ap = a
    /\ panel' = IF a \notin Listed(panel) THEN panel
                ELSE HeaderModeSet(RadioModeSet(panel, a, "OFF"), "ON")
    /\ UNCHANGED <<mainView, deferred, passpopup, scanPending, connected_AP, wifi, link>>

\* DISCONNECTION_OK, DISCONNECTION_IND, and a failed association, which does not
\* touch the connected AP.
Disconnection(a) ==
    /\ Received("DISCONNECTION") \/ Received("ASSOCIATION_FAILURE")
    /\ Head(events).ap = a
    /\ connected_AP' = IF Head(events).type = "DISCONNECTION" /\ connected_AP = a
                       THEN NoAP ELSE connected_AP
    /\ panel' = IF a \notin Listed(panel) THEN panel
                ELSE HeaderModeSet(RadioModeSet(panel, a, "OFF"), "ON")
    /\ UNCHANGED <<mainView, deferred, passpopup, scanPending, wifi, link>>

-----------------------------------------------------------------------------

User ==
    \/ PowerOn \/ PowerOff \/ ScanKey
    \/ \E a \in AP : Connect(a) \/ Disconnect(a)
    \/ PasswordOk \/ PasswordCancel \/ CoverMainView \/ UncoverMainView

Environment ==
    \/ \E a \in AP : AutoJoin(a)
    \/ Associated \/ Answered \/ Dropped \/ RadioSwitched \/ PowerOnFails

Delivery ==
    \/ PowerOnOk \/ PowerOnOkNoScan \/ PowerOffOk \/ PowerOnFailed
    \/ \E a \in AP : Connecting(a) \/ (\E wps \in BOOLEAN : ConnectionOk(a, wps))
                    \/ ConnectionFailed(a) \/ Disconnection(a)

Next == User \/ Environment \/ Delivery \/ DeferredRefresh \/ ScanOk \/ ScanResultInd

\* Messages are delivered, the daemon answers, the main loop runs its idlers, and
\* the periodic background scan goes on while the radio is on.
Fairness ==
    /\ WF_vars(Delivery)
    /\ WF_vars(Answered)
    /\ WF_vars(ScanOk)
    /\ WF_vars(DeferredRefresh)
    /\ WF_vars(wifi /\ ScanResultInd)

Spec == Init /\ [][Next]_vars
FairSpec == Spec /\ Fairness

-----------------------------------------------------------------------------
(* Properties.                                                              *)

\* Nothing is under way between the gadget and the daemon.
Quiet == events = <<>> /\ link.st \in {"IDLE", "CONNECTED"}

\* When the messages have been handled, a row that says CONNECTED names the AP
\* the daemon is connected to: rows are marked by messages that were sent before
\* the list was drawn from a newer state of the daemon, deleted and inserted
\* again by viewer_manager_move_item_to_top, and no order of these leaves a
\* wrong mark behind (wifi-wlan-callbacks.c, viewer_manager_refresh).
RowsTellTheLink ==
    Quiet => \A a \in AP : panel.rows[a] = "CONNECTED" => link.ap = a

\* Then wlan_manager's connected AP, set and reset in connman-response.c by
\* answers to several requests, is none or that AP as well.
ConnectedApIsLinked == Quiet => connected_AP \in {NoAP, link.ap}

\* The title that grouptitle points to, after which the first row goes, is there
\* exactly when the hidden-network button is, although the one is only set on
\* an empty list and the other only when there is none (viewer_manager_show,
\* viewer_manager_hide): no button over a list that can take no row.
ButtonWithTitle == panel.hidden_btn # "absent" <=> panel.grouptitle

\* A header that is OFF has no AP under it, whichever of power_control, the
\* power notifications and a redraw that met an error has set it: a row could
\* still be tapped, and radio_button_cb would send a request.
OffIsEmpty == panel.header = "OFF" => ListEmpty(panel)

\* Rows are disabled by VIEWER_WINSET_SEARCHING; when no scan is awaited all can
\* be tapped again, even if the redraw is put off behind a popup, and whatever
\* was redrawn, moved or inserted while searching.
RowsComeBack == ~scanPending => panel.disabled = {}

\* A header that says connected, connecting or disconnecting when the daemon
\* has no such link does not stay so.  The message may find no row and be
\* dropped (power_control clears the list before its request is refused): then
\* the next redraw of the list corrects the header.
HeaderIsStale ==
    \/ panel.header = "CONNECTED" /\ link.st # "CONNECTED"
    \/ panel.header \in BusyModes /\ link.st \in {"IDLE", "CONNECTED"}


\* wifi-wlan-callbacks.c:100, of the refused first scan: "Anyways lets set the
\* state to ON and allow user to continue".  Continuing takes the title of the
\* list, after which genlist inserts the first row.
UserCanContinue == [][PowerOnOkNoScan => panel'.grouptitle]_vars

\* wifi_viewer_list.c:215 asserts that grouptitle is NULL when a title is
\* inserted: no title is left on the screen that viewer_list_title_item_del
\* cannot find.
NoStrayTitle == ~panel.strayTitle
=============================================================================
