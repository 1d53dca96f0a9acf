--------------------------- MODULE ScanGateProofs ---------------------------
(***************************************************************************)
(* Proofs about ScanGate, for every value of the bounds: type correctness, *)
(* and that the gate neither opens on a refresh it still owes nor forgets  *)
(* announced results.                                                      *)
(***************************************************************************)
EXTENDS ScanGate, SequenceTheorems, TLAPS

-----------------------------------------------------------------------------
(* The operators on the gate and on the naviframe.                          *)

LEMMA EnableType ==
    ASSUME NEW g \in Gates, g.idlers < MaxIdlers
    PROVE  Enable(g) \in Gates
<1>1. CASE g.b_scan_blocked /\ g.b_ui_refresh
  BY <1>1, BoundsAssumption DEF Gates, Enable
<1>2. CASE ~(g.b_scan_blocked /\ g.b_ui_refresh)
  BY <1>2, BoundsAssumption DEF Gates, Enable
<1>3. QED
  BY <1>1, <1>2

LEMMA GateTypes ==
    ASSUME NEW g \in Gates
    PROVE  /\ Disable(g) \in Gates
           /\ ScanRequested(g) \in Gates
           /\ [g EXCEPT !.b_ui_refresh = TRUE] \in Gates
BY BoundsAssumption DEF Disable, ScanRequested, Gates

LEMMA DrainedType ==
    ASSUME NEW g \in Gates, g.idlers > 0
    PROVE  Drained(g) \in Gates /\ [g EXCEPT !.idlers = @ - 1] \in Gates
BY BoundsAssumption DEF Drained, Gates

LEMMA FrontType ==
    ASSUME NEW s \in Seq(Views), s # <<>>
    PROVE  SubSeq(s, 1, Len(s) - 1) \in Seq(Views)
BY SubSeqProperties

LEMMA NotesType ==
    ASSUME NEW s \in Seq(PowerNotes), NEW n \in {1, 2}, NEW e \in PowerNotes
    PROVE  s \o [i \in 1..n |-> e] \in Seq(PowerNotes)
<1>1. [i \in 1..n |-> e] \in Seq(PowerNotes)
  BY IsASeq
<1>2. QED
  BY <1>1

-----------------------------------------------------------------------------
(* Type correctness.                                                        *)

LEMMA TypeOKInit == Init => TypeOK
<1> SUFFICES ASSUME Init
             PROVE  TypeOK
  OBVIOUS
<1>1. gate \in Gates
  BY BoundsAssumption DEF Init, OpenGate, Gates
<1>2. powerNotes \in Seq(PowerNotes)
  <2>1. ASSUME NEW e \in PowerNotes
        PROVE  <<e>> \in Seq(PowerNotes)
    OBVIOUS
  <2>2. <<>> \in Seq(PowerNotes)
    OBVIOUS
  <2>3. CASE powerNotes = <<>>
    BY <2>2, <2>3
  <2>4. CASE powerNotes = <<IF wifi = "on" THEN "POWER_ON_OK" ELSE "POWER_OFF_OK">>
    BY <2>1, <2>4, Zenon DEF PowerNotes
  <2>5. QED
    BY <2>3, <2>4 DEF Init, OpenGate
<1>3. above \in Seq(Views)
  BY DEF Init, OpenGate
<1>4. header \in HeaderModes /\ subContents \in BOOLEAN /\ scanPending \in BOOLEAN
  BY DEF Init, OpenGate, HeaderModes
<1>5. /\ initialIdler \in BOOLEAN /\ mainItem \in BOOLEAN /\ eap_view \in BOOLEAN
      /\ passpopup \in BOOLEAN /\ specificPending \in BOOLEAN /\ owed \in BOOLEAN
  BY Zenon DEF Init, OpenGate
<1>6. QED
  BY <1>1, <1>2, <1>3, <1>4, <1>5, BoundsAssumption DEF Init, OpenGate, TypeOK

\* The building blocks of the actions preserve their part of TypeOK.
LEMMA PushType ==
    ASSUME TypeOK, NEW v \in Views, Push(v)
    PROVE  /\ above' \in Seq(Views) /\ screen' \in Views \cup {"main"}
           /\ transitions' \in 0..MaxTransitions
           /\ eap_view' \in BOOLEAN /\ mainItem' \in BOOLEAN
BY BoundsAssumption DEF TypeOK, Push, CanMove

LEMMA PopType ==
    ASSUME TypeOK, above # <<>>, Pop
    PROVE  /\ above' \in Seq(Views) /\ screen' \in Views \cup {"main"}
           /\ transitions' \in 0..MaxTransitions /\ mainItem' \in BOOLEAN
BY BoundsAssumption, FrontType DEF TypeOK, Pop, CanMove

LEMMA TopView ==
    ASSUME Top \in {"detail", "eap"}
    PROVE  above # <<>>
BY DEF Top

LEMMA CloseEapType ==
    ASSUME TypeOK, above # <<>>, CloseEap
    PROVE  /\ above' \in Seq(Views) /\ screen' \in Views \cup {"main"}
           /\ transitions' \in 0..MaxTransitions
           /\ eap_view' \in BOOLEAN /\ mainItem' \in BOOLEAN
           /\ gate' \in Gates
BY PopType, EnableType DEF CloseEap, CanQueue, TypeOK

LEMMA HideSubContentsType ==
    ASSUME TypeOK, HideSubContents
    PROVE  /\ above' \in Seq(Views) /\ screen' \in Views \cup {"main"}
           /\ transitions' \in 0..MaxTransitions
           /\ eap_view' \in BOOLEAN /\ mainItem' \in BOOLEAN
           /\ gate' \in Gates /\ timers' \in 0..MaxTimers
           /\ subContents' = FALSE /\ passpopup' = FALSE
           /\ UNCHANGED <<hidden_ap_popup, initialIdler, phase>>
<1>1. timers' \in 0..MaxTimers
  BY BoundsAssumption DEF TypeOK, HideSubContents, CanArm
<1>2. CASE eap_view /\ Top = "eap"
  BY <1>1, <1>2, CloseEapType, TopView DEF HideSubContents
<1>3. CASE ~(eap_view /\ Top = "eap")
  BY <1>1, <1>3 DEF HideSubContents, TypeOK
<1>4. QED
  BY <1>2, <1>3

LEMMA ScannedProfileRefreshType ==
    ASSUME TypeOK, ScannedProfileRefresh
    PROVE  gate' \in Gates /\ owed' \in BOOLEAN /\ header' \in HeaderModes
BY GateTypes DEF TypeOK, ScannedProfileRefresh, HeaderAfterRefresh, HeaderModes

LEMMA TypeOKStep == TypeOK /\ [Next]_vars => TypeOK'
<1> SUFFICES ASSUME TypeOK, [Next]_vars
             PROVE  TypeOK'
  OBVIOUS
<1> USE BoundsAssumption
    DEF TypeOK, HeaderModes, loop, views, navi, popups, panel, daemon, results,
        CanArm, CanQueue
<1>1. CASE PowerOn
  BY <1>1 DEF PowerOn
<1>2. CASE PowerOff
  <2>1. subContents' \in BOOLEAN
    BY <1>2, Zenon DEF PowerOff
  <2>2. gate' \in Gates
    BY <1>2, GateTypes DEF PowerOff
  <2>3. QED
    BY <1>2, <2>1, <2>2 DEF PowerOff
<1>3. CASE RefreshKey
  <2>1. gate' \in Gates
    BY <1>3, GateTypes DEF RefreshKey
  <2>2. QED
    BY <1>3, <2>1 DEF RefreshKey
<1>4. CASE OpenPasswordPopup
  <2>1. gate' \in Gates
    BY <1>4, GateTypes DEF OpenPasswordPopup
  <2>2. QED
    BY <1>4, <2>1 DEF OpenPasswordPopup
<1>5. CASE OpenHiddenPopup
  <2>1. gate' \in Gates
    BY <1>5, GateTypes DEF OpenHiddenPopup
  <2>2. QED
    BY <1>5, <2>1 DEF OpenHiddenPopup
<1>6. ASSUME NEW v \in {"detail", "eap"}, PushView(v)
      PROVE  TypeOK'
  BY <1>6, PushType DEF PushView, Views
<1>7. CASE ClosePasswordPopup
  <2>1. /\ passpopup' \in BOOLEAN
    BY <1>7, Zenon DEF ClosePasswordPopup
  <2>2. QED
    BY <1>7, <2>1 DEF ClosePasswordPopup
<1>8. CASE HiddenPopupOk
  <2>1. specificPending' \in BOOLEAN
    BY <1>8 DEF HiddenPopupOk
  <2>2. hidden_ap_popup' \in {"none", "entry", "progress"} /\ timers' \in 0..MaxTimers
    BY <1>8 DEF HiddenPopupOk
  <2>3. QED
    BY <1>8, <2>1, <2>2 DEF HiddenPopupOk
<1>9. CASE HiddenPopupCancel
  BY <1>9 DEF HiddenPopupCancel
<1>10. CASE LeaveDetail
  BY <1>10, PopType, TopView DEF LeaveDetail
<1>11. CASE LeaveEap
  BY <1>11, CloseEapType, TopView DEF LeaveEap
<1>12. CASE EndKeyPop
  <2>1. CASE above # <<>> /\ Pop
    BY <1>12, <2>1, PopType DEF EndKeyPop
  <2>2. CASE above = <<>> /\ mainItem' = FALSE /\ UNCHANGED <<above, screen, transitions>>
    <3>1. mainItem' \in BOOLEAN
      BY <2>2, Zenon
    <3>2. QED
      BY <1>12, <2>2, <3>1 DEF EndKeyPop
  <2>3. QED
    BY <1>12, <2>1, <2>2 DEF EndKeyPop
<1>13. CASE WifiExit
  <2>1. /\ eap_view' \in BOOLEAN
        /\ passpopup' \in BOOLEAN
        /\ subContents' \in BOOLEAN
        /\ specificPending' \in BOOLEAN
        /\ scanPending' \in BOOLEAN
        /\ owed' \in BOOLEAN
    BY <1>13, Zenon DEF WifiExit
  <2>2. QED
    BY <1>13, <2>1 DEF WifiExit, Gates, Views
<1>14. CASE TimerFires
  <2>1. gate' \in Gates
    BY <1>14, EnableType DEF TimerFires
  <2>2. QED
    BY <1>14, <2>1 DEF TimerFires
<1>15. CASE RefreshUi
  <2>1. owed' \in BOOLEAN
    BY <1>15, Zenon DEF RefreshUi
  <2>2. gate' \in Gates
    BY <1>15, DrainedType DEF RefreshUi
  <2>3. header' \in HeaderModes
    BY <1>15 DEF RefreshUi, HeaderAfterRefresh
  <2>4. QED
    BY <1>15, <2>1, <2>2, <2>3 DEF RefreshUi
<1>16. CASE LoadInitialApList
  <2>1. /\ initialIdler' \in BOOLEAN
    BY <1>16, Zenon DEF LoadInitialApList
  <2>2. QED
    BY <1>16, <2>1 DEF LoadInitialApList, HeaderAfterRefresh
<1>17. CASE TransitionFinished
  <2>1. gate' \in Gates
    BY <1>17, EnableType, GateTypes DEF TransitionFinished
  <2>2. QED
    BY <1>17, <2>1 DEF TransitionFinished
<1>18. CASE LateCallback
  <2>1. /\ initialIdler' \in BOOLEAN
    BY <1>18, Zenon DEF LateCallback
  <2>2. QED
    BY <1>18, <2>1, DrainedType DEF LateCallback
<1>19. CASE RadioSwitched
  <2>1. PICK n \in {1, 2} : powerNotes' = powerNotes \o
           [i \in 1..n |-> IF wifi = "on" THEN "POWER_OFF_OK" ELSE "POWER_ON_OK"]
    BY <1>19 DEF RadioSwitched
  <2>2. powerNotes' \in Seq(PowerNotes)
    BY <2>1, NotesType DEF PowerNotes
  <2>3. QED
    BY <1>19, <2>2 DEF RadioSwitched
<1>20. CASE PowerOnOk
  <2>1. powerNotes' \in Seq(PowerNotes)
    BY <1>20, HeadTailProperties DEF PowerOnOk
  <2>2. gate' \in Gates
    BY <1>20, GateTypes DEF PowerOnOk
  <2>3. QED
    BY <1>20, <2>1, <2>2 DEF PowerOnOk
<1>21. CASE PowerOnOkNoScan
  <2>1. powerNotes' \in Seq(PowerNotes)
    BY <1>21, HeadTailProperties DEF PowerOnOkNoScan
  <2>2. QED
    BY <1>21, <2>1, HideSubContentsType DEF PowerOnOkNoScan
<1>22. CASE PowerOffOk
  <2>1. powerNotes' \in Seq(PowerNotes)
    BY <1>22, HeadTailProperties DEF PowerOffOk
  <2>2. QED
    BY <1>22, <2>1, HideSubContentsType DEF PowerOffOk
<1>23. CASE PowerOnFailed
  BY <1>23 DEF PowerOnFailed
<1>24. CASE ScanOk
  <2>1. scanPending' \in BOOLEAN
    BY <1>24, Zenon DEF ScanOk
  <2>2. gate' \in Gates /\ owed' \in BOOLEAN /\ header' \in HeaderModes
    <3>1. CASE header \in {"DEACTIVATING", "OFF"}
      <4>1. owed' \in BOOLEAN
        BY <1>24, <3>1, Zenon DEF ScanOk
      <4>2. QED
        BY <1>24, <3>1, <4>1 DEF ScanOk
    <3>2. CASE header \notin {"DEACTIVATING", "OFF"}
      BY <1>24, <3>2, ScannedProfileRefreshType DEF ScanOk
    <3>3. QED
      BY <3>1, <3>2
  <2>3. QED
    BY <1>24, <2>1, <2>2 DEF ScanOk
<1>25. CASE ScanResultInd
  BY <1>25, ScannedProfileRefreshType DEF ScanResultInd
<1>26. CASE ConnectionEvent
  BY <1>26 DEF ConnectionEvent
<1>27. CASE ConnectionEventClosingPopup
  <2>1. /\ passpopup' \in BOOLEAN
    BY <1>27, Zenon DEF ConnectionEventClosingPopup
  <2>2. QED
    BY <1>27, <2>1 DEF ConnectionEventClosingPopup
<1>28. CASE SpecificScanInd
  <2>1. specificPending' \in BOOLEAN
    BY <1>28, Zenon DEF SpecificScanInd
  <2>2. CASE hidden_ap_popup # "progress"
    BY <1>28, <2>1, <2>2 DEF SpecificScanInd
  <2>3. CASE hidden_ap_popup = "progress"
    <3>1. hidden_ap_popup' = "none" /\ timers' \in 0..MaxTimers
      BY <1>28, <2>3 DEF SpecificScanInd
    <3>2. CASE passpopup' = TRUE /\ gate' = Disable(gate) /\ UNCHANGED views
      <4>1. gate' \in Gates
        BY <3>2, GateTypes
      <4>2. QED
        BY <1>28, <2>1, <3>1, <3>2, <4>1 DEF SpecificScanInd
    <3>3. CASE Push("eap") /\ UNCHANGED <<gate, passpopup>>
      BY <1>28, <2>1, <3>1, <3>3, PushType DEF SpecificScanInd, Views
    <3>4. CASE UNCHANGED <<gate, views, passpopup>>
      BY <1>28, <2>1, <3>1, <3>4 DEF SpecificScanInd
    <3>5. QED
      BY <1>28, <2>3, <3>2, <3>3, <3>4 DEF SpecificScanInd
  <2>4. QED
    BY <2>2, <2>3
<1>29. CASE SpecificScanFail
  <2>1. /\ specificPending' \in BOOLEAN
    BY <1>29, Zenon DEF SpecificScanFail
  <2>2. QED
    BY <1>29, <2>1 DEF SpecificScanFail
<1>30. CASE UNCHANGED vars
  BY <1>30 DEF vars
<1>31. QED
  BY <1>1, <1>2, <1>3, <1>4, <1>5, <1>6, <1>7, <1>8, <1>9, <1>10, <1>11, <1>12,
     <1>13, <1>14, <1>15, <1>16, <1>17, <1>18, <1>19, <1>20, <1>21, <1>22, <1>23,
     <1>24, <1>25, <1>26, <1>27, <1>28, <1>29, <1>30
     DEF Next, User, MainLoop, Daemon, Stopped

\* Every variable keeps its type, whatever the bounds: in particular an idler
\* is only counted down when it was queued, and the naviframe is only popped
\* when there is something to pop (ScanGate, all actions).
THEOREM TypeCorrect == Spec => []TypeOK
<1>1. Init => TypeOK
  BY TypeOKInit
<1>2. TypeOK /\ [Next]_vars => TypeOK'
  BY TypeOKStep
<1>3. QED
  BY <1>1, <1>2, PTL DEF Spec
-----------------------------------------------------------------------------
(* The gate.                                                                *)

\* All that a step can do to the gate.
GateStep ==
    \/ gate' = gate
    \/ gate' = Enable(gate)
    \/ gate' = Disable(gate)
    \/ gate' = ScanRequested(gate)
    \/ gate' = Drained(gate)
    \/ gate.b_scan_blocked /\ gate' = [gate EXCEPT !.b_ui_refresh = TRUE]
    \/ gate' = [gate EXCEPT !.idlers = @ - 1]
    \/ gate' = [b_scan_blocked |-> FALSE, b_ui_refresh |-> FALSE, idlers |-> gate.idlers]

LEMMA GateSteps == [Next]_vars => GateStep
<1> SUFFICES ASSUME [Next]_vars
             PROVE  GateStep
  OBVIOUS
<1> USE DEF GateStep
<1>1. CASE User
  <2>1. CASE CloseEap
    BY <2>1 DEF CloseEap
  <2>2. QED
    BY <1>1, <2>1 DEF User, PowerOn, PowerOff, RefreshKey, OpenPasswordPopup,
       OpenHiddenPopup, PushView, ClosePasswordPopup, HiddenPopupOk,
       HiddenPopupCancel, LeaveDetail, LeaveEap, EndKeyPop, WifiExit
<1>2. CASE MainLoop
  BY <1>2 DEF MainLoop, TimerFires, RefreshUi, LoadInitialApList, TransitionFinished
<1>3. CASE Daemon
  <2>1. CASE HideSubContents
    BY <2>1 DEF HideSubContents, CloseEap
  <2>2. CASE ScannedProfileRefresh
    BY <2>2 DEF ScannedProfileRefresh
  <2>3. QED
    BY <1>3, <2>1, <2>2 DEF Daemon, RadioSwitched, PowerOnOk, PowerOnOkNoScan,
       PowerOffOk, PowerOnFailed, ScanOk, ScanResultInd, ConnectionEvent,
       ConnectionEventClosingPopup, SpecificScanInd, SpecificScanFail
<1>4. CASE LateCallback
  BY <1>4 DEF LateCallback
<1>5. CASE UNCHANGED vars
  BY <1>5 DEF vars
<1>6. QED
  BY <1>1, <1>2, <1>3, <1>4, <1>5 DEF Next, Stopped

LEMMA DeferredStep ==
    ASSUME TypeOK, DeferredOnlyWhileBlocked, GateStep
    PROVE  DeferredOnlyWhileBlocked'
<1> USE DEF DeferredOnlyWhileBlocked, TypeOK, Gates
<1>1. CASE gate' = gate
  BY <1>1
<1>2. CASE gate' = Enable(gate)
  <2>1. CASE gate.b_scan_blocked /\ gate.b_ui_refresh
    BY <1>2, <2>1 DEF Enable
  <2>2. CASE ~gate.b_ui_refresh
    BY <1>2, <2>2 DEF Enable
  <2>3. QED
    BY <2>1, <2>2
<1>3. CASE gate' = Disable(gate)
  BY <1>3 DEF Disable
<1>4. CASE gate' = ScanRequested(gate)
  BY <1>4 DEF ScanRequested
<1>5. CASE gate' = Drained(gate)
  BY <1>5 DEF Drained
<1>6. CASE gate.b_scan_blocked /\ gate' = [gate EXCEPT !.b_ui_refresh = TRUE]
  BY <1>6
<1>7. CASE gate' = [gate EXCEPT !.idlers = @ - 1]
  BY <1>7
<1>8. CASE gate' = [b_scan_blocked |-> FALSE, b_ui_refresh |-> FALSE, idlers |-> gate.idlers]
  BY <1>8
<1>9. QED
  BY <1>1, <1>2, <1>3, <1>4, <1>5, <1>6, <1>7, <1>8 DEF GateStep

\* No path opens the gate and keeps the flag (wlan_manager.c: enable, _refresh_ui
\* and request_scan, and everything that calls them).
THEOREM DeferredImpliesBlocked == Spec => []DeferredOnlyWhileBlocked
<1>1. Init => DeferredOnlyWhileBlocked
  BY DEF Init, OpenGate, DeferredOnlyWhileBlocked
<1>2. TypeOK /\ DeferredOnlyWhileBlocked /\ [Next]_vars => DeferredOnlyWhileBlocked'
  BY GateSteps, DeferredStep
<1>3. QED
  BY <1>1, <1>2, TypeCorrect, PTL DEF Spec
-----------------------------------------------------------------------------
(* Announced results.                                                       *)

\* Opening or shutting the gate keeps a deferred refresh.
LEMMA RefreshSurvives ==
    ASSUME NEW g \in Gates, g.b_ui_refresh
    PROVE  /\ Enable(g).b_ui_refresh
           /\ Disable(g).b_ui_refresh
           /\ [g EXCEPT !.b_ui_refresh = TRUE].b_ui_refresh
           /\ [g EXCEPT !.idlers = @ - 1].b_ui_refresh
<1>1. CASE g.b_scan_blocked
  BY <1>1 DEF Gates, Enable, Disable
<1>2. CASE ~g.b_scan_blocked
  BY <1>2 DEF Gates, Enable, Disable
<1>3. QED
  BY <1>1, <1>2

\* A step that draws no list and forgets no results.
KeepsResults ==
    /\ UNCHANGED results
    /\ \/ gate' = gate \/ gate' = Enable(gate) \/ gate' = Disable(gate)
       \/ gate' = [gate EXCEPT !.idlers = @ - 1]

LEMMA KeepsResultsStep ==
    ASSUME TypeOK, AnnouncedResultsAreKept, KeepsResults
    PROVE  AnnouncedResultsAreKept'
<1>1. gate \in Gates
  BY DEF TypeOK
<1>2. gate.b_ui_refresh => gate'.b_ui_refresh
  BY <1>1, RefreshSurvives DEF KeepsResults
<1>3. QED
  BY <1>2 DEF KeepsResults, AnnouncedResultsAreKept, results

LEMMA ScannedProfileRefreshKeeps ==
    ASSUME TypeOK, ScannedProfileRefresh
    PROVE  AnnouncedResultsAreKept'
<1>1. CASE gate.b_scan_blocked
  BY <1>1 DEF ScannedProfileRefresh, AnnouncedResultsAreKept, TypeOK, Gates
<1>2. CASE ~gate.b_scan_blocked
  BY <1>2 DEF ScannedProfileRefresh, AnnouncedResultsAreKept
<1>3. QED
  BY <1>1, <1>2

LEMMA AnnouncedStep ==
    ASSUME TypeOK, AnnouncedResultsAreKept, [Next]_vars
    PROVE  AnnouncedResultsAreKept'
<1> USE DEF KeepsResults
<1>1. CASE RefreshKey
  BY <1>1 DEF RefreshKey, AnnouncedResultsAreKept
<1>2. CASE WifiExit
  BY <1>2 DEF WifiExit, AnnouncedResultsAreKept
<1>3. CASE RefreshUi
  BY <1>3 DEF RefreshUi, AnnouncedResultsAreKept
<1>4. CASE PowerOnOk
  BY <1>4 DEF PowerOnOk, AnnouncedResultsAreKept
<1>5. CASE ScanOk
  <2>1. CASE header \in {"DEACTIVATING", "OFF"}
    BY <1>5, <2>1 DEF ScanOk, AnnouncedResultsAreKept
  <2>2. CASE header \notin {"DEACTIVATING", "OFF"}
    BY <1>5, <2>2, ScannedProfileRefreshKeeps DEF ScanOk
  <2>3. QED
    BY <2>1, <2>2
<1>6. CASE ScanResultInd
  BY <1>6, ScannedProfileRefreshKeeps DEF ScanResultInd
<1>7. CASE User /\ ~RefreshKey /\ ~WifiExit
  <2>1. CloseEap => gate' = Enable(gate)
    BY DEF CloseEap
  <2>2. KeepsResults
    BY <1>7, <2>1 DEF User, PowerOn, PowerOff, OpenPasswordPopup, OpenHiddenPopup,
       PushView, ClosePasswordPopup, HiddenPopupOk, HiddenPopupCancel, LeaveDetail,
       LeaveEap, EndKeyPop
  <2>3. QED
    BY <2>2, KeepsResultsStep
<1>8. CASE MainLoop /\ ~RefreshUi
  <2>1. KeepsResults
    BY <1>8 DEF MainLoop, TimerFires, LoadInitialApList, TransitionFinished
  <2>2. QED
    BY <2>1, KeepsResultsStep
<1>9. CASE Daemon /\ ~PowerOnOk /\ ~ScanOk /\ ~ScanResultInd
  <2>1. HideSubContents => gate' = gate \/ gate' = Enable(gate)
    BY DEF HideSubContents, CloseEap
  <2>2. KeepsResults
    BY <1>9, <2>1 DEF Daemon, RadioSwitched, PowerOnOkNoScan, PowerOffOk,
       PowerOnFailed, ConnectionEvent, ConnectionEventClosingPopup, SpecificScanInd,
       SpecificScanFail
  <2>3. QED
    BY <2>2, KeepsResultsStep
<1>10. CASE LateCallback \/ UNCHANGED vars
  <2>1. KeepsResults
    BY <1>10 DEF LateCallback, vars
  <2>2. QED
    BY <2>1, KeepsResultsStep
<1>11. QED
  BY <1>1, <1>2, <1>3, <1>4, <1>5, <1>6, <1>7, <1>8, <1>9, <1>10 DEF Next, Stopped

\* Announced results wait behind the flag or for the answer to an accepted scan:
\* no order of popups, views, timers, idlers and messages loses them.
THEOREM AnnouncedAreKept == Spec => []AnnouncedResultsAreKept
<1>1. Init => AnnouncedResultsAreKept
  BY DEF Init, OpenGate, AnnouncedResultsAreKept
<1>2. TypeOK /\ AnnouncedResultsAreKept /\ [Next]_vars => AnnouncedResultsAreKept'
  BY AnnouncedStep
<1>3. QED
  BY <1>1, <1>2, TypeCorrect, PTL DEF Spec
-----------------------------------------------------------------------------
(* A shut gate has a keeper.                                                *)

\* Where Enable leaves the gate shut, it has queued an idler.
LEMMA EnableLeavesKeeper ==
    ASSUME NEW g \in Gates, Enable(g).b_scan_blocked
    PROVE  Enable(g).idlers > 0
<1>1. CASE g.b_scan_blocked /\ g.b_ui_refresh
  BY <1>1, BoundsAssumption DEF Gates, Enable
<1>2. CASE ~(g.b_scan_blocked /\ g.b_ui_refresh)
  BY <1>2 DEF Gates, Enable
<1>3. QED
  BY <1>1, <1>2

LEMMA PushedTop ==
    ASSUME TypeOK, NEW v \in Views, Push(v)
    PROVE  Top' # "main"
<1>1. above' # <<>> /\ above'[Len(above')] = v
  BY AppendProperties DEF TypeOK, Push
<1>2. QED
  BY <1>1 DEF Top, Views

LEMMA PopTransits ==
    ASSUME TypeOK, Pop
    PROVE  transitions' > 0
BY BoundsAssumption DEF TypeOK, Pop

LEMMA KeeperStep ==
    ASSUME TypeOK, ShutGateHasKeeper, [Next]_vars
    PROVE  ShutGateHasKeeper'
<1> USE DEF ShutGateHasKeeper
<1>g. gate \in Gates /\ timers \in Nat /\ gate.idlers \in Nat /\ transitions \in Nat
  BY BoundsAssumption DEF TypeOK, Gates
<1>1. CASE PowerOn \/ LoadInitialApList \/ RadioSwitched \/ PowerOnFailed \/ ConnectionEvent
  BY <1>1 DEF PowerOn, LoadInitialApList, RadioSwitched, PowerOnFailed, ConnectionEvent,
     loop, views, navi, popups, panel, daemon, results, Top
<1>2. CASE PowerOff
  BY <1>2 DEF PowerOff
<1>3. CASE RefreshKey \/ PowerOnOk
  BY <1>3, <1>g DEF RefreshKey, PowerOnOk, ScanRequested, Gates
<1>4. CASE OpenPasswordPopup \/ OpenHiddenPopup
  BY <1>4 DEF OpenPasswordPopup, OpenHiddenPopup
<1>5. ASSUME NEW v \in {"detail", "eap"}, PushView(v)
      PROVE  ShutGateHasKeeper'
  BY <1>5, PushedTop DEF PushView, Views
<1>6. CASE ClosePasswordPopup \/ HiddenPopupOk \/ HiddenPopupCancel \/ ConnectionEventClosingPopup
  BY <1>6, <1>g DEF ClosePasswordPopup, HiddenPopupOk, HiddenPopupCancel,
     ConnectionEventClosingPopup
<1>7. CASE LeaveDetail \/ LeaveEap
  BY <1>7, PopTransits DEF LeaveDetail, LeaveEap, CloseEap
<1>8. CASE EndKeyPop
  <2>1. CASE above # <<>> /\ Pop
    BY <2>1, PopTransits
  <2>2. CASE above = <<>> /\ mainItem' = FALSE /\ UNCHANGED <<above, screen, transitions>>
    BY <2>2 DEF Top
  <2>3. QED
    BY <1>8, <2>1, <2>2 DEF EndKeyPop
<1>9. CASE WifiExit \/ LateCallback
  BY <1>9 DEF WifiExit, LateCallback
<1>10. CASE TimerFires
  BY <1>10, <1>g, EnableLeavesKeeper DEF TimerFires
<1>11. CASE RefreshUi
  BY <1>11 DEF RefreshUi, Drained
<1>12. CASE TransitionFinished
  <2>1. Top' = Top
    BY <1>12 DEF TransitionFinished, Top
  <2>2. CASE screen' = "main"
    BY <1>12, <2>2, <1>g, EnableLeavesKeeper DEF TransitionFinished
  <2>3. CASE screen' # "main"
    BY <1>12, <2>1, <2>3 DEF TransitionFinished
  <2>4. QED
    BY <2>2, <2>3
<1>13. CASE PowerOnOkNoScan \/ PowerOffOk
  BY <1>13 DEF PowerOnOkNoScan, PowerOffOk, HideSubContents
<1>14. CASE ScanOk \/ ScanResultInd
  <2>1. gate'.b_scan_blocked => gate.b_scan_blocked
    BY <1>14, <1>g DEF ScanOk, ScanResultInd, ScannedProfileRefresh, Gates
  <2>2. gate'.idlers = gate.idlers
    BY <1>14, <1>g DEF ScanOk, ScanResultInd, ScannedProfileRefresh, Gates
  <2>3. QED
    BY <1>14, <2>1, <2>2 DEF ScanOk, ScanResultInd, loop, views, navi, popups, daemon, Top
<1>15. CASE SpecificScanInd
  <2>1. CASE hidden_ap_popup # "progress"
    BY <1>15, <2>1 DEF SpecificScanInd, views, navi, popups, panel, results, Top
  <2>2. CASE hidden_ap_popup = "progress"
    BY <1>15, <2>2, <1>g DEF SpecificScanInd
  <2>3. QED
    BY <2>1, <2>2
<1>16. CASE SpecificScanFail
  <2>1. CASE hidden_ap_popup = "none"
    BY <1>16, <2>1 DEF SpecificScanFail, views, navi, panel, results, Top
  <2>2. CASE hidden_ap_popup # "none"
    BY <1>16, <2>2, <1>g DEF SpecificScanFail
  <2>3. QED
    BY <2>1, <2>2
<1>17. CASE UNCHANGED vars
  BY <1>17 DEF vars, loop, views, navi, popups, panel, daemon, results, Top
<1>18. QED
  BY <1>1, <1>2, <1>3, <1>4, <1>5, <1>6, <1>7, <1>8, <1>9, <1>10, <1>11, <1>12,
     <1>13, <1>14, <1>15, <1>16, <1>17 DEF Next, User, MainLoop, Daemon, Stopped

\* The gate is never shut with nothing left that will open it, whichever of
\* the popups, views and messages shut it and in whichever order they go.
THEOREM ShutGateIsKept == Spec => []ShutGateHasKeeper
<1>1. Init => ShutGateHasKeeper
  BY DEF Init, OpenGate, ShutGateHasKeeper
<1>2. TypeOK /\ ShutGateHasKeeper /\ [Next]_vars => ShutGateHasKeeper'
  BY KeeperStep
<1>3. QED
  BY <1>1, <1>2, TypeCorrect, PTL DEF Spec
-----------------------------------------------------------------------------
(* The screen type.                                                         *)

\* Inductive: a view above the main one always shows in the screen type, also in
\* transit; that is what TransitionFinished needs when a view is left.
ScreenInv ==
    phase = "running" =>
        /\ above # <<>> => screen # "main"
        /\ transitions = 0 /\ above = <<>> /\ mainItem => screen = "main"

LEMMA PushScreen ==
    ASSUME TypeOK, NEW v \in Views, Push(v)
    PROVE  screen' # "main" /\ transitions' > 0
BY BoundsAssumption DEF TypeOK, Push, Views

LEMMA PopScreen ==
    ASSUME TypeOK, ScreenInv, Running, above # <<>>, Pop
    PROVE  screen' # "main" /\ transitions' > 0
BY PopTransits DEF Pop, ScreenInv, Running

LEMMA ScreenStep ==
    ASSUME TypeOK, ScreenInv, [Next]_vars
    PROVE  ScreenInv'
<1> USE DEF ScreenInv, Running
<1>1. CASE UNCHANGED <<phase, views>>
  BY <1>1 DEF views, navi
<1>2. ASSUME NEW v \in {"detail", "eap"}, PushView(v)
      PROVE  ScreenInv'
  BY <1>2, PushScreen DEF PushView, Views
<1>3. CASE LeaveDetail \/ LeaveEap
  BY <1>3, PopScreen, TopView DEF LeaveDetail, LeaveEap, CloseEap
<1>4. CASE EndKeyPop
  <2>1. CASE above # <<>> /\ Pop
    BY <1>4, <2>1, PopScreen DEF EndKeyPop
  <2>2. CASE above = <<>> /\ mainItem' = FALSE /\ UNCHANGED <<above, screen, transitions>>
    BY <2>2
  <2>3. QED
    BY <1>4, <2>1, <2>2 DEF EndKeyPop
<1>5. CASE WifiExit \/ LateCallback
  BY <1>5 DEF WifiExit, LateCallback
<1>6. CASE TransitionFinished
  <2>1. above' = above /\ mainItem' = mainItem
    BY <1>6 DEF TransitionFinished
  <2>2. CASE Top = "main"
    <3>1. above = <<>>
      BY <2>2 DEF Top, TypeOK, Views
    <3>2. QED
      BY <1>6, <2>1, <2>2, <3>1 DEF TransitionFinished
  <2>3. CASE Top # "main"
    BY <1>6, <2>1, <2>3 DEF TransitionFinished, Top
  <2>4. QED
    BY <2>2, <2>3
<1>7. CASE PowerOnOkNoScan \/ PowerOffOk
  <2>1. CASE CloseEap /\ Top = "eap"
    BY <1>7, <2>1, PopScreen, TopView DEF CloseEap, PowerOnOkNoScan, PowerOffOk
  <2>2. CASE UNCHANGED <<mainItem, above, screen, transitions>>
    BY <1>7, <2>2 DEF PowerOnOkNoScan, PowerOffOk, HideSubContents
  <2>3. QED
    BY <1>7, <2>1, <2>2 DEF PowerOnOkNoScan, PowerOffOk, HideSubContents
<1>8. CASE SpecificScanInd
  <2>1. CASE UNCHANGED views
    BY <1>8, <2>1, <1>1 DEF SpecificScanInd
  <2>2. CASE Push("eap")
    BY <1>8, <2>2, PushScreen DEF Views
  <2>3. QED
    BY <1>8, <2>1, <2>2 DEF SpecificScanInd, views, navi
<1>9. CASE User /\ ~UNCHANGED <<phase, views>>
  BY <1>9, <1>2, <1>3, <1>4, <1>5 DEF User, PowerOn, PowerOff, RefreshKey,
     OpenPasswordPopup, OpenHiddenPopup, ClosePasswordPopup, HiddenPopupOk,
     HiddenPopupCancel, loop
<1>10. CASE MainLoop
  BY <1>10, <1>1, <1>6 DEF MainLoop, TimerFires, RefreshUi, LoadInitialApList, loop
<1>11. CASE Daemon
  BY <1>11, <1>1, <1>7, <1>8 DEF Daemon, RadioSwitched, PowerOnOk, PowerOnFailed, ScanOk,
     ScanResultInd, ConnectionEvent, ConnectionEventClosingPopup, SpecificScanFail, loop
<1>12. QED
  BY <1>1, <1>5, <1>9, <1>10, <1>11 DEF Next, Stopped, vars, loop

\* END leaves a view, and not the gadget, exactly when a view is on top, once
\* the transitions have finished; a pop, an EAP view over a detail view or a
\* view closed by power-off does not upset it.
THEOREM ScreenTypeIsRight == Spec => []ScreenTypeLagsOnlyInTransit
<1>1. Init => ScreenInv
  BY DEF Init, OpenGate, ScreenInv
<1>2. TypeOK /\ ScreenInv /\ [Next]_vars => ScreenInv'
  BY ScreenStep
<1>3. TypeOK /\ ScreenInv => ScreenTypeLagsOnlyInTransit
  <2> SUFFICES ASSUME TypeOK, ScreenInv, phase = "running", transitions = 0, Top # "none"
               PROVE  screen = "main" <=> Top = "main"
    BY DEF ScreenTypeLagsOnlyInTransit
  <2>1. CASE above = <<>>
    BY <2>1 DEF ScreenInv, Top
  <2>2. CASE above # <<>>
    <3>1. above[Len(above)] \in Views
      BY <2>2, ElementOfSeq, LenProperties, EmptySeq DEF TypeOK
    <3>2. QED
      BY <2>2, <3>1 DEF ScreenInv, Top, Views
  <2>3. QED
    BY <2>1, <2>2
<1>4. QED
  BY <1>1, <1>2, <1>3, TypeCorrect, PTL DEF Spec
-----------------------------------------------------------------------------
(* The promise of ResultGate.                                               *)

\* Opening, shutting or leaving the gate alone is a step of the promise or none.
LEMMA KeepsResultsPromise ==
    ASSUME TypeOK, KeepsResults, Running, phase' = phase
    PROVE  [Promise!Next]_(Promise!vars)
<1> USE DEF Promise!vars, Promise!Next, results, Running
<1>g. gate \in Gates
  BY DEF TypeOK
<1>s. SUFFICES ASSUME ~ UNCHANGED <<gate.b_scan_blocked, gate.b_ui_refresh>>
               PROVE  Promise!Next
  BY DEF KeepsResults
<1>1. CASE gate' = Enable(gate)
  <2>1. ~gate.b_ui_refresh /\ gate' = [gate EXCEPT !.b_scan_blocked = FALSE]
    BY <1>1, <1>g, <1>s DEF Enable, Gates
  <2>2. gate'.b_scan_blocked = FALSE /\ gate'.b_ui_refresh = gate.b_ui_refresh
    BY <2>1, <1>g DEF Gates
  <2>3. QED
    BY <2>1, <2>2 DEF Promise!Open, KeepsResults
<1>2. CASE gate' = Disable(gate)
  <2>1. gate'.b_scan_blocked = TRUE /\ gate'.b_ui_refresh = gate.b_ui_refresh
    BY <1>2, <1>g DEF Gates, Disable
  <2>2. QED
    BY <2>1 DEF Promise!Shut, KeepsResults
<1>3. CASE gate' = [gate EXCEPT !.idlers = @ - 1]
  BY <1>3, <1>g, <1>s DEF Gates
<1>4. QED
  BY <1>1, <1>2, <1>3, <1>s DEF KeepsResults

LEMMA ScannedProfileRefreshDelivers ==
    ASSUME TypeOK, ScannedProfileRefresh
    PROVE  Promise!Deliver
<1>1. gate \in Gates
  BY DEF TypeOK
<1>2. CASE gate.b_scan_blocked
  BY <1>1, <1>2 DEF ScannedProfileRefresh, Promise!Deliver, Gates
<1>3. CASE ~gate.b_scan_blocked
  BY <1>1, <1>3 DEF ScannedProfileRefresh, Promise!Deliver, Gates
<1>4. QED
  BY <1>2, <1>3

LEMMA PromiseStep ==
    ASSUME TypeOK, [Next]_vars
    PROVE  [Promise!Next]_(Promise!vars)
<1>g. gate \in Gates
  BY DEF TypeOK
<1>1. CASE RefreshKey \/ PowerOnOk
  BY <1>1, <1>g DEF Promise!Next, Running, RefreshKey, MainInput, PowerOnOk, ScanRequested, Promise!Scan, loop, Gates
<1>2. CASE WifiExit
  BY <1>2 DEF Promise!Next, Running, WifiExit, Promise!End
<1>3. CASE RefreshUi
  BY <1>3 DEF Promise!Next, Running, RefreshUi, Drained, Promise!Draw, loop
<1>4. CASE ScanOk
  <2>1. CASE header \in {"DEACTIVATING", "OFF"}
    BY <1>4, <2>1 DEF Promise!Next, Running, ScanOk, loop, Promise!Answer
  <2>2. CASE header \notin {"DEACTIVATING", "OFF"}
    BY <1>4, <2>2, ScannedProfileRefreshDelivers DEF Promise!Next, Running, ScanOk, loop, Promise!Answer
  <2>3. QED
    BY <2>1, <2>2
<1>5. CASE ScanResultInd
  BY <1>5, ScannedProfileRefreshDelivers DEF Promise!Next, Running, ScanResultInd, loop, Promise!Announce
<1>6. CASE User /\ ~RefreshKey /\ ~WifiExit
  <2>1. CloseEap => gate' = Enable(gate)
    BY DEF CloseEap
  <2>2. KeepsResults /\ Running /\ phase' = phase
    BY <1>6, <2>1 DEF User, Running, PowerOn, PowerOff, OpenPasswordPopup, OpenHiddenPopup,
       PushView, ClosePasswordPopup, HiddenPopupOk, HiddenPopupCancel, LeaveDetail,
       LeaveEap, EndKeyPop, KeepsResults, MainInput, loop, results
  <2>3. QED
    BY <2>2, KeepsResultsPromise
<1>7. CASE MainLoop /\ ~RefreshUi
  <2>1. KeepsResults /\ Running /\ phase' = phase
    BY <1>7 DEF MainLoop, Running, TimerFires, LoadInitialApList, TransitionFinished, KeepsResults,
       loop, results
  <2>2. QED
    BY <2>1, KeepsResultsPromise
<1>8. CASE Daemon /\ ~PowerOnOk /\ ~ScanOk /\ ~ScanResultInd
  <2>1. HideSubContents => phase' = phase /\ (gate' = gate \/ gate' = Enable(gate))
    BY DEF HideSubContents, CloseEap
  <2>2. KeepsResults /\ Running /\ phase' = phase
    BY <1>8, <2>1 DEF Daemon, Running, RadioSwitched, PowerOnOkNoScan, PowerOffOk,
       PowerOnFailed, ConnectionEvent, ConnectionEventClosingPopup, SpecificScanInd,
       SpecificScanFail, KeepsResults, loop, results
  <2>3. QED
    BY <2>2, KeepsResultsPromise
<1>9. CASE LateCallback
  <2>1. gate'.b_scan_blocked = gate.b_scan_blocked /\ gate'.b_ui_refresh = gate.b_ui_refresh
    BY <1>9, <1>g DEF LateCallback, Gates
  <2>2. phase # "running" /\ phase' # "running"
    BY <1>9 DEF LateCallback
  <2>3. UNCHANGED <<owed, scanPending>>
    BY <1>9 DEF LateCallback, results
  <2>4. QED
    BY <2>1, <2>2, <2>3 DEF Promise!vars
<1>10. CASE UNCHANGED vars
  BY <1>10 DEF vars, loop, results, Promise!vars
<1>11. QED
  BY <1>1, <1>2, <1>3, <1>4, <1>5, <1>6, <1>7, <1>8, <1>9, <1>10 DEF Next, Stopped

\* The detailed gate implements ResultGate: whatever popups, views, timers and
\* idlers do to the flags, it is a step of the promise or no step of it.
THEOREM GateImplementsPromise == Spec => KeepsPromise
<1>1. Init => Promise!Init
  <2>1. Init => scanPending \in BOOLEAN
    BY TypeOKInit DEF TypeOK
  <2>2. QED
    BY <2>1 DEF Init, OpenGate, Promise!Init
<1>2. TypeOK /\ [Next]_vars => [Promise!Next]_(Promise!vars)
  BY PromiseStep
<1>3. QED
  BY <1>1, <1>2, TypeCorrect, PTL DEF Spec, KeepsPromise, Promise!Spec
=============================================================================
