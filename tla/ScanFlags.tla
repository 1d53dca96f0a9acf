----------------------------- MODULE ScanFlags ------------------------------
(***************************************************************************)
(* The two flags of wlan_manager.c through which scan results reach a list *)
(* on the screen, and the _refresh_ui idlers queued to redraw it.  The     *)
(* gadget and the system popup share this code, each with a copy of the    *)
(* flags in its own process.                                               *)
(***************************************************************************)
EXTENDS Naturals

CONSTANT MaxIdlers    \* bound on queued _refresh_ui idlers

Gates == [b_scan_blocked : BOOLEAN, b_ui_refresh : BOOLEAN, idlers : 0..MaxIdlers]

\* g_malloc0 of the manager_object.
OpenGate == [b_scan_blocked |-> FALSE, b_ui_refresh |-> FALSE, idlers |-> 0]

\* Mutants of Enable: the deferred refresh is dropped; the idler is forgotten.
EnableDropsRefresh(g) == [g EXCEPT !.b_scan_blocked = FALSE, !.b_ui_refresh = FALSE]
EnableWithoutIdler(g) ==
    IF g.b_scan_blocked /\ g.b_ui_refresh THEN g ELSE [g EXCEPT !.b_scan_blocked = FALSE]

\* wlan_manager_enable_scan_result_update: a deferred refresh is handed to an
\* idler and the gate stays shut until that idler has run.
Enable(g) ==
    IF g.b_scan_blocked /\ g.b_ui_refresh
    THEN [g EXCEPT !.idlers = @ + 1]
    ELSE [g EXCEPT !.b_scan_blocked = FALSE]

Disable(g) == [g EXCEPT !.b_scan_blocked = TRUE]

\* wlan_manager_request_scan, when the daemon accepts the request.
ScanRequested(g) == [g EXCEPT !.b_scan_blocked = FALSE, !.b_ui_refresh = FALSE]

\* Mutants of Drained: one of the two flags is not reset.
DrainedKeepsRefresh(g) == [g EXCEPT !.b_scan_blocked = FALSE, !.idlers = @ - 1]
DrainedKeepsBlocked(g) == [g EXCEPT !.b_ui_refresh = FALSE, !.idlers = @ - 1]

\* _refresh_ui, after it has drawn the list.
Drained(g) ==
    [b_scan_blocked |-> FALSE, b_ui_refresh |-> FALSE, idlers |-> g.idlers - 1]
=============================================================================
