----------------------------- MODULE ResultGate -----------------------------
(***************************************************************************)
(* What wlan_manager.c promises of announced scan results, without views,  *)
(* popups, timers or idlers: a gate that anybody may shut or open, behind  *)
(* which a result is deferred; once it is, only a redraw or a scan that    *)
(* will be answered opens the gate.                                        *)
(***************************************************************************)
VARIABLES
    shut,       \* results are not to be listed now (b_scan_blocked)
    deferred,   \* a result came while the gate was shut (b_ui_refresh)
    owed,       \* a result was announced, not refused and not listed
    answerDue,  \* a scan was accepted and will be answered
    ended       \* the program has ended

vars == <<shut, deferred, owed, answerDue, ended>>

Init ==
    /\ shut = FALSE /\ deferred = FALSE /\ owed = FALSE
    /\ answerDue \in BOOLEAN
    /\ ~ended

\* A result comes: it is listed, or deferred behind the shut gate.
Deliver ==
    /\ owed' = shut
    /\ deferred' = (deferred \/ shut)
    /\ UNCHANGED shut

Announce == Deliver /\ UNCHANGED answerDue

\* The answer to a scan, which may be refused: nothing is owed then.
Answer ==
    /\ answerDue
    /\ answerDue' = FALSE
    /\ \/ Deliver
       \/ owed' = FALSE /\ UNCHANGED <<shut, deferred>>

Shut == shut' = TRUE /\ UNCHANGED <<deferred, owed, answerDue>>

\* The gate opens freely only while nothing is deferred.
Open ==
    /\ ~deferred
    /\ shut' = FALSE
    /\ UNCHANGED <<deferred, owed, answerDue>>

\* A scan is accepted: its answer will list what was deferred.
Scan ==
    /\ shut' = FALSE /\ deferred' = FALSE /\ answerDue' = TRUE
    /\ UNCHANGED owed

\* The list is drawn and the gate opened in one go.
Draw ==
    /\ shut' = FALSE /\ deferred' = FALSE /\ owed' = FALSE
    /\ UNCHANGED answerDue

\* The program ends; only then is a result dropped.
End ==
    /\ ended'
    /\ shut' = FALSE /\ deferred' = FALSE /\ owed' = FALSE /\ answerDue' = FALSE

Next ==
    /\ ~ended
    /\ \/ /\ Announce \/ Answer \/ Shut \/ Open \/ Scan \/ Draw
          /\ UNCHANGED ended
       \/ End

Spec == Init /\ [][Next]_vars
=============================================================================
