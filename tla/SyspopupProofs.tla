--------------------------- MODULE SyspopupProofs ---------------------------
(***************************************************************************)
(* Proofs about Syspopup, for any finite set of profiles and every value   *)
(* of the bounds: type correctness, that at most one row is connecting,    *)
(* that somebody is left who opens the gate, and that the flags implement  *)
(* ResultGate.                                                             *)
(***************************************************************************)
EXTENDS Syspopup, FiniteSetTheorems, SequenceTheorems, TLAPS

-----------------------------------------------------------------------------
(* The inductive invariant.                                                 *)

Popups == [st : {"none", "entry", "wps"}, row : Nat]

\* A popup that is gone holds no row, and one that is open can arm its timer.
PopupState ==
    /\ passpopup \in Popups
    /\ passpopup.st = "none" => ~Held
    /\ passpopup.st # "none" => timers < MaxTimers

\* The row that a popup holds was tapped while none was connecting, and none has
\* been marked since without being freed.
HeldRowIsFree == Held => NoRowConnecting

\* The gate is open when the popup is shown.
StartsOpen == phase = "starting" => ~gate.b_scan_blocked

\* Nothing is deferred behind an open gate.
DeferredWhileShut == gate.b_ui_refresh => gate.b_scan_blocked

IInv ==
    /\ TypeOK /\ PopupState
    /\ HeldRowIsFree /\ OneConnectingRow
    /\ StartsOpen /\ GateIsGivenBack
    /\ DeferredWhileShut

\* The same, of values: the rows s with the popup pp that holds one of them and n
\* timers; the gate g in phase ph; the other variables.
OneMark(s) ==
    \A i, j \in DOMAIN s :
        s[i].connection_mode = "CONNECTING" /\ s[j].connection_mode = "CONNECTING" => i = j
NoMark(s) == \A i \in DOMAIN s : s[i].connection_mode # "CONNECTING"

ListState(s, pp, n) ==
    /\ s \in Seq(Rows) /\ OneMark(s)
    /\ pp \in Popups /\ pp.row \in {0} \cup DOMAIN s
    /\ pp.st = "none" => pp.row = 0
    /\ pp.row # 0 => NoMark(s)
    /\ n \in 0..MaxTimers
    /\ pp.st # "none" => n < MaxTimers

GateState(ph, g, pp, eap, n) ==
    /\ g \in Gates
    /\ ph = "starting" => ~g.b_scan_blocked
    /\ ph = "running" /\ g.b_scan_blocked => pp.st # "none" \/ eap \/ n > 0 \/ g.idlers > 0

Ev == [type : EventTypes, ap : AP \cup {NoAP}]

DaemonState ==
    link \in Links /\ events \in Seq(Ev) /\ Len(events) <= MaxEvents

OtherState ==
    /\ phase \in {"starting", "running", "exited", "crashed"}
    /\ shows \in 0..MaxShows
    /\ eapPopup \in BOOLEAN
    /\ alert \in {"none", "activating", "notice", "gone"}
    /\ wifi_qs_exit \in {"unset", "3G", "WIFI"}

Parts ==
    /\ ListState(rows, passpopup, timers)
    /\ GateState(phase, gate, passpopup, eapPopup, timers)
    /\ DaemonState /\ OtherState

LEMMA IInvParts ==
    IInv => /\ ListState(rows, passpopup, timers)
            /\ GateState(phase, gate, passpopup, eapPopup, timers)
            /\ DaemonState /\ OtherState
BY DEF IInv, TypeOK, PopupState, HeldRowIsFree, OneConnectingRow, StartsOpen, GateIsGivenBack,
       ListState, GateState, DaemonState, OtherState, OneMark, NoMark, NoRowConnecting, Held, Running,
       Covered, Ev

LEMMA IInvFromParts == Parts /\ owed \in BOOLEAN /\ asked \in BOOLEAN /\ DeferredWhileShut => IInv
BY DEF IInv, TypeOK, PopupState, Popups, HeldRowIsFree, OneConnectingRow, StartsOpen, GateIsGivenBack,
       ListState, GateState, DaemonState, OtherState, OneMark, NoMark, NoRowConnecting, Held, Running,
       Covered, Ev, Parts

-----------------------------------------------------------------------------
(* The gate.                                                                *)

LEMMA Bounds ==
    /\ MaxIdlers \in Nat /\ MaxTimers \in Nat /\ MaxShows \in Nat /\ MaxEvents \in Nat
    /\ MaxIdlers > 0 /\ MaxTimers > 0 /\ MaxShows > 0 /\ MaxEvents > 0
BY SyspopupAssumption

LEMMA EnableFacts ==
    ASSUME NEW g \in Gates, g.idlers < MaxIdlers
    PROVE  Enable(g) \in Gates /\ (Enable(g).b_scan_blocked => Enable(g).idlers > 0)
<1>1. CASE g.b_scan_blocked /\ g.b_ui_refresh
  BY <1>1, Bounds DEF Gates, Enable
<1>2. CASE ~(g.b_scan_blocked /\ g.b_ui_refresh)
  <2>1. Enable(g) = [g EXCEPT !.b_scan_blocked = FALSE]
    BY <1>2 DEF Enable
  <2>2. Enable(g) \in Gates
    BY <2>1 DEF Gates
  <2>3. Enable(g).b_scan_blocked = FALSE
    BY <2>1 DEF Gates
  <2>4. QED
    BY <2>2, <2>3
<1>3. QED
  BY <1>1, <1>2

LEMMA ShutFacts ==
    ASSUME NEW g \in Gates
    PROVE  /\ Disable(g) \in Gates /\ ScanRequested(g) \in Gates /\ ~ScanRequested(g).b_scan_blocked
           /\ [g EXCEPT !.b_ui_refresh = TRUE] \in Gates
           /\ [g EXCEPT !.b_ui_refresh = TRUE].b_scan_blocked = g.b_scan_blocked
           /\ [g EXCEPT !.b_ui_refresh = TRUE].idlers = g.idlers
BY DEF Disable, ScanRequested, Gates

LEMMA DrainedFacts ==
    ASSUME NEW g \in Gates, g.idlers > 0
    PROVE  Drained(g) \in Gates /\ ~Drained(g).b_scan_blocked
BY Bounds DEF Drained, Gates

-----------------------------------------------------------------------------
(* The list.                                                                *)

LEMMA OffRowsFacts ==
    ASSUME NEW t \in Seq(AP)
    PROVE  /\ OffRows(t) \in Seq(Rows) /\ Len(OffRows(t)) = Len(t)
           /\ \A i \in 1..Len(t) : OffRows(t)[i].connection_mode = "OFF"
<1>1. DOMAIN t = 1..Len(t) /\ Len(t) \in Nat
  BY LenProperties
<1>2. \A i \in 1..Len(t) : Row(t[i], "OFF") \in Rows /\ Row(t[i], "OFF").connection_mode = "OFF"
  BY <1>1, ElementOfSeq DEF Row, Rows, Modes
<1>3. OffRows(t) = [i \in 1..Len(t) |-> Row(t[i], "OFF")]
  BY <1>1 DEF OffRows
<1>4. OffRows(t) \in Seq(Rows) /\ Len(OffRows(t)) = Len(t)
  BY <1>1, <1>2, <1>3
<1>5. QED
  BY <1>2, <1>3, <1>4

\* view_main_show marks one row at most.
LEMMA ListOfFacts ==
    ASSUME NEW t \in Seq(AP), NEW c
    PROVE  ListOf(t, c) \in Seq(Rows) /\ OneMark(ListOf(t, c))
<1>1. DOMAIN t = 1..Len(t) /\ Len(t) \in Nat
  BY LenProperties
<1>2. CASE \A i \in DOMAIN t : t[i] # c
  <2>1. ListOf(t, c) = OffRows(t)
    BY <1>2 DEF ListOf
  <2>2. /\ OffRows(t) \in Seq(Rows) /\ Len(OffRows(t)) = Len(t)
        /\ \A i \in 1..Len(t) : OffRows(t)[i].connection_mode = "OFF"
    BY OffRowsFacts
  <2>3. DOMAIN OffRows(t) = 1..Len(t)
    BY <2>2, LenProperties
  <2>4. OneMark(OffRows(t))
    BY <2>2, <2>3 DEF OneMark
  <2>5. QED
    BY <2>1, <2>2, <2>4
<1>3. CASE ~\A i \in DOMAIN t : t[i] # c
  <2> DEFINE k == CHOOSE i \in DOMAIN t : t[i] = c
             u == OffRows(SubSeq(t, 1, k - 1))
             x == Row(c, "CONNECTING")
             w == Append(u, x)
             v == OffRows(SubSeq(t, k, Len(t)))
  <2>1. k \in DOMAIN t /\ t[k] = c
    BY <1>3
  <2>2. ListOf(t, c) = w \o v
    BY <1>3 DEF ListOf
  <2> HIDE DEF k
  <2>3. c \in AP /\ x \in Rows /\ x.connection_mode = "CONNECTING"
    BY <1>1, <2>1, ElementOfSeq DEF Row, Rows, Modes
  <2>4. k \in 1..Len(t) /\ 1 \in 1..(Len(t) + 1) /\ k - 1 \in 0..Len(t) /\ Len(t) \in 0..Len(t)
    BY <1>1, <2>1
  <2>5. SubSeq(t, 1, k - 1) \in Seq(AP) /\ SubSeq(t, k, Len(t)) \in Seq(AP)
    <3>1. \A i \in 1..Len(t) : t[i] \in AP
      BY ElementOfSeq
    <3>2. \A i \in 1..(k - 1) : i \in 1..Len(t)
      BY <1>1, <2>4
    <3>3. \A i \in k..Len(t) : i \in 1..Len(t)
      BY <1>1, <2>4
    <3>4. QED
      BY <1>1, <2>4, <3>1, <3>2, <3>3, SubSeqProperties
  <2>6. /\ u \in Seq(Rows) /\ Len(u) \in Nat /\ \A i \in 1..Len(u) : u[i].connection_mode = "OFF"
        /\ v \in Seq(Rows) /\ Len(v) \in Nat /\ \A i \in 1..Len(v) : v[i].connection_mode = "OFF"
    BY <2>5, OffRowsFacts, LenProperties
  <2> HIDE DEF u, v, x
  <2>7. /\ w \in Seq(Rows) /\ Len(w) = Len(u) + 1
        /\ \A i \in 1..Len(u) : w[i] = u[i]
    BY <2>3, <2>6, AppendProperties
  <2> HIDE DEF w
  <2>8. /\ w \o v \in Seq(Rows) /\ Len(w \o v) = Len(w) + Len(v)
        /\ \A i \in 1..(Len(w) + Len(v)) : (w \o v)[i] = IF i <= Len(w) THEN w[i] ELSE v[i - Len(w)]
    BY <2>6, <2>7, ConcatProperties
  <2>9. DOMAIN (w \o v) = 1..(Len(w) + Len(v))
    BY <2>8, LenProperties
  <2>10. \A i \in 1..(Len(w) + Len(v)) : i # Len(u) + 1 => (w \o v)[i].connection_mode = "OFF"
    <3>1. SUFFICES ASSUME NEW i \in 1..(Len(w) + Len(v)), i # Len(u) + 1
                   PROVE  (w \o v)[i].connection_mode = "OFF"
      OBVIOUS
    <3>2. CASE i <= Len(u)
      <4>1. i \in 1..Len(u) /\ i <= Len(w)
        BY <2>6, <2>7, <3>1, <3>2
      <4>2. QED
        BY <2>6, <2>7, <2>8, <4>1
    <3>3. CASE ~(i <= Len(u))
      <4>1. i - Len(w) \in 1..Len(v) /\ ~(i <= Len(w))
        BY <2>6, <2>7, <3>1, <3>3
      <4>2. QED
        BY <2>6, <2>8, <4>1
    <3>4. QED
      BY <3>2, <3>3
  <2>11. \A i \in DOMAIN (w \o v) : (w \o v)[i].connection_mode = "CONNECTING" => i = Len(u) + 1
    BY <2>9, <2>10
  <2>12. OneMark(w \o v)
    BY <2>11 DEF OneMark
  <2>13. QED
    BY <2>2, <2>8, <2>12
<1>4. QED
  BY <1>2, <1>3

LEMMA DrawnFacts ==
    ASSUME NEW l, NEW s \in Drawn(l)
    PROVE  s \in Seq(Rows) /\ OneMark(s)
<1>1. CASE s = <<>>
  <2>1. s \in Seq(Rows) /\ DOMAIN s = {}
    BY <1>1, EmptySeq
  <2>2. QED
    BY <2>1 DEF OneMark
<1>2. ASSUME NEW t \in Tables, NEW c, s = ListOf(t, c)
      PROVE  s \in Seq(Rows) /\ OneMark(s)
  <2>1. Cardinality(AP) \in Nat
    BY SyspopupAssumption, FS_CardinalityType
  <2>2. PICK n \in 0..Cardinality(AP) : t \in [1..n -> AP]
    BY DEF Tables
  <2>3. n \in Nat
    BY <2>1, <2>2
  <2>4. t \in Seq(AP)
    BY <2>2, <2>3
  <2>5. QED
    BY <1>2, <2>4, ListOfFacts
<1>3. QED
  BY <1>1, <1>2 DEF Drawn

\* A row is marked by a tap or by the password popup.
LEMMA MarkedRows ==
    ASSUME NEW s \in Seq(Rows), NEW i \in DOMAIN s, NEW mode \in Modes, NoMark(s)
    PROVE  /\ [s EXCEPT ![i].connection_mode = mode] \in Seq(Rows)
           /\ OneMark([s EXCEPT ![i].connection_mode = mode])
<1> DEFINE x == [s[i] EXCEPT !.connection_mode = mode]
           r == [s EXCEPT ![i].connection_mode = mode]
<1>1. DOMAIN s = 1..Len(s) /\ Len(s) \in Nat /\ s \in [1..Len(s) -> Rows]
  BY LenProperties
<1>2. s[i] \in Rows
  BY <1>1
<1>3. x \in Rows
  BY <1>2 DEF Rows, Modes
<1>4. r = [s EXCEPT ![i] = x]
  OBVIOUS
<1> HIDE DEF x, r
<1>5. r \in [1..Len(s) -> Rows] /\ DOMAIN r = DOMAIN s /\ \A j \in DOMAIN s : j # i => r[j] = s[j]
  BY <1>1, <1>3, <1>4
<1>6. r \in Seq(Rows)
  BY <1>1, <1>5
<1>7. OneMark(r)
  BY <1>5 DEF OneMark, NoMark
<1>8. QED
  BY <1>6, <1>7 DEF r

-----------------------------------------------------------------------------
(* Messages.                                                                *)

LEMMA PostFacts ==
    ASSUME DaemonState, NEW types \in Seq(EventTypes), NEW a \in AP \cup {NoAP}, Post(types, a)
    PROVE  events' \in Seq(Ev) /\ Len(events') <= MaxEvents
<1> DEFINE es == [i \in DOMAIN types |-> [type |-> types[i], ap |-> a]]
<1>1. DOMAIN types = 1..Len(types) /\ Len(types) \in Nat
  BY LenProperties
<1>2. \A i \in 1..Len(types) : [type |-> types[i], ap |-> a] \in Ev
  BY ElementOfSeq DEF Ev
<1>3. es = [i \in 1..Len(types) |-> [type |-> types[i], ap |-> a]]
  BY <1>1
<1>4. es \in Seq(Ev) /\ Len(es) = Len(types)
  BY <1>1, <1>2, <1>3
<1>5. events' = events \o es /\ Len(events) + Len(types) <= MaxEvents
  BY DEF Post
<1> HIDE DEF es
<1>6. events \in Seq(Ev)
  BY DEF DaemonState
<1>7. events \o es \in Seq(Ev) /\ Len(events \o es) = Len(events) + Len(es)
  BY <1>4, <1>6, ConcatProperties
<1>8. QED
  BY <1>4, <1>5, <1>7

LEMMA ReceivedFacts ==
    ASSUME DaemonState, NEW t, Received(t)
    PROVE  /\ events' \in Seq(Ev) /\ Len(events') <= MaxEvents
           /\ Running /\ Head(events) \in Ev
<1>1. events \in Seq(Ev) /\ events # <<>> /\ events' = Tail(events) /\ Len(events) <= MaxEvents
  BY DEF DaemonState, Received
<1>2. Tail(events) \in Seq(Ev) /\ Len(Tail(events)) = Len(events) - 1 /\ Head(events) \in Ev
  BY <1>1, HeadTailProperties
<1>3. Len(events) \in Nat
  BY <1>1, LenProperties
<1>4. QED
  BY <1>1, <1>2, <1>3, Bounds DEF Received

-----------------------------------------------------------------------------
(* The initial states and the daemon's steps.                               *)

LEMMA InitIInv == Init => IInv
<1>1. SUFFICES ASSUME Init
               PROVE  IInv
  OBVIOUS
<1>2. gate \in Gates /\ ~gate.b_scan_blocked /\ ~gate.b_ui_refresh
  BY <1>1, Bounds DEF Init, OpenGate, Gates
<1>3. rows \in Seq(Rows) /\ DOMAIN rows = {}
  BY <1>1, EmptySeq DEF Init
<1>4. events \in Seq([type : EventTypes, ap : AP \cup {NoAP}]) /\ Len(events) <= MaxEvents
  BY <1>1, Bounds, EmptySeq DEF Init
<1>5. passpopup \in Popups /\ passpopup.st = "none" /\ passpopup.row = 0
  BY <1>1 DEF Init, NoPopup, Popups
<1>6. timers \in 0..MaxTimers /\ shows \in 0..MaxShows
  BY <1>1, Bounds DEF Init
<1>7. TypeOK
  BY <1>1, <1>2, <1>3, <1>4, <1>5, <1>6 DEF Init, TypeOK
<1>8. PopupState /\ HeldRowIsFree
  BY <1>5 DEF PopupState, HeldRowIsFree, Held
<1>9. OneConnectingRow
  BY <1>3 DEF OneConnectingRow
<1>10. StartsOpen /\ GateIsGivenBack /\ DeferredWhileShut
  BY <1>2 DEF StartsOpen, GateIsGivenBack, DeferredWhileShut
<1>11. QED
  BY <1>7, <1>8, <1>9, <1>10 DEF IInv

\* A step of the daemon.
LEMMA DaemonStep ==
    ASSUME IInv, DaemonState', UNCHANGED gadget
    PROVE  Parts'
<1>1. /\ phase' = phase /\ gate' = gate /\ timers' = timers /\ shows' = shows /\ rows' = rows
      /\ passpopup' = passpopup /\ eapPopup' = eapPopup /\ alert' = alert
      /\ wifi_qs_exit' = wifi_qs_exit
  BY DEF gadget, flags, idlers, popups
<1>2. OtherState'
  BY <1>1, IInvParts DEF OtherState
<1>3. QED
  BY <1>1, <1>2, IInvParts DEF Parts

LEMMA LinkTypes ==
    /\ Idle \in Links /\ Off \in Links
    /\ \A a \in AP : Opening(a) \in Links
    /\ link \in Links => \A a \in AP : Closed(a) \in Links
BY DEF Links, Idle, Off, Opening, Closed

LEMMA OpenAcceptedType ==
    ASSUME DaemonState, NEW a \in AP, OpenAccepted(a)
    PROVE  DaemonState'
<1>1. link' \in Links
  BY LinkTypes DEF DaemonState, OpenAccepted
<1>2. QED
  BY <1>1 DEF DaemonState, OpenAccepted

LEMMA EnvironmentStep ==
    ASSUME IInv, Environment
    PROVE  Parts'
<1>1. DaemonState
  BY IInvParts
<1>2. ASSUME NEW a \in AP, AutoJoin(a)
      PROVE  Parts'
  <2>1. DaemonState'
    BY <1>1, <1>2, LinkTypes DEF AutoJoin, DaemonState
  <2>2. QED
    BY <1>2, <2>1, DaemonStep DEF AutoJoin
<1>3. CASE Answered
  <2>1. link \in Links /\ link.st = "CONNECTING" /\ link.ap \in AP \cup {NoAP}
    BY <1>1, <1>3 DEF Answered, DaemonState, Links
  <2>2. link' \in Links
    <3>1. [link EXCEPT !.st = "CONNECTED"] \in Links
      BY <2>1 DEF Links
    <3>2. QED
      BY <1>3, <3>1, LinkTypes DEF Answered
  <2>3. ASSUME NEW t \in EventTypes, Post(<<t>>, link.ap)
        PROVE  DaemonState'
    <3>1. <<t>> \in Seq(EventTypes)
      OBVIOUS
    <3>2. QED
      BY <1>1, <2>1, <2>2, <2>3, <3>1, PostFacts DEF DaemonState
  <2>4. ASSUME events' = events
        PROVE  DaemonState'
    <3>1. events \in Seq(Ev) /\ Len(events) <= MaxEvents
      BY <1>1 DEF DaemonState
    <3>2. events' \in Seq(Ev) /\ Len(events') <= MaxEvents
      BY <2>4, <3>1
    <3>3. QED
      BY <2>2, <3>2 DEF DaemonState
  <2>5. "CONNECTION_OK" \in EventTypes /\ Fails \subseteq EventTypes
    BY DEF EventTypes
  <2>6. (\E t \in EventTypes : Post(<<t>>, link.ap)) \/ events' = events
    BY <1>3, <2>5 DEF Answered
  <2>7. DaemonState'
    BY <2>3, <2>4, <2>6
  <2>8. QED
    BY <1>3, <2>7, DaemonStep DEF Answered
<1>4. CASE Dropped
  <2>1. DaemonState'
    BY <1>1, <1>4, LinkTypes DEF Dropped, DaemonState
  <2>2. QED
    BY <1>4, <2>1, DaemonStep DEF Dropped
<1>5. CASE SwitchedOn
  <2>1. <<"POWER_ON_OK">> \in Seq(EventTypes) /\ <<"POWER_ON_OK", "POWER_ON_OK">> \in Seq(EventTypes)
    BY DEF EventTypes
  <2>2. events' \in Seq(Ev) /\ Len(events') <= MaxEvents
    BY <1>1, <1>5, <2>1, PostFacts DEF SwitchedOn
  <2>3. link' \in Links
    BY <1>5, LinkTypes DEF SwitchedOn
  <2>4. QED
    BY <1>5, <2>2, <2>3, DaemonStep DEF SwitchedOn, DaemonState
<1>6. CASE SwitchedOff
  <2>1. <<"POWER_OFF_OK">> \in Seq(EventTypes)
    BY DEF EventTypes
  <2>2. events' \in Seq(Ev) /\ Len(events') <= MaxEvents
    BY <1>1, <1>6, <2>1, PostFacts DEF SwitchedOff
  <2>3. link' \in Links
    BY <1>6, LinkTypes DEF SwitchedOff
  <2>4. QED
    BY <1>6, <2>2, <2>3, DaemonStep DEF SwitchedOff, DaemonState
<1>7. CASE PowerRefused
  <2>1. <<"POWER_ON_FAILED">> \in Seq(EventTypes)
    BY DEF EventTypes
  <2>2. events' \in Seq(Ev) /\ Len(events') <= MaxEvents
    BY <1>1, <1>7, <2>1, PostFacts DEF PowerRefused
  <2>3. DaemonState' /\ UNCHANGED gadget
    BY <1>1, <1>7, <2>2 DEF PowerRefused, DaemonState
  <2>4. QED
    BY <2>3, DaemonStep
<1>8. QED
  BY <1>2, <1>3, <1>4, <1>5, <1>6, <1>7 DEF Environment

-----------------------------------------------------------------------------
(* Start and end.                                                           *)

\* wifi_syspopup_destroy leaves neither a list nor a password popup.
LEMMA DestroyStep ==
    ASSUME IInv, NEW result \in {"3G", "WIFI"}, Destroy(result),
           alert' \in {"none", alert}, DaemonState'
    PROVE  Parts'
<1>1. /\ phase' = "exited" /\ wifi_qs_exit' = result /\ rows' = <<>> /\ passpopup' = NoPopup
      /\ gate' = gate /\ timers' = timers /\ shows' = shows /\ eapPopup' = eapPopup
  BY DEF Destroy, flags, idlers
<1>2. rows' \in Seq(Rows) /\ DOMAIN rows' = {}
  BY <1>1, EmptySeq
<1>3. passpopup' \in Popups /\ passpopup'.st = "none" /\ passpopup'.row = 0
  BY <1>1 DEF NoPopup, Popups
<1>4. timers' \in 0..MaxTimers /\ gate' \in Gates
  BY <1>1, IInvParts DEF ListState, GateState
<1>5. ListState(rows', passpopup', timers')
  BY <1>2, <1>3, <1>4 DEF ListState, OneMark
<1>6. GateState(phase', gate', passpopup', eapPopup', timers')
  BY <1>1, <1>4 DEF GateState
<1>7. OtherState'
  BY <1>1, IInvParts DEF OtherState
<1>8. QED
  BY <1>5, <1>6, <1>7 DEF Parts

LEMMA StartStep ==
    ASSUME IInv, LaunchAndEnd \/ Launch
    PROVE  Parts'
<1>1. CASE LaunchAndEnd
  <2>1. DaemonState'
    BY <1>1, IInvParts DEF LaunchAndEnd, daemon, DaemonState
  <2>2. QED
    BY <1>1, <2>1, DestroyStep DEF LaunchAndEnd
<1>2. CASE Launch
  <2>1. /\ gate' = gate /\ timers' = timers /\ rows' = rows /\ passpopup' = passpopup
        /\ eapPopup' = eapPopup /\ wifi_qs_exit' = wifi_qs_exit /\ link' = link /\ events' = events
        /\ phase = "starting" /\ phase' \in {"running", "exited"}
    BY <1>2 DEF Launch, flags, daemon
  <2>2. ~gate.b_scan_blocked
    BY <2>1, IInvParts DEF GateState
  <2>3. GateState(phase', gate', passpopup', eapPopup', timers')
    BY <2>1, <2>2, IInvParts DEF GateState
  <2>4. shows' \in 0..MaxShows /\ alert' \in {"none", "activating", "notice", "gone"}
    <3>1. 1 \in 0..MaxShows /\ 0 \in 0..MaxShows
      BY Bounds
    <3>2. QED
      BY <1>2, <3>1, IInvParts DEF Launch, OtherState
  <2>5. OtherState'
    BY <2>1, <2>4, IInvParts DEF OtherState
  <2>6. DaemonState'
    BY <2>1, IInvParts DEF DaemonState
  <2>7. QED
    BY <2>1, <2>3, <2>5, <2>6, IInvParts DEF Parts
<1>3. QED
  BY <1>1, <1>2

-----------------------------------------------------------------------------
(* The list, the password popup and the timers.                             *)

\* Steps of a running popup that leave the gate alone, or whose new gate is given.
LEMMA ListStep ==
    ASSUME IInv, Running, phase' \in {phase, "crashed"},
           ListState(rows', passpopup', timers'),
           gate' = gate, eapPopup' = eapPopup,
           passpopup.st # "none" => passpopup'.st # "none" \/ timers' > 0,
           timers > 0 => timers' > 0,
           shows' \in 0..MaxShows, alert' \in {"none", "activating", "notice", "gone"},
           wifi_qs_exit' = wifi_qs_exit, DaemonState'
    PROVE  Parts'
<1>1. GateState(phase, gate, passpopup, eapPopup, timers)
  BY IInvParts
<1>2. GateState(phase', gate', passpopup', eapPopup', timers')
  BY <1>1 DEF GateState, Running
<1>3. OtherState'
  BY IInvParts DEF OtherState, Running
<1>4. QED
  BY <1>2, <1>3 DEF Parts

\* Steps that change the gate, the timers or the popups and leave the rows.
LEMMA GateStep ==
    ASSUME IInv, Running, phase' \in {phase, "crashed"}, rows' = rows,
           ListState(rows, passpopup', timers'),
           gate' \in Gates,
           gate'.b_scan_blocked => passpopup'.st # "none" \/ eapPopup' \/ timers' > 0 \/ gate'.idlers > 0,
           eapPopup' \in BOOLEAN,
           shows' \in 0..MaxShows, alert' \in {"none", "activating", "notice", "gone"},
           wifi_qs_exit' = wifi_qs_exit, DaemonState'
    PROVE  Parts'
<1>1. GateState(phase', gate', passpopup', eapPopup', timers')
  BY DEF GateState, Running
<1>2. OtherState'
  BY IInvParts DEF OtherState, Running
<1>3. QED
  BY <1>1, <1>2 DEF Parts

\* A redraw while no popup holds a row.
LEMMA RedrawnList ==
    ASSUME NEW s, NEW l, NEW pp, NEW n, ListState(s, pp, n), pp.row = 0, NEW r \in Drawn(l)
    PROVE  ListState(r, pp, n)
BY DrawnFacts DEF ListState

\* A popup that closes arms its timer.
LEMMA ClosedPopup ==
    ASSUME NEW s, NEW pp, NEW n, ListState(s, pp, n), pp.st # "none"
    PROVE  ListState(s, NoPopup, n + 1) /\ n + 1 > 0 /\ NoPopup.row = 0
<1>1. n \in Nat /\ n < MaxTimers /\ MaxTimers \in Nat
  BY Bounds DEF ListState
<1>2. n + 1 \in 0..MaxTimers /\ n + 1 > 0
  BY <1>1
<1>3. NoPopup \in Popups /\ NoPopup.st = "none" /\ NoPopup.row = 0
  BY DEF NoPopup, Popups
<1>4. QED
  BY <1>2, <1>3 DEF ListState

\* A row is marked while no popup holds one.
LEMMA MarkedList ==
    ASSUME NEW s, NEW pp, NEW n, ListState(s, pp, n), pp.row = 0, NoMark(s),
           NEW i \in DOMAIN s, NEW mode \in Modes
    PROVE  ListState([s EXCEPT ![i].connection_mode = mode], pp, n)
<1> DEFINE r == [s EXCEPT ![i].connection_mode = mode]
<1>1. r \in Seq(Rows) /\ OneMark(r)
  BY MarkedRows DEF ListState
<1> HIDE DEF r
<1>2. ListState(r, pp, n)
  BY <1>1 DEF ListState
<1>3. QED
  BY <1>2 DEF r

-----------------------------------------------------------------------------
(* The user's steps.                                                        *)

LEMMA SameDaemon == IInv /\ UNCHANGED daemon => DaemonState'
BY IInvParts DEF daemon, DaemonState

LEMMA TapStep ==
    ASSUME IInv, NEW i \in DOMAIN rows, Tap(i)
    PROVE  Parts'
<1>1. /\ ListState(rows, passpopup, timers) /\ GateState(phase, gate, passpopup, eapPopup, timers)
      /\ DaemonState /\ OtherState
  BY IInvParts
<1>2. Running /\ passpopup.st = "none" /\ passpopup.row = 0 /\ NoMark(rows)
  BY <1>1 DEF Tap, TapConnect, TapSecured, TapEap, TapRefused, CanTap, Covered, NoRowConnecting,
              NoMark, ListState
<1>3. rows \in Seq(Rows) /\ rows[i] \in Rows /\ rows[i].ap \in AP
  <2>1. rows \in Seq(Rows)
    BY <1>1 DEF ListState
  <2>2. DOMAIN rows = 1..Len(rows)
    BY <2>1, LenProperties
  <2>3. rows[i] \in Rows
    BY <2>1, <2>2, ElementOfSeq
  <2>4. QED
    BY <2>1, <2>3 DEF Rows
<1>4. shows \in 0..MaxShows /\ alert \in {"none", "activating", "notice", "gone"}
      /\ eapPopup \in BOOLEAN /\ gate \in Gates
  BY <1>1 DEF OtherState, GateState
<1>5. CASE TapConnect(i)
  <2>1. /\ phase' = phase /\ gate' = gate /\ timers' = timers /\ shows' = shows
        /\ passpopup' = passpopup /\ eapPopup' = eapPopup /\ alert' = alert
        /\ wifi_qs_exit' = wifi_qs_exit /\ OpenAccepted(rows[i].ap)
        /\ rows' = [rows EXCEPT ![i].connection_mode = "CONNECTING"]
    BY <1>5 DEF TapConnect, flags, idlers, popups
  <2>2. "CONNECTING" \in Modes
    BY DEF Modes
  <2>3. ListState(rows', passpopup', timers')
    BY <1>1, <1>2, <2>1, <2>2, MarkedList
  <2>4. DaemonState'
    BY <1>1, <1>3, <2>1, OpenAcceptedType
  <2>5. QED
    BY <1>2, <1>4, <2>1, <2>3, <2>4, ListStep
<1>6. CASE TapSecured(i)
  <2>1. /\ phase' = phase /\ gate' = Disable(gate) /\ timers' = timers /\ shows' = shows
        /\ passpopup' = [st |-> "entry", row |-> i] /\ eapPopup' = eapPopup /\ alert' = alert
        /\ wifi_qs_exit' = wifi_qs_exit /\ UNCHANGED daemon /\ rows' = rows /\ timers < MaxTimers
    BY <1>6 DEF TapSecured, flags, idlers
  <2>2. i \in Nat
    BY <1>3, LenProperties
  <2>3. passpopup' \in Popups /\ passpopup'.st = "entry" /\ passpopup'.row = i
    BY <2>1, <2>2 DEF Popups
  <2>4. ListState(rows, passpopup', timers')
    BY <1>1, <1>2, <2>1, <2>3 DEF ListState
  <2>5. DaemonState' /\ gate' \in Gates
    BY <1>4, <2>1, SameDaemon, ShutFacts
  <2>6. QED
    BY <1>2, <1>4, <2>1, <2>3, <2>4, <2>5, GateStep
<1>7. CASE TapEap(i)
  <2>1. /\ phase' = phase /\ gate' = Disable(gate) /\ timers' = timers /\ shows' = shows
        /\ passpopup' = passpopup /\ eapPopup' = TRUE /\ alert' = alert
        /\ wifi_qs_exit' = wifi_qs_exit /\ UNCHANGED daemon /\ rows' = rows
    BY <1>7 DEF TapEap, flags, idlers
  <2>2. DaemonState' /\ gate' \in Gates
    BY <1>4, <2>1, SameDaemon, ShutFacts
  <2>3. QED
    BY <1>1, <1>2, <1>4, <2>1, <2>2, GateStep
<1>8. CASE TapRefused(i)
  <2>1. /\ phase' = phase /\ gate' = gate /\ timers' = timers /\ shows' = shows
        /\ passpopup' = passpopup /\ eapPopup' = eapPopup /\ alert' = alert
        /\ wifi_qs_exit' = wifi_qs_exit /\ UNCHANGED daemon /\ rows' \in Drawn(link)
    BY <1>8 DEF TapRefused, flags, idlers, popups
  <2>2. ListState(rows', passpopup', timers') /\ DaemonState'
    BY <1>1, <1>2, <2>1, RedrawnList, SameDaemon
  <2>3. QED
    BY <1>2, <1>4, <2>1, <2>2, ListStep
<1>9. QED
  BY <1>5, <1>6, <1>7, <1>8 DEF Tap

LEMMA HeldApsFacts ==
    ASSUME ListState(rows, passpopup, timers)
    PROVE  HeldAps \subseteq AP /\ (Held => passpopup.row \in DOMAIN rows /\ NoMark(rows))
<1>1. rows \in Seq(Rows) /\ passpopup.row \in {0} \cup DOMAIN rows /\ (passpopup.row # 0 => NoMark(rows))
  BY DEF ListState
<1>2. DOMAIN rows = 1..Len(rows)
  BY <1>1, LenProperties
<1>3. \A i \in DOMAIN rows : rows[i] \in Rows
  BY <1>1, <1>2, ElementOfSeq
<1>4. \A i \in DOMAIN rows : rows[i].ap \in AP
  BY <1>3 DEF Rows
<1>5. QED
  BY <1>1, <1>4 DEF HeldAps, Held

LEMMA PasswordStep ==
    ASSUME IInv, PasswordTooShort \/ PasswordOk \/ PasswordCancel \/ WpsButton \/ WpsCancel
    PROVE  Parts'
<1>1. /\ ListState(rows, passpopup, timers) /\ DaemonState /\ OtherState
  BY IInvParts
<1>2. Running /\ passpopup.st # "none" /\ phase' \in {phase, "crashed"}
  BY DEF PasswordTooShort, PasswordOk, PasswordCancel, WpsButton, WpsCancel, CanType, Survives
<1>3. shows \in 0..MaxShows /\ alert \in {"none", "activating", "notice", "gone"}
  BY <1>1 DEF OtherState
<1>4. gate' = gate /\ eapPopup' = eapPopup /\ shows' = shows /\ wifi_qs_exit' = wifi_qs_exit
  BY DEF PasswordTooShort, PasswordOk, PasswordCancel, WpsButton, WpsCancel, flags, idlers
<1>5. timers \in Nat
  BY <1>1, Bounds DEF ListState
<1>6. ListState(rows, NoPopup, timers + 1) /\ timers + 1 > 0 /\ NoPopup.row = 0
  BY <1>1, <1>2, ClosedPopup
<1>7. HeldAps \subseteq AP /\ (Held => passpopup.row \in DOMAIN rows /\ NoMark(rows))
  BY <1>1, HeldApsFacts
<1>8. CASE PasswordTooShort
  <2>1. /\ alert' = "notice" /\ timers' = timers /\ rows' = rows /\ passpopup' = passpopup
        /\ UNCHANGED daemon
    BY <1>8 DEF PasswordTooShort, flags, idlers
  <2>2. DaemonState'
    BY <2>1, SameDaemon
  <2>3. QED
    BY <1>1, <1>2, <1>3, <1>4, <2>1, <2>2, ListStep
<1>9. CASE PasswordOk
  <2>1. PICK mode \in Modes :
          /\ IF mode = "CONNECTING" THEN \E a \in HeldAps : OpenAccepted(a) ELSE UNCHANGED daemon
          /\ rows' = IF Held THEN [rows EXCEPT ![passpopup.row].connection_mode = mode] ELSE rows
    BY <1>9 DEF PasswordOk
  <2>2. passpopup' = NoPopup /\ timers' = timers + 1 /\ alert' = alert
    BY <1>9 DEF PasswordOk, flags, ClosePasspopup
  <2>3. DaemonState'
    BY <1>1, <1>7, <2>1, OpenAcceptedType, SameDaemon
  <2>4. ListState(rows', passpopup', timers')
    BY <1>6, <1>7, <2>1, <2>2, MarkedList
  <2>5. QED
    BY <1>2, <1>3, <1>4, <1>6, <2>2, <2>3, <2>4, ListStep
<1>10. CASE PasswordCancel
  <2>1. passpopup' = NoPopup /\ timers' = timers + 1 /\ alert' = alert /\ rows' = rows /\ UNCHANGED daemon
    BY <1>10 DEF PasswordCancel, flags, ClosePasspopup
  <2>2. DaemonState'
    BY <2>1, SameDaemon
  <2>3. QED
    BY <1>2, <1>3, <1>4, <1>6, <2>1, <2>2, ListStep
<1>11. CASE WpsButton
  <2>1. /\ passpopup' = [passpopup EXCEPT !.st = "wps"] /\ timers' = timers /\ alert' = alert
        /\ rows' = rows
    BY <1>11 DEF WpsButton, PbcPopup, flags, idlers
  <2>2. passpopup \in Popups
    BY <1>1 DEF ListState
  <2>3. passpopup' \in Popups /\ passpopup'.st = "wps" /\ passpopup'.row = passpopup.row
    BY <2>1, <2>2 DEF Popups
  <2>4. ListState(rows', passpopup', timers')
    BY <1>1, <1>2, <2>1, <2>3 DEF ListState
  <2>5. DaemonState'
    BY <1>1, <1>7, <1>11, OpenAcceptedType DEF WpsButton
  <2>6. QED
    BY <1>2, <1>3, <1>4, <2>1, <2>3, <2>4, <2>5, ListStep
<1>12. CASE WpsCancel
  <2>1. passpopup' = NoPopup /\ timers' = timers + 1 /\ alert' = alert /\ rows' = rows
        /\ link' \in {Closed(a) : a \in HeldAps} /\ events' = events
    BY <1>12 DEF WpsCancel, flags, ClosePasspopup
  <2>2. link' \in Links
    BY <1>1, <1>7, <2>1, LinkTypes DEF DaemonState
  <2>3. DaemonState'
    BY <1>1, <2>1, <2>2 DEF DaemonState
  <2>4. QED
    BY <1>2, <1>3, <1>4, <1>6, <2>1, <2>3, ListStep
<1>13. QED
  BY <1>8, <1>9, <1>10, <1>11, <1>12

LEMMA EapStep ==
    ASSUME IInv, EapConnect \/ EapCancel
    PROVE  Parts'
<1>1. /\ ListState(rows, passpopup, timers) /\ DaemonState /\ OtherState /\ gate \in Gates
  BY IInvParts DEF GateState
<1>2. /\ Running /\ gate.idlers < MaxIdlers /\ eapPopup' = FALSE /\ gate' = Enable(gate)
      /\ phase' = phase /\ timers' = timers /\ shows' = shows /\ rows' = rows
      /\ passpopup' = passpopup /\ alert' = alert /\ wifi_qs_exit' = wifi_qs_exit
  BY DEF EapConnect, EapCancel, CloseEap, flags, idlers
<1>3. gate' \in Gates /\ (gate'.b_scan_blocked => gate'.idlers > 0)
  BY <1>1, <1>2, EnableFacts
<1>4. DaemonState'
  BY <1>1, OpenAcceptedType, SameDaemon DEF EapConnect, EapCancel
<1>5. shows' \in 0..MaxShows /\ alert' \in {"none", "activating", "notice", "gone"}
  BY <1>1, <1>2 DEF OtherState
<1>6. QED
  BY <1>1, <1>2, <1>3, <1>4, <1>5, GateStep

LEMMA UserStep ==
    ASSUME IInv, User
    PROVE  Parts'
<1>1. CASE UserExit
  <2>1. DaemonState'
    BY <1>1, SameDaemon DEF UserExit
  <2>2. QED
    BY <1>1, <2>1, DestroyStep DEF UserExit
<1>2. QED
  BY <1>1, TapStep, PasswordStep, EapStep DEF User

-----------------------------------------------------------------------------
(* The main loop and the messages.                                          *)

LEMMA RefreshCallbackFacts ==
    ASSUME OtherState, RefreshCallback
    PROVE  shows' \in 0..MaxShows /\ alert' = "none" /\ phase' \in {phase, "crashed"}
<1>1. shows \in 0..MaxShows /\ shows < MaxShows /\ shows' = shows + 1
  BY DEF OtherState, RefreshCallback
<1>2. shows' \in 0..MaxShows
  BY <1>1, Bounds
<1>3. QED
  BY <1>2 DEF RefreshCallback, Survives

LEMMA LoopStep ==
    ASSUME IInv, TimerFires \/ RefreshUi \/ ShowRows \/ NoticeTimesOut
    PROVE  Parts'
<1>1. /\ ListState(rows, passpopup, timers) /\ DaemonState /\ OtherState /\ gate \in Gates
  BY IInvParts DEF GateState
<1>2. Running /\ eapPopup' = eapPopup /\ wifi_qs_exit' = wifi_qs_exit /\ UNCHANGED daemon
  BY DEF TimerFires, RefreshUi, ShowRows, NoticeTimesOut, flags, popups
<1>3. DaemonState'
  BY <1>2, SameDaemon
<1>4. shows \in 0..MaxShows /\ alert \in {"none", "activating", "notice", "gone"} /\ eapPopup \in BOOLEAN
  BY <1>1 DEF OtherState
<1>5. timers \in 0..MaxTimers
  BY <1>1 DEF ListState
<1>6. CASE TimerFires
  <2>1. /\ gate.idlers < MaxIdlers /\ timers > 0 /\ timers' = timers - 1 /\ gate' = Enable(gate)
        /\ phase' = phase /\ shows' = shows /\ rows' = rows /\ passpopup' = passpopup /\ alert' = alert
    BY <1>6 DEF TimerFires, popups
  <2>2. gate' \in Gates /\ (gate'.b_scan_blocked => gate'.idlers > 0)
    BY <1>1, <2>1, EnableFacts
  <2>3. timers' \in 0..MaxTimers /\ (timers < MaxTimers => timers' < MaxTimers)
    BY <1>5, <2>1, Bounds
  <2>4. ListState(rows, passpopup', timers')
    BY <1>1, <2>1, <2>3 DEF ListState
  <2>5. QED
    BY <1>2, <1>3, <1>4, <2>1, <2>2, <2>4, GateStep
<1>7. CASE RefreshUi
  <2>1. /\ gate.idlers > 0 /\ RefreshCallback /\ gate' = Drained(gate) /\ timers' = timers
        /\ rows' = rows /\ passpopup' = passpopup
    BY <1>7 DEF RefreshUi
  <2>2. gate' \in Gates /\ ~gate'.b_scan_blocked
    BY <1>1, <2>1, DrainedFacts
  <2>3. shows' \in 0..MaxShows /\ alert' = "none" /\ phase' \in {phase, "crashed"}
    BY <1>1, <2>1, RefreshCallbackFacts
  <2>4. QED
    BY <1>1, <1>2, <1>3, <1>4, <2>1, <2>2, <2>3, GateStep
<1>8. CASE ShowRows
  <2>1. /\ shows > 0 /\ shows' = shows - 1 /\ rows' \in Drawn(link) /\ phase' = phase
        /\ passpopup' = [passpopup EXCEPT !.row = 0] /\ gate' = gate /\ timers' = timers /\ alert' = alert
    BY <1>8 DEF ShowRows, flags
  <2>2. passpopup \in Popups
    BY <1>1 DEF ListState
  <2>3. passpopup' \in Popups /\ passpopup'.st = passpopup.st /\ passpopup'.row = 0
    BY <2>1, <2>2 DEF Popups
  <2>4. ListState(rows, passpopup', timers)
    BY <1>1, <2>3 DEF ListState
  <2>5. ListState(rows', passpopup', timers')
    BY <2>1, <2>3, <2>4, RedrawnList
  <2>6. shows' \in 0..MaxShows
    BY <1>4, <2>1, Bounds
  <2>7. QED
    BY <1>2, <1>3, <1>4, <2>1, <2>3, <2>5, <2>6, ListStep
<1>9. CASE NoticeTimesOut
  <2>1. /\ phase' = phase /\ gate' = gate /\ timers' = timers /\ shows' = shows /\ rows' = rows
        /\ passpopup' = passpopup /\ alert' = "gone"
    BY <1>9 DEF NoticeTimesOut, flags, idlers
  <2>2. QED
    BY <1>1, <1>2, <1>3, <1>4, <2>1, ListStep
<1>10. QED
  BY <1>6, <1>7, <1>8, <1>9

LEMMA ScanResultStep ==
    ASSUME IInv, ScanResult
    PROVE  Parts'
<1>1. /\ ListState(rows, passpopup, timers) /\ DaemonState /\ OtherState /\ gate \in Gates
      /\ GateState(phase, gate, passpopup, eapPopup, timers)
  BY IInvParts DEF GateState
<1>2. /\ Running /\ eapPopup' = eapPopup /\ wifi_qs_exit' = wifi_qs_exit /\ timers' = timers
      /\ rows' = rows /\ passpopup' = passpopup /\ UNCHANGED daemon
  BY DEF ScanResult
<1>3. DaemonState' /\ eapPopup \in BOOLEAN
  BY <1>1, <1>2, SameDaemon DEF OtherState
<1>4. CASE gate.b_scan_blocked /\ gate' = [gate EXCEPT !.b_ui_refresh = TRUE] /\ UNCHANGED <<phase, shows, alert>>
  <2>1. gate' \in Gates /\ gate'.b_scan_blocked = gate.b_scan_blocked /\ gate'.idlers = gate.idlers
    BY <1>1, <1>4, ShutFacts
  <2>2. gate'.b_scan_blocked => passpopup'.st # "none" \/ eapPopup' \/ timers' > 0 \/ gate'.idlers > 0
    BY <1>1, <1>2, <2>1 DEF GateState, Running
  <2>3. shows' \in 0..MaxShows /\ alert' \in {"none", "activating", "notice", "gone"} /\ phase' = phase
    BY <1>1, <1>4 DEF OtherState
  <2>4. QED
    BY <1>1, <1>2, <1>3, <2>1, <2>2, <2>3, GateStep
<1>5. CASE ~gate.b_scan_blocked /\ RefreshCallback /\ gate' = gate
  <2>1. shows' \in 0..MaxShows /\ alert' = "none" /\ phase' \in {phase, "crashed"}
    BY <1>1, <1>5, RefreshCallbackFacts
  <2>2. QED
    BY <1>1, <1>2, <1>3, <1>5, <2>1, ListStep
<1>6. QED
  BY <1>4, <1>5 DEF ScanResult

LEMMA DeliveryStep ==
    ASSUME IInv, Delivery
    PROVE  Parts'
<1>1. /\ ListState(rows, passpopup, timers) /\ DaemonState /\ OtherState /\ gate \in Gates
      /\ GateState(phase, gate, passpopup, eapPopup, timers)
  BY IInvParts DEF GateState
<1>2. events' \in Seq(Ev) /\ Len(events') <= MaxEvents /\ Running /\ Head(events) \in Ev
  BY <1>1, ReceivedFacts DEF Delivery, ConnectionOk, ConnectionFailed, PowerOnOk, PowerOnFailed, PowerOffOk
<1>3. link' = link => DaemonState'
  BY <1>1, <1>2 DEF DaemonState
<1>4. shows \in 0..MaxShows /\ alert \in {"none", "activating", "notice", "gone"} /\ eapPopup \in BOOLEAN
  BY <1>1 DEF OtherState
<1>5. CASE ConnectionOk \/ PowerOnFailed \/ PowerOffOk
  BY <1>3, <1>5, DestroyStep DEF ConnectionOk, PowerOnFailed, PowerOffOk
<1>6. CASE ConnectionFailed
  <2>1. /\ phase' = phase /\ gate' = gate /\ shows' = shows /\ eapPopup' = eapPopup /\ alert' = alert
        /\ wifi_qs_exit' = wifi_qs_exit /\ rows' \in Drawn(link')
        /\ link' \in {Closed(Head(events).ap), link}
        /\ IF passpopup.st # "none" THEN ClosePasspopup ELSE UNCHANGED <<passpopup, timers>>
    BY <1>6 DEF ConnectionFailed, flags
  <2>2. link' \in Links
    <3>1. Closed(Head(events).ap) \in {Idle, link}
      BY DEF Closed
    <3>2. QED
      BY <1>1, <2>1, <3>1, LinkTypes DEF DaemonState
  <2>3. DaemonState'
    BY <1>2, <2>2 DEF DaemonState
  <2>4. ListState(rows, passpopup', timers') /\ passpopup'.row = 0
        /\ (passpopup.st # "none" => timers' > 0) /\ (timers > 0 => timers' > 0)
    <3>1. CASE passpopup.st # "none"
      <4>1. passpopup' = NoPopup /\ timers' = timers + 1
        BY <2>1, <3>1 DEF ClosePasspopup
      <4>2. QED
        BY <1>1, <3>1, <4>1, ClosedPopup
    <3>2. CASE passpopup.st = "none"
      <4>1. passpopup' = passpopup /\ timers' = timers
        BY <2>1, <3>2
      <4>2. passpopup.row = 0
        BY <1>1, <3>2 DEF ListState
      <4>3. QED
        BY <1>1, <3>2, <4>1, <4>2
    <3>3. QED
      BY <3>1, <3>2
  <2>5. ListState(rows', passpopup', timers')
    BY <2>1, <2>4, RedrawnList
  <2>6. QED
    BY <1>2, <1>4, <2>1, <2>3, <2>4, <2>5, ListStep
<1>7. CASE PowerOnOk
  <2>1. /\ phase' = phase /\ timers' = timers /\ shows' = shows /\ rows' = rows
        /\ passpopup' = passpopup /\ eapPopup' = eapPopup /\ alert' = alert
        /\ wifi_qs_exit' = wifi_qs_exit /\ link' = link /\ gate' \in {ScanRequested(gate), gate}
    BY <1>7 DEF PowerOnOk, flags, idlers, popups
  <2>2. gate' \in Gates
    BY <1>1, <2>1, ShutFacts
  <2>3. gate'.b_scan_blocked => passpopup'.st # "none" \/ eapPopup' \/ timers' > 0 \/ gate'.idlers > 0
    BY <1>1, <1>2, <2>1, ShutFacts DEF GateState, Running
  <2>4. QED
    BY <1>1, <1>2, <1>3, <1>4, <2>1, <2>2, <2>3, GateStep
<1>8. QED
  BY <1>5, <1>6, <1>7 DEF Delivery


-----------------------------------------------------------------------------
(* The flags.                                                               *)

\* What a step does to the gate and to what is owed and asked.
FlagsStep ==
    \/ UNCHANGED flags
    \/ UNCHANGED <<owed, asked>> /\ gate' \in {Disable(gate), Enable(gate)}
    \/ UNCHANGED owed /\ asked' = TRUE /\ gate' = ScanRequested(gate)
    \/ owed' = FALSE /\ UNCHANGED asked /\ gate' = Drained(gate)
    \/ /\ owed' = gate.b_scan_blocked /\ asked' = FALSE
       /\ gate' = IF gate.b_scan_blocked THEN [gate EXCEPT !.b_ui_refresh = TRUE] ELSE gate

LEMMA UserFlags == User => FlagsStep /\ ~Ended
<1>1. ASSUME NEW i \in DOMAIN rows, Tap(i)
      PROVE  FlagsStep /\ Running
  <2>1. Running
    BY <1>1 DEF Tap, TapConnect, TapSecured, TapEap, TapRefused, CanTap
  <2>2. CASE TapConnect(i) \/ TapRefused(i)
    BY <2>1, <2>2 DEF TapConnect, TapRefused, FlagsStep, flags
  <2>3. CASE TapSecured(i) \/ TapEap(i)
    BY <2>1, <2>3 DEF TapSecured, TapEap, FlagsStep
  <2>4. QED
    BY <1>1, <2>1, <2>2, <2>3 DEF Tap
<1>2. ASSUME UserExit
      PROVE  FlagsStep /\ Running
  BY <1>2 DEF UserExit, Destroy, FlagsStep
<1>3. ASSUME PasswordTooShort \/ PasswordOk \/ PasswordCancel \/ WpsButton \/ WpsCancel
      PROVE  FlagsStep /\ Running
  <2>1. UNCHANGED flags
    BY <1>3 DEF PasswordTooShort, PasswordOk, PasswordCancel, WpsButton, WpsCancel
  <2>2. Running
    BY <1>3 DEF PasswordTooShort, PasswordOk, PasswordCancel, WpsButton, WpsCancel, CanType
  <2>3. QED
    BY <2>1, <2>2 DEF FlagsStep
<1>4. ASSUME EapConnect \/ EapCancel
      PROVE  FlagsStep /\ Running
  BY <1>4 DEF EapConnect, EapCancel, CloseEap, FlagsStep
<1>5. Running => ~Ended
  BY DEF Running, Ended
<1>6. QED
  BY <1>1, <1>2, <1>3, <1>4, <1>5 DEF User

LEMMA LoopFlags == TimerFires \/ RefreshUi \/ ShowRows \/ NoticeTimesOut => FlagsStep /\ ~Ended
<1>1. Running => ~Ended
  BY DEF Running, Ended
<1>2. TimerFires => FlagsStep /\ Running
  BY DEF TimerFires, FlagsStep
<1>3. RefreshUi => FlagsStep /\ Running
  BY DEF RefreshUi, FlagsStep
<1>4. ShowRows \/ NoticeTimesOut => FlagsStep /\ Running
  BY DEF ShowRows, NoticeTimesOut, FlagsStep, flags
<1>5. QED
  BY <1>1, <1>2, <1>3, <1>4

LEMMA OtherFlags ==
    LaunchAndEnd \/ Launch \/ Environment \/ Delivery \/ ScanResult => FlagsStep /\ ~Ended
<1>1. Running => ~Ended
  BY DEF Running, Ended
<1>2. LaunchAndEnd \/ Launch => FlagsStep /\ ~Ended
  BY DEF LaunchAndEnd, Launch, Destroy, FlagsStep, flags, Ended
<1>3. Environment => FlagsStep /\ Running
  BY DEF Environment, AutoJoin, Answered, Dropped, SwitchedOn, SwitchedOff, PowerRefused, gadget,
         FlagsStep, flags
<1>4. PowerOnOk => FlagsStep /\ Running
  BY DEF PowerOnOk, Received, FlagsStep, flags
<1>5. ConnectionOk \/ ConnectionFailed \/ PowerOnFailed \/ PowerOffOk => FlagsStep /\ Running
  BY DEF ConnectionOk, ConnectionFailed, PowerOnFailed, PowerOffOk, Destroy, Received, FlagsStep, flags
<1>6. ScanResult => FlagsStep /\ Running
  BY DEF ScanResult, FlagsStep
<1>7. QED
  BY <1>1, <1>2, <1>3, <1>4, <1>5, <1>6 DEF Delivery

LEMMA NextFlags == [Next]_vars => FlagsStep /\ (Next => ~Ended)
<1>1. UNCHANGED vars => FlagsStep
  BY DEF vars, FlagsStep
<1>2. Next => FlagsStep /\ ~Ended
  BY UserFlags, LoopFlags, OtherFlags DEF Next
<1>3. QED
  BY <1>1, <1>2

LEMMA FlagsKept ==
    ASSUME IInv, FlagsStep
    PROVE  owed' \in BOOLEAN /\ asked' \in BOOLEAN /\ DeferredWhileShut'
<1>1. gate \in Gates /\ owed \in BOOLEAN /\ asked \in BOOLEAN /\ (gate.b_ui_refresh => gate.b_scan_blocked)
  BY DEF IInv, TypeOK, DeferredWhileShut
<1>2. CASE UNCHANGED flags
  BY <1>1, <1>2 DEF flags, DeferredWhileShut
<1>3. CASE UNCHANGED <<owed, asked>> /\ gate' \in {Disable(gate), Enable(gate)}
  <2>1. Disable(gate).b_scan_blocked
    BY <1>1 DEF Disable, Gates
  <2>2. Enable(gate).b_ui_refresh => Enable(gate).b_scan_blocked
    BY <1>1 DEF Enable, Gates
  <2>3. QED
    BY <1>1, <1>3, <2>1, <2>2 DEF DeferredWhileShut
<1>4. CASE \/ UNCHANGED owed /\ asked' = TRUE /\ gate' = ScanRequested(gate)
           \/ owed' = FALSE /\ UNCHANGED asked /\ gate' = Drained(gate)
  <2>1. ~ScanRequested(gate).b_ui_refresh /\ ~Drained(gate).b_ui_refresh
    BY <1>1 DEF ScanRequested, Drained, Gates
  <2>2. owed' \in BOOLEAN /\ asked' \in BOOLEAN
    BY <1>1, <1>4
  <2>3. gate' \in {ScanRequested(gate), Drained(gate)}
    BY <1>4
  <2>4. QED
    BY <2>1, <2>2, <2>3 DEF DeferredWhileShut
<1>5. CASE /\ owed' = gate.b_scan_blocked /\ asked' = FALSE
           /\ gate' = IF gate.b_scan_blocked THEN [gate EXCEPT !.b_ui_refresh = TRUE] ELSE gate
  <2>1. gate.b_scan_blocked \in BOOLEAN
    BY <1>1 DEF Gates
  <2>2. gate'.b_scan_blocked = gate.b_scan_blocked
    BY <1>1, <1>5, ShutFacts
  <2>3. ~gate.b_scan_blocked => gate' = gate
    BY <1>5
  <2>4. DeferredWhileShut'
    BY <1>1, <2>1, <2>2, <2>3 DEF DeferredWhileShut
  <2>5. QED
    BY <1>5, <2>1, <2>4
<1>6. QED
  BY <1>2, <1>3, <1>4, <1>5 DEF FlagsStep

-----------------------------------------------------------------------------
(* The theorems.                                                            *)

LEMMA IInvStep == IInv /\ [Next]_vars => IInv'
<1>1. SUFFICES ASSUME IInv, [Next]_vars
               PROVE  IInv'
  OBVIOUS
<1>2. Parts'
  <2>1. CASE UNCHANGED vars
    <3>1. UNCHANGED gadget /\ UNCHANGED daemon
      BY <2>1 DEF vars, gadget
    <3>2. QED
      BY <1>1, <3>1, SameDaemon, DaemonStep
  <2>2. QED
    BY <1>1, <2>1, StartStep, UserStep, EnvironmentStep, DeliveryStep, ScanResultStep, LoopStep DEF Next
<1>3. owed' \in BOOLEAN /\ asked' \in BOOLEAN /\ DeferredWhileShut'
  BY <1>1, NextFlags, FlagsKept
<1>4. (Parts /\ owed \in BOOLEAN /\ asked \in BOOLEAN /\ DeferredWhileShut => IInv)'
  BY IInvFromParts, PTL
<1>5. QED
  BY <1>2, <1>3, <1>4

\* IInv is inductive: what the callbacks of wifi-syspopup/ keep between the list, the
\* popups over it and the gate, also where they use a row that has been freed.
THEOREM SyspopupInvariance == Spec => []IInv
BY InitIInv, IInvStep, PTL DEF Spec

\* The variables keep their ranges, for any finite set of profiles and every bound; the
\* row a password popup holds is a row of the list as it now is (_gl_sel, view_main_show).
THEOREM SyspopupTypeCorrect == Spec => []TypeOK
<1>1. IInv => TypeOK
  BY DEF IInv
<1>2. QED
  BY <1>1, SyspopupInvariance, PTL

\* At most one row says that it is connecting, whatever is redrawn between a tap and the
\* password (_gl_sel, _popup_ok_cb, view_main_show).
THEOREM OneRowConnects == Spec => []OneConnectingRow
<1>1. IInv => OneConnectingRow
  BY DEF IInv
<1>2. QED
  BY <1>1, SyspopupInvariance, PTL

\* While the gate is shut a popup, a timer or an idler is left to open it
\* (common_pswd_popup.c, common_eap_connect.c, wlan_manager.c).
THEOREM GateHasKeeper == Spec => []GateIsGivenBack
<1>1. IInv => GateIsGivenBack
  BY DEF IInv
<1>2. QED
  BY <1>1, SyspopupInvariance, PTL

-----------------------------------------------------------------------------
(* ResultGate.                                                              *)

LEMMA FlagsKeepPromise ==
    ASSUME IInv, FlagsStep, ~Ended, ~Ended'
    PROVE  [Promise!Next]_(Promise!vars)
<1> USE DEF Promise!vars, Promise!Next
<1>1. gate \in Gates /\ owed \in BOOLEAN /\ asked \in BOOLEAN /\ (gate.b_ui_refresh => gate.b_scan_blocked)
  BY DEF IInv, TypeOK, DeferredWhileShut
<1>2. gate.b_scan_blocked \in BOOLEAN /\ gate.b_ui_refresh \in BOOLEAN
  BY <1>1 DEF Gates
<1>e. Ended = FALSE /\ Ended' = FALSE
  BY DEF Ended
<1>3. CASE UNCHANGED flags
  BY <1>1, <1>2, <1>e, <1>3 DEF flags
<1>4. CASE UNCHANGED <<owed, asked>> /\ gate' = Disable(gate)
  <2>1. gate'.b_scan_blocked = TRUE /\ gate'.b_ui_refresh = gate.b_ui_refresh
    BY <1>1, <1>4 DEF Disable, Gates
  <2>2. QED
    BY <1>1, <1>2, <1>e, <1>4, <2>1 DEF Promise!Shut
<1>5. CASE UNCHANGED <<owed, asked>> /\ gate' = Enable(gate)
  <2>1. CASE gate.b_ui_refresh
    <3>1. gate'.b_scan_blocked = gate.b_scan_blocked /\ gate'.b_ui_refresh = gate.b_ui_refresh
      BY <1>1, <1>5, <2>1 DEF Enable, Gates
    <3>2. QED
      BY <1>1, <1>2, <1>e, <1>5, <3>1
  <2>2. CASE ~gate.b_ui_refresh
    <3>1. gate'.b_scan_blocked = FALSE /\ gate'.b_ui_refresh = gate.b_ui_refresh
      BY <1>1, <1>5, <2>2 DEF Enable, Gates
    <3>2. QED
      BY <1>1, <1>2, <1>e, <1>5, <2>2, <3>1 DEF Promise!Open
  <2>3. QED
    BY <1>2, <2>1, <2>2
<1>6. CASE UNCHANGED owed /\ asked' = TRUE /\ gate' = ScanRequested(gate)
  <2>1. gate'.b_scan_blocked = FALSE /\ gate'.b_ui_refresh = FALSE
    BY <1>1, <1>6 DEF ScanRequested, Gates
  <2>2. QED
    BY <1>1, <1>2, <1>e, <1>6, <2>1 DEF Promise!Scan
<1>7. CASE owed' = FALSE /\ UNCHANGED asked /\ gate' = Drained(gate)
  <2>1. gate'.b_scan_blocked = FALSE /\ gate'.b_ui_refresh = FALSE
    BY <1>7 DEF Drained
  <2>2. QED
    BY <1>1, <1>2, <1>e, <1>7, <2>1 DEF Promise!Draw
<1>8. CASE /\ owed' = gate.b_scan_blocked /\ asked' = FALSE
           /\ gate' = IF gate.b_scan_blocked THEN [gate EXCEPT !.b_ui_refresh = TRUE] ELSE gate
  <2>1. gate'.b_scan_blocked = gate.b_scan_blocked
    BY <1>1, <1>8, ShutFacts
  <2>2. gate'.b_ui_refresh = (gate.b_ui_refresh \/ gate.b_scan_blocked)
    <3>1. CASE gate.b_scan_blocked
      BY <1>1, <1>8, <3>1 DEF Gates
    <3>2. CASE ~gate.b_scan_blocked
      BY <1>2, <1>8, <3>2
    <3>3. QED
      BY <1>2, <3>1, <3>2
  <2>3. Promise!Deliver
    BY <1>1, <1>2, <1>e, <1>8, <2>1, <2>2 DEF Promise!Deliver
  <2>4. CASE asked
    BY <1>e, <1>8, <2>3, <2>4 DEF Promise!Answer
  <2>5. CASE ~asked
    BY <1>1, <1>e, <1>8, <2>3, <2>5 DEF Promise!Announce
  <2>6. QED
    BY <2>4, <2>5
<1>9. QED
  BY <1>3, <1>4, <1>5, <1>6, <1>7, <1>8 DEF FlagsStep

LEMMA PromiseStep ==
    ASSUME IInv, [Next]_vars
    PROVE  [Promise!Next]_(Promise!vars)
<1>1. FlagsStep /\ (Next => ~Ended)
  BY NextFlags
<1>2. CASE UNCHANGED vars
  BY <1>2 DEF vars, flags, Ended, Promise!vars
<1>3. CASE Next /\ Ended'
  BY <1>1, <1>3 DEF Promise!Next, Promise!End
<1>4. CASE Next /\ ~Ended'
  BY <1>1, <1>4, FlagsKeepPromise
<1>5. QED
  BY <1>2, <1>3, <1>4

\* The gate and the deferred refresh of wlan_manager.c in the system popup implement
\* ResultGate: whatever opens and closes over the list, results are dropped only by the
\* end of the program.
THEOREM SyspopupKeepsPromise == Spec => KeepsPromise
<1>1. Init => Promise!Init
  BY DEF Init, OpenGate, Ended, Promise!Init
<1>2. IInv /\ [Next]_vars => [Promise!Next]_(Promise!vars)
  BY PromiseStep
<1>3. QED
  BY <1>1, <1>2, SyspopupInvariance, PTL DEF Spec, KeepsPromise, Promise!Spec

=============================================================================
