---------------------------- MODULE ApPanelProofs ----------------------------
(***************************************************************************)
(* Proofs about ApPanel, for any set of APs and any bound on the events.   *)
(*                                                                         *)
(* Two facts about the queue of events carry most of it.  A mark that says *)
(* an AP is connected, on its row or in connected_AP, and a message that   *)
(* will set one, are followed by a message that takes it back, unless the  *)
(* daemon has that link (MarksEnd).  And between two messages that power   *)
(* is off there are at most two that it is on, fewer if the first has been *)
(* handled (Powers).                                                       *)
(***************************************************************************)
EXTENDS ApPanel, SequenceTheorems, TLAPS

-----------------------------------------------------------------------------
(* The inductive invariant.                                                 *)

Ev == PowerEvents \cup LinkEvents

\* There is neither a title nor a row; there are rows without a title.
Fresh(p) == ~p.grouptitle /\ ListEmpty(p)
Bare(p)  == ~p.grouptitle /\ ~ListEmpty(p)

On(e)     == e.type = "POWER_ON_OK"
Off(e)    == e.type = "POWER_OFF_OK"
Failed(e) == e.type = "POWER_ON_FAILED"

\* When the events before i have been handled the list is fresh: it is now and none
\* of them sets the title, or one of them clears it and none sets it after that.
Cleared(q, i, p) ==
    \/ Fresh(p) /\ \A k \in 1..(i - 1) : ~On(q[k])
    \/ \E j \in 1..(i - 1) : Off(q[j]) /\ \A k \in (j + 1)..(i - 1) : ~On(q[k])

\* Of three, of two, before one notification of power-on comes one of power-off.
FewOns(q) ==
    \A i, j, k \in 1..Len(q) :
        i < j /\ j < k /\ On(q[i]) /\ On(q[j]) /\ On(q[k])
        => \E l \in 1..Len(q) : i < l /\ l < k /\ Off(q[l])
OneOn(q) ==
    \A i, j \in 1..Len(q) :
        i < j /\ On(q[i]) /\ On(q[j]) => \E l \in 1..Len(q) : l < j /\ Off(q[l])
NoOn(q) ==
    \A i \in 1..Len(q) : On(q[i]) => \E l \in 1..Len(q) : l < i /\ Off(q[l])

FailedCleared(q, p) == \A i \in 1..Len(q) : Failed(q[i]) => Cleared(q, i, p)

\* The power notifications on their way fit what the panel p shows, and the radio.
Powers(q, p, on) ==
    /\ ~on => Cleared(q, Len(q) + 1, p)
    /\ FailedCleared(q, p)
    /\ FewOns(q)
    /\ ~Fresh(p) => OneOn(q)
    /\ Bare(p) => NoOn(q)

PowersInv == Powers(events, panel, wifi)

\* A link is up, or going down, only while the radio is on.
LinkNeedsRadio == link # Idle => wifi

\* Only rows that are there are disabled, and a header that is OFF or goes off has
\* none under it.
DisabledAreListed == panel.disabled \subseteq Listed(panel)
PoweringIsEmpty == panel.header \in {"OFF", "DEACTIVATING"} => ListEmpty(panel)

\* The daemon has the link to a, or has closed it and not told yet.
LinkedTo(a) == link.ap = a /\ link.st \in {"CONNECTED", "DISCONNECTING"}

\* The messages that reset a's row and connected_AP, and the one that sets them.
Over(e, a) == e = Event("DISCONNECTION", a) \/ Off(e)
Up(e, a)   == e = Event("CONNECTION_OK", a)
Marked(a)  == panel.rows[a] = "CONNECTED" \/ connected_AP = a

EndsMark(q, a) == \E j \in 1..Len(q) : Over(q[j], a)
EndsUps(q, a) ==
    \A i \in 1..Len(q) : Up(q[i], a) => \E j \in 1..Len(q) : i < j /\ Over(q[j], a)

MarksEnd ==
    \A a \in AP : ~LinkedTo(a) => (Marked(a) => EndsMark(events, a)) /\ EndsUps(events, a)

IInv ==
    /\ TypeOK
    /\ LinkNeedsRadio /\ MarksEnd
    /\ PowersInv /\ ButtonWithTitle
    /\ DisabledAreListed /\ PoweringIsEmpty /\ RowsComeBack

-----------------------------------------------------------------------------
(* Queues.                                                                  *)

LEMMA TailQueue ==
    ASSUME NEW q \in Seq(Ev), q # <<>>
    PROVE  /\ Head(q) = q[1] /\ q[1] \in Ev /\ Tail(q) \in Seq(Ev)
           /\ Len(q) \in Nat /\ Len(q) > 0 /\ Len(Tail(q)) = Len(q) - 1
           /\ \A i \in 1..Len(Tail(q)) : Tail(q)[i] = q[i + 1]
<1>1. Len(q) \in Nat \ {0}
  BY EmptySeq
<1>2. q[1] \in Ev
  BY <1>1, ElementOfSeq
<1>3. QED
  BY <1>1, <1>2, HeadTailProperties

LEMMA PostQueue ==
    ASSUME NEW q \in Seq(Ev), NEW es \in Seq(Ev)
    PROVE  /\ q \o es \in Seq(Ev)
           /\ Len(q) \in Nat /\ Len(es) \in Nat /\ Len(q \o es) = Len(q) + Len(es)
           /\ \A i \in 1..Len(q) : (q \o es)[i] = q[i]
           /\ \A i \in 1..Len(es) : (q \o es)[Len(q) + i] = es[i]
           /\ \A i \in 1..(Len(q) + Len(es)) :
                 i \in 1..Len(q) \/ \E j \in 1..Len(es) : i = Len(q) + j
<1>1. Len(q) \in Nat /\ Len(es) \in Nat
  BY LenProperties
<1>2. \A i \in 1..Len(es) : Len(q) + i \in 1..(Len(q) + Len(es)) /\ ~(Len(q) + i <= Len(q))
  BY <1>1
<1>3. /\ q \o es \in Seq(Ev) /\ Len(q \o es) = Len(q) + Len(es)
      /\ \A i \in 1..(Len(q) + Len(es)) :
            (q \o es)[i] = IF i <= Len(q) THEN q[i] ELSE es[i - Len(q)]
  BY ConcatProperties
<1>4. \A i \in 1..Len(es) : (q \o es)[Len(q) + i] = es[i]
  BY <1>1, <1>2, <1>3
<1>5. \A i \in 1..(Len(q) + Len(es)) :
         i \in 1..Len(q) \/ \E j \in 1..Len(es) : i = Len(q) + j
  <2>1. SUFFICES ASSUME NEW i \in 1..(Len(q) + Len(es)), i \notin 1..Len(q)
                 PROVE  \E j \in 1..Len(es) : i = Len(q) + j
    OBVIOUS
  <2>2. i - Len(q) \in 1..Len(es) /\ i = Len(q) + (i - Len(q))
    BY <1>1, <2>1
  <2>3. QED
    BY <2>2
<1>6. QED
  BY <1>1, <1>3, <1>4, <1>5

\* Marks: what a delivered and a posted message do to the end of a mark.
LEMMA MarksTail ==
    ASSUME NEW q \in Seq(Ev), q # <<>>, NEW a \in AP
    PROVE  /\ EndsUps(q, a) => EndsUps(Tail(q), a)
           /\ EndsUps(q, a) /\ Up(Head(q), a) => EndsMark(Tail(q), a)
           /\ EndsMark(q, a) /\ ~Over(Head(q), a) => EndsMark(Tail(q), a)
<1>1. /\ Head(q) = q[1] /\ Len(q) \in Nat /\ Len(q) > 0 /\ Len(Tail(q)) = Len(q) - 1
      /\ \A i \in 1..Len(Tail(q)) : Tail(q)[i] = q[i + 1]
  BY TailQueue
<1>2. \A j \in 1..Len(q) : j # 1 => j - 1 \in 1..Len(Tail(q)) /\ Tail(q)[j - 1] = q[j]
  BY <1>1
<1>3. ASSUME EndsUps(q, a)
      PROVE  EndsUps(Tail(q), a)
  <2>1. SUFFICES ASSUME NEW i \in 1..Len(Tail(q)), Up(Tail(q)[i], a)
                 PROVE  \E j \in 1..Len(Tail(q)) : i < j /\ Over(Tail(q)[j], a)
    BY DEF EndsUps
  <2>2. i + 1 \in 1..Len(q) /\ Up(q[i + 1], a)
    BY <1>1, <2>1
  <2>3. PICK j \in 1..Len(q) : i + 1 < j /\ Over(q[j], a)
    BY <1>3, <2>2 DEF EndsUps
  <2>4. j # 1 /\ i < j - 1
    BY <1>1, <2>3
  <2>5. QED
    BY <1>2, <2>3, <2>4
<1>4. ASSUME EndsUps(q, a), Up(q[1], a)
      PROVE  EndsMark(Tail(q), a)
  <2>1. 1 \in 1..Len(q)
    BY <1>1
  <2>2. PICK j \in 1..Len(q) : 1 < j /\ Over(q[j], a)
    BY <1>4, <2>1 DEF EndsUps
  <2>3. j # 1
    BY <1>1, <2>2
  <2>4. QED
    BY <1>2, <2>2, <2>3 DEF EndsMark
<1>5. ASSUME EndsMark(q, a), ~Over(q[1], a)
      PROVE  EndsMark(Tail(q), a)
  BY <1>2, <1>5 DEF EndsMark
<1>6. QED
  BY <1>1, <1>3, <1>4, <1>5

LEMMA MarksPost ==
    ASSUME NEW q \in Seq(Ev), NEW es \in Seq(Ev), NEW a \in AP,
           \A i \in 1..Len(es) : ~Up(es[i], a)
    PROVE  /\ EndsMark(q, a) => EndsMark(q \o es, a)
           /\ EndsUps(q, a) => EndsUps(q \o es, a)
           /\ (\E j \in 1..Len(es) : Over(es[j], a)) => EndsMark(q \o es, a) /\ EndsUps(q \o es, a)
<1>1. /\ Len(q) \in Nat /\ Len(es) \in Nat /\ Len(q \o es) = Len(q) + Len(es)
      /\ \A i \in 1..Len(q) : (q \o es)[i] = q[i]
      /\ \A i \in 1..Len(es) : (q \o es)[Len(q) + i] = es[i]
      /\ \A i \in 1..(Len(q) + Len(es)) :
            i \in 1..Len(q) \/ \E j \in 1..Len(es) : i = Len(q) + j
  BY PostQueue
<1>2. \A i \in 1..Len(q) : i \in 1..Len(q \o es)
  BY <1>1
<1>3. \A i \in 1..Len(es) : Len(q) + i \in 1..Len(q \o es)
  BY <1>1
<1>4. \A i \in 1..Len(q \o es) : Up((q \o es)[i], a) => i \in 1..Len(q) /\ Up(q[i], a)
  BY <1>1
<1>5. EndsMark(q, a) => EndsMark(q \o es, a)
  BY <1>1, <1>2 DEF EndsMark
<1>6. EndsUps(q, a) => EndsUps(q \o es, a)
  <2>1. SUFFICES ASSUME EndsUps(q, a), NEW i \in 1..Len(q \o es), Up((q \o es)[i], a)
                 PROVE  \E j \in 1..Len(q \o es) : i < j /\ Over((q \o es)[j], a)
    BY DEF EndsUps
  <2>2. PICK j \in 1..Len(q) : i < j /\ Over(q[j], a)
    BY <1>4, <2>1 DEF EndsUps
  <2>3. QED
    BY <1>1, <1>2, <2>2
<1>7. ASSUME NEW j \in 1..Len(es), Over(es[j], a)
      PROVE  EndsMark(q \o es, a) /\ EndsUps(q \o es, a)
  <2>1. Len(q) + j \in 1..Len(q \o es) /\ Over((q \o es)[Len(q) + j], a)
    BY <1>1, <1>3, <1>7
  <2>2. \A i \in 1..Len(q) : i < Len(q) + j
    BY <1>1
  <2>3. QED
    BY <1>4, <2>1, <2>2 DEF EndsMark, EndsUps
<1>8. QED
  BY <1>5, <1>6, <1>7

\* Power notifications: what a delivered message does, by its kind.
LEMMA ClearedTail ==
    ASSUME NEW q \in Seq(Ev), q # <<>>, NEW p, NEW r,
           NEW i \in 1..Len(q), Cleared(q, i + 1, p),
           Off(Head(q)) => Fresh(r), On(Head(q)) \/ (Fresh(p) => Fresh(r))
    PROVE  Cleared(Tail(q), i, r)
<1>1. /\ Head(q) = q[1] /\ Len(q) \in Nat /\ Len(Tail(q)) = Len(q) - 1
      /\ \A k \in 1..Len(Tail(q)) : Tail(q)[k] = q[k + 1]
  BY TailQueue
<1>2. \A k \in 1..(i - 1) : k + 1 \in 1..i /\ Tail(q)[k] = q[k + 1]
  BY <1>1
<1>3. 1 \in 1..i /\ (i + 1) - 1 = i
  BY <1>1
<1>4. CASE Fresh(p) /\ \A k \in 1..((i + 1) - 1) : ~On(q[k])
  <2>1. ~On(q[1]) /\ \A k \in 1..(i - 1) : ~On(Tail(q)[k])
    BY <1>2, <1>3, <1>4
  <2>2. QED
    BY <1>1, <1>4, <2>1 DEF Cleared
<1>5. ASSUME NEW j \in 1..((i + 1) - 1), Off(q[j]), \A k \in (j + 1)..((i + 1) - 1) : ~On(q[k])
      PROVE  Cleared(Tail(q), i, r)
  <2>1. CASE j = 1
    <3>1. \A k \in 1..(i - 1) : k + 1 \in (j + 1)..((i + 1) - 1)
      BY <1>1, <2>1
    <3>2. \A k \in 1..(i - 1) : ~On(Tail(q)[k])
      BY <1>2, <1>5, <3>1
    <3>3. Off(q[1])
      BY <1>5, <2>1
    <3>4. QED
      BY <1>1, <3>2, <3>3 DEF Cleared
  <2>2. CASE j # 1
    <3>1. j - 1 \in 1..(i - 1) /\ (j - 1) + 1 = j
      BY <1>1, <1>5, <2>2
    <3>2. Off(Tail(q)[j - 1])
      BY <1>2, <1>5, <3>1
    <3>3. \A k \in ((j - 1) + 1)..(i - 1) : k \in 1..(i - 1) /\ k + 1 \in (j + 1)..((i + 1) - 1)
      BY <1>1, <1>5
    <3>4. \A k \in ((j - 1) + 1)..(i - 1) : ~On(Tail(q)[k])
      BY <1>2, <1>5, <3>3
    <3>5. QED
      BY <3>1, <3>2, <3>4 DEF Cleared
  <2>3. QED
    BY <2>1, <2>2
<1>6. QED
  BY <1>4, <1>5 DEF Cleared

LEMMA OnsTail ==
    ASSUME NEW q \in Seq(Ev), q # <<>>
    PROVE  /\ FewOns(q) => FewOns(Tail(q))
           /\ OneOn(q) /\ ~Off(Head(q)) => OneOn(Tail(q))
           /\ NoOn(q) /\ ~Off(Head(q)) => NoOn(Tail(q))
           /\ FewOns(q) /\ On(Head(q)) => OneOn(Tail(q))
           /\ OneOn(q) /\ On(Head(q)) => NoOn(Tail(q))
<1>1. /\ Head(q) = q[1] /\ Len(q) \in Nat /\ Len(q) > 0 /\ Len(Tail(q)) = Len(q) - 1
      /\ \A k \in 1..Len(Tail(q)) : Tail(q)[k] = q[k + 1]
  BY TailQueue
<1>2. \A i \in 1..Len(Tail(q)) : i + 1 \in 1..Len(q) /\ 1 < i + 1 /\ Tail(q)[i] = q[i + 1]
  BY <1>1
<1>3. \A l \in 1..Len(q) : l # 1 => l - 1 \in 1..Len(Tail(q)) /\ Tail(q)[l - 1] = q[l]
  BY <1>1
<1>4. 1 \in 1..Len(q)
  BY <1>1
<1>5. \A i, j \in 1..Len(Tail(q)) : i < j => i + 1 < j + 1
  BY <1>1
\* An earlier message that power is off stays one, if it is not the first.
<1>6. ASSUME NEW l \in 1..Len(q), l # 1, Off(q[l]), NEW k \in 1..Len(Tail(q)), l < k + 1
      PROVE  \E m \in 1..Len(Tail(q)) : m < k /\ Off(Tail(q)[m])
  <2>1. l - 1 < k
    BY <1>1, <1>6
  <2>2. QED
    BY <1>3, <1>6, <2>1
<1>7. ASSUME FewOns(q)
      PROVE  FewOns(Tail(q))
  <2>1. SUFFICES ASSUME NEW i \in 1..Len(Tail(q)), NEW j \in 1..Len(Tail(q)), NEW k \in 1..Len(Tail(q)),
                        i < j, j < k, On(Tail(q)[i]), On(Tail(q)[j]), On(Tail(q)[k])
                 PROVE  \E l \in 1..Len(Tail(q)) : i < l /\ l < k /\ Off(Tail(q)[l])
    BY DEF FewOns
  <2>2. PICK l \in 1..Len(q) : i + 1 < l /\ l < k + 1 /\ Off(q[l])
    BY <1>2, <1>5, <1>7, <2>1 DEF FewOns
  <2>3. l # 1 /\ i < l - 1 /\ l - 1 < k
    BY <1>1, <2>2
  <2>4. QED
    BY <1>3, <2>2, <2>3
<1>8. ASSUME OneOn(q), ~Off(q[1])
      PROVE  OneOn(Tail(q))
  <2>1. SUFFICES ASSUME NEW i \in 1..Len(Tail(q)), NEW j \in 1..Len(Tail(q)),
                        i < j, On(Tail(q)[i]), On(Tail(q)[j])
                 PROVE  \E l \in 1..Len(Tail(q)) : l < j /\ Off(Tail(q)[l])
    BY DEF OneOn
  <2>2. PICK l \in 1..Len(q) : l < j + 1 /\ Off(q[l])
    BY <1>2, <1>5, <1>8, <2>1 DEF OneOn
  <2>3. QED
    BY <1>6, <1>8, <2>2
<1>9. ASSUME NoOn(q), ~Off(q[1])
      PROVE  NoOn(Tail(q))
  <2>1. SUFFICES ASSUME NEW i \in 1..Len(Tail(q)), On(Tail(q)[i])
                 PROVE  \E l \in 1..Len(Tail(q)) : l < i /\ Off(Tail(q)[l])
    BY DEF NoOn
  <2>2. PICK l \in 1..Len(q) : l < i + 1 /\ Off(q[l])
    BY <1>2, <1>9, <2>1 DEF NoOn
  <2>3. QED
    BY <1>6, <1>9, <2>2
<1>10. ASSUME FewOns(q), On(q[1])
       PROVE  OneOn(Tail(q))
  <2>1. SUFFICES ASSUME NEW i \in 1..Len(Tail(q)), NEW j \in 1..Len(Tail(q)),
                        i < j, On(Tail(q)[i]), On(Tail(q)[j])
                 PROVE  \E l \in 1..Len(Tail(q)) : l < j /\ Off(Tail(q)[l])
    BY DEF OneOn
  <2>2. PICK l \in 1..Len(q) : 1 < l /\ l < j + 1 /\ Off(q[l])
    BY <1>2, <1>4, <1>5, <1>10, <2>1 DEF FewOns
  <2>3. l # 1
    BY <2>2
  <2>4. QED
    BY <1>6, <2>2, <2>3
<1>11. ASSUME OneOn(q), On(q[1])
       PROVE  NoOn(Tail(q))
  <2>1. SUFFICES ASSUME NEW i \in 1..Len(Tail(q)), On(Tail(q)[i])
                 PROVE  \E l \in 1..Len(Tail(q)) : l < i /\ Off(Tail(q)[l])
    BY DEF NoOn
  <2>2. PICK l \in 1..Len(q) : l < i + 1 /\ Off(q[l])
    BY <1>2, <1>4, <1>11, <2>1 DEF OneOn
  <2>3. l # 1
    BY <1>11, <2>2 DEF On, Off
  <2>4. QED
    BY <1>6, <2>2, <2>3
<1>12. QED
  BY <1>1, <1>7, <1>8, <1>9, <1>10, <1>11

\* The panel r is what handling the first message made of p.
LEMMA PowersTail ==
    ASSUME NEW q \in Seq(Ev), q # <<>>, NEW p, NEW r, NEW on \in BOOLEAN, Powers(q, p, on),
           Off(Head(q)) => Fresh(r),
           On(Head(q)) => (Bare(r) => ~Fresh(p)),
           ~Off(Head(q)) /\ ~On(Head(q)) => (Fresh(p) => Fresh(r)) /\ (Bare(r) => Bare(p))
    PROVE  Powers(Tail(q), r, on)
<1>1. /\ Head(q) = q[1] /\ Len(q) \in Nat /\ Len(q) > 0 /\ Len(Tail(q)) = Len(q) - 1
      /\ \A k \in 1..Len(Tail(q)) : Tail(q)[k] = q[k + 1]
  BY TailQueue
<1>2. \A i \in 1..Len(q) : Cleared(q, i + 1, p) => Cleared(Tail(q), i, r)
  <2>1. Off(Head(q)) => Fresh(r)
    OBVIOUS
  <2>2. On(Head(q)) \/ (Fresh(p) => Fresh(r))
    OBVIOUS
  <2>3. QED
    BY <2>1, <2>2, ClearedTail
<1>3. ~on => Cleared(Tail(q), Len(Tail(q)) + 1, r)
  <2>1. Len(q) \in 1..Len(q) /\ Len(Tail(q)) + 1 = Len(q)
    BY <1>1
  <2>2. QED
    BY <1>2, <2>1 DEF Powers
<1>4. FailedCleared(Tail(q), r)
  <2>1. SUFFICES ASSUME NEW i \in 1..Len(Tail(q)), Failed(Tail(q)[i])
                 PROVE  Cleared(Tail(q), i, r)
    BY DEF FailedCleared
  <2>2. i \in 1..Len(q) /\ i + 1 \in 1..Len(q) /\ Failed(q[i + 1])
    BY <1>1, <2>1
  <2>3. QED
    BY <1>2, <2>2 DEF Powers, FailedCleared
<1>5. FewOns(q) /\ (~Fresh(p) => OneOn(q)) /\ (Bare(p) => NoOn(q))
  BY DEF Powers
<1>6. ~(Fresh(r) /\ Bare(r))
  BY DEF Fresh, Bare
<1>7. (~Fresh(r) => OneOn(Tail(q))) /\ (Bare(r) => NoOn(Tail(q))) /\ FewOns(Tail(q))
  <2>1. CASE On(Head(q))
    BY <1>5, <2>1, OnsTail
  <2>2. CASE Off(Head(q))
    BY <1>5, <1>6, <2>2, OnsTail
  <2>3. CASE ~On(Head(q)) /\ ~Off(Head(q))
    BY <1>5, <2>3, OnsTail
  <2>4. QED
    BY <2>1, <2>2, <2>3
<1>8. QED
  BY <1>3, <1>4, <1>7 DEF Powers

LEMMA ClearedPost ==
    ASSUME NEW q \in Seq(Ev), NEW es \in Seq(Ev), NEW p,
           NEW n \in 0..Len(es), \A k \in 1..n : ~On(es[k]),
           Cleared(q, Len(q) + 1, p) \/ \E k \in 1..n : Off(es[k])
    PROVE  Cleared(q \o es, Len(q) + n + 1, p)
<1>1. /\ Len(q) \in Nat /\ Len(es) \in Nat /\ n \in Nat /\ n <= Len(es)
      /\ \A i \in 1..Len(q) : (q \o es)[i] = q[i]
      /\ \A i \in 1..Len(es) : (q \o es)[Len(q) + i] = es[i]
  BY PostQueue
<1>2. (Len(q) + 1) - 1 = Len(q) /\ (Len(q) + n + 1) - 1 = Len(q) + n
  BY <1>1
<1>3. \A k \in 1..(Len(q) + n) : k \in 1..Len(q) \/ \E m \in 1..n : k = Len(q) + m
  <2>1. SUFFICES ASSUME NEW k \in 1..(Len(q) + n), k \notin 1..Len(q)
                 PROVE  \E m \in 1..n : k = Len(q) + m
    OBVIOUS
  <2>2. k - Len(q) \in 1..n /\ k = Len(q) + (k - Len(q))
    BY <1>1, <2>1
  <2>3. QED
    BY <2>2
<1>4. \A m \in 1..n : m \in 1..Len(es)
  BY <1>1
<1>5. \A k \in 1..(Len(q) + n) : k \notin 1..Len(q) => ~On((q \o es)[k])
  BY <1>1, <1>3, <1>4
<1>6. CASE Fresh(p) /\ \A k \in 1..Len(q) : ~On(q[k])
  <2>1. \A k \in 1..(Len(q) + n) : ~On((q \o es)[k])
    BY <1>1, <1>5, <1>6
  <2>2. QED
    BY <1>2, <1>6, <2>1 DEF Cleared
<1>7. ASSUME NEW j \in 1..Len(q), Off(q[j]), \A k \in (j + 1)..Len(q) : ~On(q[k])
      PROVE  Cleared(q \o es, Len(q) + n + 1, p)
  <2>1. j \in 1..(Len(q) + n) /\ Off((q \o es)[j])
    BY <1>1, <1>7
  <2>2. \A k \in (j + 1)..(Len(q) + n) : k \in 1..(Len(q) + n)
                                         /\ (k \in 1..Len(q) => k \in (j + 1)..Len(q))
    BY <1>1
  <2>3. \A k \in (j + 1)..(Len(q) + n) : ~On((q \o es)[k])
    BY <1>1, <1>5, <1>7, <2>2
  <2>4. QED
    BY <1>2, <2>1, <2>3 DEF Cleared
<1>8. ASSUME NEW j \in 1..n, Off(es[j])
      PROVE  Cleared(q \o es, Len(q) + n + 1, p)
  <2>1. Len(q) + j \in 1..(Len(q) + n) /\ Off((q \o es)[Len(q) + j])
    BY <1>1, <1>4, <1>8
  <2>2. \A k \in (Len(q) + j + 1)..(Len(q) + n) : k \in 1..(Len(q) + n) /\ k \notin 1..Len(q)
    BY <1>1
  <2>3. \A k \in (Len(q) + j + 1)..(Len(q) + n) : ~On((q \o es)[k])
    BY <1>5, <2>2
  <2>4. QED
    BY <1>2, <2>1, <2>3 DEF Cleared
<1>9. QED
  BY <1>2, <1>6, <1>7, <1>8 DEF Cleared

\* What is before i stays as it is.
LEMMA ClearedKept ==
    ASSUME NEW q \in Seq(Ev), NEW es \in Seq(Ev), NEW p, NEW i \in 1..(Len(q) + 1), Cleared(q, i, p)
    PROVE  Cleared(q \o es, i, p)
<1>1. Len(q) \in Nat /\ \A k \in 1..Len(q) : (q \o es)[k] = q[k]
  BY PostQueue
<1>2. \A k \in 1..(i - 1) : k \in 1..Len(q)
  BY <1>1
<1>3. \A j \in 1..(i - 1) : \A k \in (j + 1)..(i - 1) : k \in 1..Len(q)
  BY <1>1
<1>4. CASE Fresh(p) /\ \A k \in 1..(i - 1) : ~On(q[k])
  BY <1>1, <1>2, <1>4 DEF Cleared
<1>5. ASSUME NEW j \in 1..(i - 1), Off(q[j]), \A k \in (j + 1)..(i - 1) : ~On(q[k])
      PROVE  Cleared(q \o es, i, p)
  BY <1>1, <1>2, <1>3, <1>5 DEF Cleared
<1>6. QED
  BY <1>4, <1>5 DEF Cleared

\* Messages other than POWER_ON_OK; POWER_ON_FAILED only while the radio is off.
LEMMA PowersPost ==
    ASSUME NEW q \in Seq(Ev), NEW es \in Seq(Ev), NEW p, NEW on \in BOOLEAN, NEW on2 \in BOOLEAN,
           Powers(q, p, on),
           \A i \in 1..Len(es) : ~On(es[i]),
           on => \A i \in 1..Len(es) : ~Failed(es[i]),
           ~on2 => ~on \/ \E i \in 1..Len(es) : Off(es[i])
    PROVE  Powers(q \o es, p, on2)
<1>1. /\ Len(q) \in Nat /\ Len(es) \in Nat /\ Len(q \o es) = Len(q) + Len(es)
      /\ \A i \in 1..Len(q) : (q \o es)[i] = q[i]
      /\ \A i \in 1..Len(es) : (q \o es)[Len(q) + i] = es[i]
      /\ \A i \in 1..(Len(q) + Len(es)) :
            i \in 1..Len(q) \/ \E j \in 1..Len(es) : i = Len(q) + j
  BY PostQueue
<1>2. \A i \in 1..Len(q) : i \in 1..Len(q \o es)
  BY <1>1
<1>3. \A i \in 1..Len(q \o es) : On((q \o es)[i]) => i \in 1..Len(q) /\ On(q[i])
  BY <1>1
<1>4. ~on2 => Cleared(q \o es, Len(q \o es) + 1, p)
  <2>1. Len(es) \in 0..Len(es)
    BY <1>1
  <2>2. SUFFICES ASSUME ~on2
                 PROVE  Cleared(q \o es, Len(q) + Len(es) + 1, p)
    BY <1>1
  <2>3. Cleared(q, Len(q) + 1, p) \/ \E i \in 1..Len(es) : Off(es[i])
    BY <2>2 DEF Powers
  <2>4. QED
    BY <2>1, <2>3, ClearedPost
<1>5. FailedCleared(q \o es, p)
  <2>1. SUFFICES ASSUME NEW i \in 1..Len(q \o es), Failed((q \o es)[i])
                 PROVE  Cleared(q \o es, i, p)
    BY DEF FailedCleared
  <2>2. CASE i \in 1..Len(q)
    <3>1. Cleared(q, i, p) /\ i \in 1..(Len(q) + 1)
      BY <1>1, <2>1, <2>2 DEF Powers, FailedCleared
    <3>2. QED
      BY <3>1, ClearedKept
  <2>3. ASSUME NEW j \in 1..Len(es), i = Len(q) + j
        PROVE  Cleared(q \o es, i, p)
    <3>1. ~on
      BY <1>1, <2>1, <2>3
    <3>2. Cleared(q, Len(q) + 1, p)
      BY <3>1 DEF Powers
    <3>3. j - 1 \in 0..Len(es) /\ i = Len(q) + (j - 1) + 1 /\ \A k \in 1..(j - 1) : k \in 1..Len(es)
      BY <1>1, <2>3
    <3>4. \A k \in 1..(j - 1) : ~On(es[k])
      BY <3>3
    <3>5. Cleared(q \o es, Len(q) + (j - 1) + 1, p)
      BY <3>2, <3>3, <3>4, ClearedPost
    <3>6. QED
      BY <3>3, <3>5
  <2>4. QED
    BY <1>1, <2>1, <2>2, <2>3
<1>6. FewOns(q) => FewOns(q \o es)
  BY <1>1, <1>2, <1>3 DEF FewOns
<1>7. OneOn(q) => OneOn(q \o es)
  BY <1>1, <1>2, <1>3 DEF OneOn
<1>8. NoOn(q) => NoOn(q \o es)
  BY <1>1, <1>2, <1>3 DEF NoOn
<1>9. QED
  BY <1>4, <1>5, <1>6, <1>7, <1>8 DEF Powers

\* POWER_ON_OK, once or twice, when the radio has been off.
LEMMA PowersOn ==
    ASSUME NEW q \in Seq(Ev), NEW es \in Seq(Ev), NEW p, Powers(q, p, FALSE),
           Len(es) \in 1..2, \A i \in 1..Len(es) : On(es[i])
    PROVE  Powers(q \o es, p, TRUE)
<1>1. /\ Len(q) \in Nat /\ Len(es) \in Nat /\ Len(q \o es) = Len(q) + Len(es)
      /\ \A i \in 1..Len(q) : (q \o es)[i] = q[i]
      /\ \A i \in 1..Len(es) : (q \o es)[Len(q) + i] = es[i]
      /\ \A i \in 1..(Len(q) + Len(es)) :
            i \in 1..Len(q) \/ \E j \in 1..Len(es) : i = Len(q) + j
  BY PostQueue
<1>2. \A i \in 1..Len(q) : i \in 1..Len(q \o es)
  BY <1>1
<1>3. ASSUME NEW i \in 1..Len(q \o es), i \notin 1..Len(q)
      PROVE  On((q \o es)[i]) /\ Len(q) < i /\ i <= Len(q) + 2
  <2>1. PICK j \in 1..Len(es) : i = Len(q) + j
    BY <1>1, <1>3
  <2>2. (q \o es)[i] = es[j]
    BY <1>1, <2>1
  <2>3. QED
    BY <1>1, <2>1, <2>2
<1>4. FailedCleared(q \o es, p)
  <2>1. SUFFICES ASSUME NEW i \in 1..Len(q \o es), Failed((q \o es)[i])
                 PROVE  Cleared(q \o es, i, p)
    BY DEF FailedCleared
  <2>2. i \in 1..Len(q)
    BY <1>3, <2>1 DEF Failed, On
  <2>3. Cleared(q, i, p) /\ i \in 1..(Len(q) + 1)
    BY <1>1, <2>1, <2>2 DEF Powers, FailedCleared
  <2>4. QED
    BY <2>3, ClearedKept
\* Either everything so far is before a message that power is off, or no power-on is
\* on its way and the list is fresh.
<1>5. CASE Fresh(p) /\ \A k \in 1..Len(q) : ~On(q[k])
  <2>1. \A i \in 1..Len(q \o es) : On((q \o es)[i]) => Len(q) < i /\ i <= Len(q) + 2
    BY <1>1, <1>5, <1>3
  <2>2. FewOns(q \o es)
    <3>1. SUFFICES ASSUME NEW i \in 1..Len(q \o es), NEW j \in 1..Len(q \o es), NEW k \in 1..Len(q \o es),
                          i < j, j < k, On((q \o es)[i]), On((q \o es)[j]), On((q \o es)[k])
                   PROVE  FALSE
      BY DEF FewOns
    <3>2. Len(q) < i /\ k <= Len(q) + 2
      BY <2>1, <3>1
    <3>3. QED
      BY <1>1, <3>1, <3>2
  <2>3. ~Bare(p)
    BY <1>5 DEF Fresh, Bare
  <2>4. QED
    BY <1>4, <1>5, <2>2, <2>3 DEF Powers
<1>6. ASSUME NEW l \in 1..Len(q), Off(q[l]), \A k \in (l + 1)..Len(q) : ~On(q[k])
      PROVE  Powers(q \o es, p, TRUE)
  <2>1. l \in 1..Len(q \o es) /\ Off((q \o es)[l])
    BY <1>1, <1>2, <1>6
  <2>2. \A i \in 1..Len(q) : On(q[i]) => i < l
    <3>1. SUFFICES ASSUME NEW i \in 1..Len(q), On(q[i]), ~(i < l)
                   PROVE  FALSE
      OBVIOUS
    <3>2. i # l
      BY <1>6, <3>1 DEF On, Off
    <3>3. i \in (l + 1)..Len(q)
      BY <1>1, <3>1, <3>2
    <3>4. QED
      BY <1>6, <3>1, <3>3
  <2>3. \A i \in 1..Len(q \o es) : On((q \o es)[i]) => \/ i \in 1..Len(q) /\ On(q[i]) /\ i < l
                                                       \/ i \notin 1..Len(q) /\ l < i
    <3>1. \A j \in 1..Len(es) : l < Len(q) + j /\ Len(q) + j \notin 1..Len(q)
      BY <1>1
    <3>2. QED
      BY <1>1, <2>2, <3>1
  <2>4. FewOns(q \o es)
    <3>1. SUFFICES ASSUME NEW i \in 1..Len(q \o es), NEW j \in 1..Len(q \o es), NEW k \in 1..Len(q \o es),
                          i < j, j < k, On((q \o es)[i]), On((q \o es)[j]), On((q \o es)[k])
                   PROVE  \E m \in 1..Len(q \o es) : i < m /\ m < k /\ Off((q \o es)[m])
      BY DEF FewOns
    <3>2. CASE k \in 1..Len(q)
      <4>1. i \in 1..Len(q) /\ j \in 1..Len(q)
        BY <1>1, <3>1, <3>2
      <4>2. PICK m \in 1..Len(q) : i < m /\ m < k /\ Off(q[m])
        BY <2>3, <3>1, <3>2, <4>1 DEF Powers, FewOns
      <4>3. QED
        BY <1>1, <1>2, <4>2
    <3>3. CASE k \notin 1..Len(q) /\ i \in 1..Len(q)
      BY <2>1, <2>3, <3>1, <3>3
    <3>4. CASE i \notin 1..Len(q)
      <4>1. Len(q) < i /\ k \notin 1..Len(q)
        BY <1>1, <1>3, <3>1, <3>4
      <4>2. k <= Len(q) + 2
        BY <1>3, <4>1
      <4>3. QED
        BY <1>1, <3>1, <4>1, <4>2
    <3>5. QED
      BY <3>2, <3>3, <3>4
  <2>5. ~Fresh(p) => OneOn(q \o es)
    <3>1. SUFFICES ASSUME ~Fresh(p), NEW i \in 1..Len(q \o es), NEW j \in 1..Len(q \o es),
                          i < j, On((q \o es)[i]), On((q \o es)[j])
                   PROVE  \E m \in 1..Len(q \o es) : m < j /\ Off((q \o es)[m])
      BY DEF OneOn
    <3>2. CASE j \in 1..Len(q)
      <4>1. i \in 1..Len(q)
        BY <1>1, <3>1, <3>2
      <4>2. PICK m \in 1..Len(q) : m < j /\ Off(q[m])
        BY <2>3, <3>1, <3>2, <4>1 DEF Powers, OneOn
      <4>3. QED
        BY <1>1, <1>2, <4>2
    <3>3. CASE j \notin 1..Len(q)
      BY <2>1, <2>3, <3>1, <3>3
    <3>4. QED
      BY <3>2, <3>3
  <2>6. Bare(p) => NoOn(q \o es)
    <3>1. SUFFICES ASSUME Bare(p), NEW i \in 1..Len(q \o es), On((q \o es)[i])
                   PROVE  \E m \in 1..Len(q \o es) : m < i /\ Off((q \o es)[m])
      BY DEF NoOn
    <3>2. CASE i \in 1..Len(q)
      <4>1. PICK m \in 1..Len(q) : m < i /\ Off(q[m])
        BY <2>3, <3>1, <3>2 DEF Powers, NoOn
      <4>2. QED
        BY <1>1, <1>2, <4>1
    <3>3. CASE i \notin 1..Len(q)
      BY <2>1, <2>3, <3>1, <3>3
    <3>4. QED
      BY <3>2, <3>3
  <2>7. QED
    BY <1>4, <2>4, <2>5, <2>6 DEF Powers
<1>7. (Len(q) + 1) - 1 = Len(q)
  BY <1>1
<1>8. QED
  BY <1>5, <1>6, <1>7 DEF Powers, Cleared

-----------------------------------------------------------------------------
(* What the operators do to the panel.                                      *)

\* The title stays as it is, with the button, and without a title no row comes.
SameTitle(p, r) ==
    /\ r.grouptitle = p.grouptitle
    /\ r.hidden_btn = "absent" <=> p.hidden_btn = "absent"
    /\ ~p.grouptitle /\ ListEmpty(p) => ListEmpty(r)

SameRows(p, r) == r.rows = p.rows /\ r.noApRow = p.noApRow

\* A row of r is marked as connected only if p's is.
NoNewMark(p, r) == \A a \in AP : r.rows[a] = "CONNECTED" => p.rows[a] = "CONNECTED"

LEMMA SameRowsFacts ==
    ASSUME NEW p, NEW r, SameRows(p, r)
    PROVE  Listed(r) = Listed(p) /\ (ListEmpty(r) <=> ListEmpty(p)) /\ NoNewMark(p, r)
BY DEF SameRows, Listed, ListEmpty, NoNewMark

LEMMA SameTitleTransitive ==
    ASSUME NEW p, NEW r, NEW s, SameTitle(p, r), SameTitle(r, s)
    PROVE  SameTitle(p, s)
BY DEF SameTitle

LEMMA ScanButtonOnFacts ==
    ASSUME NEW p \in Panels, mainView \in BOOLEAN
    PROVE  /\ ScanButtonOn(p) \in Panels
           /\ SameTitle(p, ScanButtonOn(p)) /\ SameRows(p, ScanButtonOn(p))
           /\ ScanButtonOn(p).disabled = p.disabled /\ ScanButtonOn(p).header = p.header
<1>1. (p.scan_button \/ mainView) \in BOOLEAN
  BY DEF Panels
<1>2. ScanButtonOn(p) \in Panels
  BY <1>1 DEF ScanButtonOn, Panels
<1>3. SameRows(p, ScanButtonOn(p)) /\ ScanButtonOn(p).grouptitle = p.grouptitle
      /\ ScanButtonOn(p).hidden_btn = p.hidden_btn
      /\ ScanButtonOn(p).disabled = p.disabled /\ ScanButtonOn(p).header = p.header
  BY DEF ScanButtonOn, Panels, SameRows
<1>4. QED
  BY <1>2, <1>3, SameRowsFacts DEF SameTitle

LEMMA HiddenDisableSetFacts ==
    ASSUME NEW p \in Panels, NEW b \in BOOLEAN
    PROVE  /\ HiddenDisableSet(p, b) \in Panels
           /\ SameTitle(p, HiddenDisableSet(p, b)) /\ SameRows(p, HiddenDisableSet(p, b))
           /\ HiddenDisableSet(p, b).disabled = p.disabled
           /\ HiddenDisableSet(p, b).header = p.header
<1>1. HiddenDisableSet(p, b) \in Panels
  BY DEF HiddenDisableSet, Panels
<1>2. SameRows(p, HiddenDisableSet(p, b)) /\ HiddenDisableSet(p, b).grouptitle = p.grouptitle
      /\ (HiddenDisableSet(p, b).hidden_btn = "absent" <=> p.hidden_btn = "absent")
      /\ HiddenDisableSet(p, b).disabled = p.disabled
      /\ HiddenDisableSet(p, b).header = p.header
  BY DEF HiddenDisableSet, Panels, SameRows
<1>3. QED
  BY <1>1, <1>2, SameRowsFacts DEF SameTitle

LEMMA HeaderModeSetFacts ==
    ASSUME NEW p \in Panels, NEW m \in HeaderModes, mainView \in BOOLEAN
    PROVE  /\ HeaderModeSet(p, m) \in Panels
           /\ SameTitle(p, HeaderModeSet(p, m)) /\ SameRows(p, HeaderModeSet(p, m))
           /\ HeaderModeSet(p, m).disabled = p.disabled /\ HeaderModeSet(p, m).header = m
<1>1. CASE p.header = m
  BY <1>1, SameRowsFacts DEF HeaderModeSet, SameTitle, SameRows
<1>2. CASE p.header # m
  <2> DEFINE h == [p EXCEPT !.header = m]
             q == HiddenDisableSet(h, m \notin IdleModes)
  <2>1. h \in Panels
    BY DEF Panels
  <2>2. SameRows(p, h) /\ h.grouptitle = p.grouptitle /\ h.hidden_btn = p.hidden_btn
        /\ h.disabled = p.disabled /\ h.header = m
    BY DEF Panels, SameRows
  <2>3. SameTitle(p, h)
    BY <2>2, SameRowsFacts DEF SameTitle
  <2>4. (m \notin IdleModes) \in BOOLEAN
    OBVIOUS
  <2> HIDE DEF h
  <2>5. q \in Panels /\ SameTitle(h, q) /\ SameRows(h, q) /\ q.disabled = h.disabled /\ q.header = h.header
    BY <2>1, <2>4, HiddenDisableSetFacts
  <2>6. HeaderModeSet(p, m) = IF m \in IdleModes THEN ScanButtonOn(q) ELSE q
    BY <1>2 DEF HeaderModeSet, h
  <2> HIDE DEF q
  <2>7. SameTitle(p, q) /\ SameRows(p, q)
    BY <2>2, <2>3, <2>5, SameTitleTransitive DEF SameRows
  <2>8. /\ ScanButtonOn(q) \in Panels /\ SameTitle(q, ScanButtonOn(q)) /\ SameRows(q, ScanButtonOn(q))
        /\ ScanButtonOn(q).disabled = q.disabled /\ ScanButtonOn(q).header = q.header
    BY <2>5, ScanButtonOnFacts
  <2>9. SameTitle(p, ScanButtonOn(q)) /\ SameRows(p, ScanButtonOn(q))
    BY <2>7, <2>8, SameTitleTransitive DEF SameRows
  <2>10. QED
    BY <2>2, <2>5, <2>6, <2>7, <2>8, <2>9
<1>3. QED
  BY <1>1, <1>2

LEMMA ListClearFacts ==
    ASSUME NEW p \in Panels
    PROVE  /\ ListClear(p) \in Panels /\ SameTitle(p, ListClear(p)) /\ ListEmpty(ListClear(p))
           /\ \A a \in AP : ListClear(p).rows[a] = "absent"
           /\ ListClear(p).disabled = {} /\ ListClear(p).header = p.header
           /\ ListClear(p).grouptitle = p.grouptitle
<1>1. [a \in AP |-> "absent"] \in [AP -> RadioModes \cup {"absent"}] /\ {} \in SUBSET AP
  OBVIOUS
<1>2. ListClear(p) \in Panels
  BY <1>1 DEF ListClear, Panels
<1>3. /\ ListClear(p).rows = [a \in AP |-> "absent"] /\ ListClear(p).disabled = {}
      /\ ListClear(p).noApRow = FALSE /\ ListClear(p).header = p.header
      /\ ListClear(p).grouptitle = p.grouptitle /\ ListClear(p).hidden_btn = p.hidden_btn
  BY DEF ListClear, Panels
<1>4. \A a \in AP : ListClear(p).rows[a] = "absent"
  BY <1>3
<1>5. ListEmpty(ListClear(p))
  BY <1>3, <1>4 DEF ListEmpty, Listed
<1>6. QED
  BY <1>2, <1>3, <1>4, <1>5 DEF SameTitle

LEMMA ShowSearchingFacts ==
    ASSUME NEW p \in Panels
    PROVE  /\ ShowSearching(p) \in Panels
           /\ SameTitle(p, ShowSearching(p)) /\ SameRows(p, ShowSearching(p))
           /\ ShowSearching(p).disabled = Listed(p) /\ ShowSearching(p).header = p.header
<1>1. Listed(p) \in SUBSET AP
  BY DEF Listed
<1>2. ShowSearching(p) \in Panels
  BY <1>1 DEF ShowSearching, Panels
<1>3. SameRows(p, ShowSearching(p)) /\ ShowSearching(p).grouptitle = p.grouptitle
      /\ ShowSearching(p).hidden_btn = p.hidden_btn
      /\ ShowSearching(p).disabled = Listed(p) /\ ShowSearching(p).header = p.header
  BY DEF ShowSearching, Panels, SameRows
<1>4. QED
  BY <1>2, <1>3, SameRowsFacts DEF SameTitle

LEMMA HideSearchingFacts ==
    ASSUME NEW p \in Panels, mainView \in BOOLEAN
    PROVE  /\ HideSearching(p) \in Panels
           /\ SameTitle(p, HideSearching(p)) /\ SameRows(p, HideSearching(p))
           /\ HideSearching(p).disabled = {} /\ HideSearching(p).header = p.header
<1>1. /\ ScanButtonOn(p) \in Panels /\ SameTitle(p, ScanButtonOn(p)) /\ SameRows(p, ScanButtonOn(p))
      /\ ScanButtonOn(p).header = p.header
  BY ScanButtonOnFacts
<1> DEFINE s == ScanButtonOn(p)
<1> HIDE DEF s
<1>2. s \in Panels /\ HideSearching(p) = [s EXCEPT !.disabled = {}]
  BY <1>1 DEF HideSearching, s
<1>3. {} \in SUBSET AP
  OBVIOUS
<1>4. HideSearching(p) \in Panels
  BY <1>2, <1>3 DEF Panels
<1>5. SameRows(s, HideSearching(p)) /\ HideSearching(p).grouptitle = s.grouptitle
      /\ HideSearching(p).hidden_btn = s.hidden_btn
      /\ HideSearching(p).disabled = {} /\ HideSearching(p).header = s.header
  BY <1>2 DEF Panels, SameRows
<1>6. SameTitle(s, HideSearching(p))
  BY <1>5, SameRowsFacts DEF SameTitle
<1>7. SameTitle(p, HideSearching(p)) /\ SameRows(p, HideSearching(p))
  BY <1>1, <1>5, <1>6, SameTitleTransitive DEF s, SameRows
<1>8. QED
  BY <1>1, <1>4, <1>5, <1>7 DEF s

\* From here the title may change: it is shown unless there are rows without one.
LEMMA ShowSubContentsFacts ==
    ASSUME NEW p \in Panels
    PROVE  /\ ShowSubContents(p) \in Panels /\ SameRows(p, ShowSubContents(p))
           /\ ShowSubContents(p).disabled = p.disabled /\ ShowSubContents(p).header = p.header
           /\ ShowSubContents(p).hidden_btn # "absent"
           /\ ShowSubContents(p).grouptitle <=> p.grouptitle \/ ListEmpty(p)
<1> DEFINE t == TitleItemSet(p)
<1>1. t \in Panels
  BY DEF TitleItemSet, Panels
<1>2. SameRows(p, t) /\ t.disabled = p.disabled /\ t.header = p.header
      /\ (t.grouptitle <=> p.grouptitle \/ ListEmpty(p))
  BY DEF TitleItemSet, Panels, SameRows
<1>3. ShowSubContents(p) = [t EXCEPT !.hidden_btn = IF @ = "absent" THEN "enabled" ELSE @]
  BY DEF ShowSubContents
<1> HIDE DEF t
<1>4. ShowSubContents(p) \in Panels
  BY <1>1, <1>3 DEF Panels
<1>5. SameRows(t, ShowSubContents(p)) /\ ShowSubContents(p).grouptitle = t.grouptitle
      /\ ShowSubContents(p).disabled = t.disabled /\ ShowSubContents(p).header = t.header
      /\ ShowSubContents(p).hidden_btn # "absent"
  BY <1>1, <1>3 DEF Panels, SameRows
<1>6. QED
  BY <1>2, <1>4, <1>5 DEF SameRows

LEMMA HideSubContentsFacts ==
    ASSUME NEW p \in Panels
    PROVE  /\ HideSubContents(p) \in Panels /\ SameRows(p, HideSubContents(p))
           /\ HideSubContents(p).disabled = p.disabled /\ HideSubContents(p).header = p.header
           /\ HideSubContents(p).hidden_btn = "absent" /\ ~HideSubContents(p).grouptitle
<1>1. HideSubContents(p) \in Panels
  BY DEF HideSubContents, Panels
<1>2. QED
  BY <1>1 DEF HideSubContents, Panels, SameRows

\* Rows that are inserted, moved or marked: none is disabled that was not.
RowsMoved(p, r) ==
    /\ SameTitle(p, r)
    /\ r.disabled \subseteq p.disabled
    /\ p.disabled \subseteq Listed(p) => r.disabled \subseteq Listed(r)

LEMMA RowsMovedTransitive ==
    ASSUME NEW p, NEW r, NEW s, RowsMoved(p, r), RowsMoved(r, s)
    PROVE  RowsMoved(p, s)
BY SameTitleTransitive DEF RowsMoved

LEMMA SameRowsMoved ==
    ASSUME NEW p, NEW r, SameTitle(p, r), SameRows(p, r), r.disabled = p.disabled
    PROVE  RowsMoved(p, r)
BY SameRowsFacts DEF RowsMoved

LEMMA ItemInsertFacts ==
    ASSUME NEW p \in Panels, NEW a \in AP
    PROVE  ItemInsert(p, a) \in Panels /\ RowsMoved(p, ItemInsert(p, a)) /\ NoNewMark(p, ItemInsert(p, a))
<1> DEFINE m == IF p.grouptitle THEN "OFF" ELSE "absent"
           r == ItemInsert(p, a)
<1>1. m \in RadioModes \cup {"absent"} /\ m # "CONNECTED"
  BY DEF RadioModes
<1>2. p.rows \in [AP -> RadioModes \cup {"absent"}] /\ p.disabled \ {a} \in SUBSET AP
  BY DEF Panels
<1>3. r = [p EXCEPT !.rows[a] = m, !.disabled = @ \ {a}]
  BY DEF ItemInsert
<1> HIDE DEF r, m
<1>4. /\ r.rows = [p.rows EXCEPT ![a] = m] /\ r.disabled = p.disabled \ {a}
      /\ r.header = p.header /\ r.hidden_btn = p.hidden_btn /\ r.noApRow = p.noApRow
      /\ r.grouptitle = p.grouptitle
  BY <1>3 DEF Panels
<1>5. r.rows \in [AP -> RadioModes \cup {"absent"}]
  BY <1>1, <1>2, <1>4
<1>6. r \in Panels
  BY <1>2, <1>3, <1>4, <1>5 DEF Panels
<1>7. r.rows[a] = m /\ \A b \in AP : b # a => r.rows[b] = p.rows[b]
  BY <1>2, <1>4
<1>8. NoNewMark(p, r)
  BY <1>1, <1>7 DEF NoNewMark
<1>9. ~p.grouptitle /\ ListEmpty(p) => ListEmpty(r)
  BY <1>4, <1>7 DEF ListEmpty, Listed, m
<1>10. p.disabled \subseteq Listed(p) => r.disabled \subseteq Listed(r)
  BY <1>4, <1>7 DEF Listed
<1>11. QED
  BY <1>4, <1>6, <1>8, <1>9, <1>10 DEF RowsMoved, SameTitle, r

LEMMA MoveItemToTopFacts ==
    ASSUME NEW p \in Panels, NEW a \in AP
    PROVE  /\ MoveItemToTop(p, a) \in Panels /\ RowsMoved(p, MoveItemToTop(p, a))
           /\ NoNewMark(p, MoveItemToTop(p, a))
<1>1. CASE a \in Listed(p)
  BY <1>1, ItemInsertFacts DEF MoveItemToTop
<1>2. CASE a \notin Listed(p)
  BY <1>2 DEF MoveItemToTop, RowsMoved, SameTitle, NoNewMark
<1>3. QED
  BY <1>1, <1>2

LEMMA WithRowFacts ==
    ASSUME panel \in Panels, NEW a \in AP, NEW add \in BOOLEAN
    PROVE  /\ WithRow(a, add) \in Panels /\ RowsMoved(panel, WithRow(a, add))
           /\ NoNewMark(panel, WithRow(a, add))
<1>1. CASE add /\ a \notin Listed(panel)
  BY <1>1, ItemInsertFacts DEF WithRow
<1>2. CASE ~(add /\ a \notin Listed(panel))
  BY <1>2 DEF WithRow, RowsMoved, SameTitle, NoNewMark
<1>3. QED
  BY <1>1, <1>2

LEMMA RadioModeSetFacts ==
    ASSUME NEW p \in Panels, NEW a \in AP, NEW mode \in RadioModes
    PROVE  /\ RadioModeSet(p, a, mode) \in Panels /\ RowsMoved(p, RadioModeSet(p, a, mode))
           /\ RadioModeSet(p, a, mode).disabled = p.disabled
           /\ RadioModeSet(p, a, mode).header = p.header
           /\ ListEmpty(RadioModeSet(p, a, mode)) <=> ListEmpty(p)
           /\ RadioModeSet(p, a, mode).rows[a] \in {mode, "absent"}
           /\ \A b \in AP : b # a => RadioModeSet(p, a, mode).rows[b] = p.rows[b]
<1>1. CASE a \notin Listed(p)
  BY <1>1 DEF RadioModeSet, RowsMoved, SameTitle, Listed
<1>2. CASE a \in Listed(p)
  <2> DEFINE r == RadioModeSet(p, a, mode)
  <2>1. r = [p EXCEPT !.rows[a] = mode]
    BY <1>2 DEF RadioModeSet
  <2>2. p.rows \in [AP -> RadioModes \cup {"absent"}]
    BY DEF Panels
  <2> HIDE DEF r
  <2>3. /\ r.rows = [p.rows EXCEPT ![a] = mode] /\ r.disabled = p.disabled
        /\ r.header = p.header /\ r.hidden_btn = p.hidden_btn /\ r.noApRow = p.noApRow
        /\ r.grouptitle = p.grouptitle
    BY <2>1 DEF Panels
  <2>4. r.rows \in [AP -> RadioModes \cup {"absent"}]
    BY <2>2, <2>3
  <2>5. r \in Panels
    BY <2>1, <2>3, <2>4 DEF Panels
  <2>6. r.rows[a] = mode /\ \A b \in AP : b # a => r.rows[b] = p.rows[b]
    BY <2>2, <2>3
  <2>7. mode # "absent" /\ p.rows[a] # "absent"
    BY <1>2 DEF RadioModes, Listed
  <2>8. Listed(r) = Listed(p)
    BY <2>6, <2>7 DEF Listed
  <2>9. QED
    BY <2>3, <2>5, <2>6, <2>8 DEF RowsMoved, SameTitle, ListEmpty, r
<1>3. QED
  BY <1>1, <1>2

\* A redraw makes every row tappable and marks as connected only the daemon's AP.
Redrawn(p, r) ==
    /\ r \in Panels /\ SameTitle(p, r)
    /\ r.disabled = {}
    /\ \A a \in AP : r.rows[a] = "CONNECTED" => LinkedTo(a)

LEMMA RelistedFacts ==
    ASSUME NEW p \in Panels, NEW S, NEW table \in BOOLEAN
    PROVE  /\ Redrawn(p, Relisted(p, S, table))
           /\ \A a \in AP : Relisted(p, S, table).rows[a] # "CONNECTED"
<1> DEFINE c == ListClear(p)
           u == UpdateListAll(c, S)
<1>1. /\ c \in Panels /\ SameTitle(p, c) /\ ListEmpty(c) /\ \A a \in AP : c.rows[a] = "absent"
      /\ c.disabled = {}
  BY ListClearFacts
<1> HIDE DEF c
<1>2. CASE ~table
  BY <1>1, <1>2 DEF Relisted, Redrawn, c
<1>3. CASE table
  <2> DEFINE rows == [a \in AP |-> IF c.grouptitle /\ a \in S THEN "OFF" ELSE "absent"]
             none == c.grouptitle /\ S = {}
  <2>1. rows \in [AP -> RadioModes \cup {"absent"}]
    BY DEF RadioModes
  <2>2. none \in BOOLEAN
    BY <1>1 DEF Panels
  <2>3. \A a \in AP : rows[a] # "CONNECTED" /\ (~c.grouptitle => rows[a] = "absent")
    OBVIOUS
  <2>4. ~c.grouptitle => ~none
    OBVIOUS
  <2>5. u = [c EXCEPT !.rows = rows, !.noApRow = none]
    BY DEF UpdateListAll
  <2> HIDE DEF u, rows, none
  <2>6. u \in Panels
    BY <1>1, <2>1, <2>2, <2>5 DEF Panels
  <2>7. /\ u.rows = rows /\ u.noApRow = none /\ u.grouptitle = c.grouptitle
        /\ u.hidden_btn = c.hidden_btn /\ u.disabled = c.disabled
    BY <1>1, <2>5 DEF Panels
  <2>8. SameTitle(c, u)
    BY <2>3, <2>4, <2>7 DEF SameTitle, ListEmpty, Listed
  <2>9. SameTitle(p, u)
    BY <1>1, <2>8, SameTitleTransitive
  <2>10. Relisted(p, S, table) = u
    BY <1>3 DEF Relisted, u, c
  <2>11. \A a \in AP : u.rows[a] # "CONNECTED"
    BY <2>3, <2>7
  <2>12. QED
    BY <1>1, <2>6, <2>7, <2>9, <2>10, <2>11 DEF Redrawn
<1>4. QED
  BY <1>2, <1>3

LEMMA RefreshedFacts ==
    ASSUME NEW p \in Panels, mainView \in BOOLEAN, link \in Links, NEW r \in Refreshed(p)
    PROVE  Redrawn(p, r) /\ (r.header \in {"OFF", "DEACTIVATING"} => ListEmpty(r))
<1>1. CASE r = RefreshOff(p)
  <2> DEFINE c == ListClear(p)
  <2>1. /\ c \in Panels /\ SameTitle(p, c) /\ ListEmpty(c)
        /\ c.disabled = {} /\ \A a \in AP : c.rows[a] = "absent"
    BY ListClearFacts
  <2>2. r = HeaderModeSet(c, "OFF") /\ "OFF" \in HeaderModes
    BY <1>1 DEF RefreshOff, HeaderModes, IdleModes
  <2> HIDE DEF c
  <2>3. r \in Panels /\ SameTitle(c, r) /\ SameRows(c, r) /\ r.disabled = c.disabled
    BY <2>1, <2>2, HeaderModeSetFacts
  <2>4. SameTitle(p, r) /\ ListEmpty(r) /\ r.disabled = {}
    BY <2>1, <2>3, SameTitleTransitive, SameRowsFacts
  <2>5. \A a \in AP : r.rows[a] # "CONNECTED"
    BY <2>1, <2>3 DEF SameRows
  <2>6. QED
    BY <2>3, <2>4, <2>5 DEF Redrawn
<1>2. ASSUME NEW S, NEW table \in BOOLEAN, r = RefreshOn(p, S, table)
      PROVE  Redrawn(p, r) /\ r.header \notin {"OFF", "DEACTIVATING"}
  <2> DEFINE q == Relisted(p, S, table)
             m == IF link.st = "IDLE" THEN "ON" ELSE link.st
             h == HeaderModeSet(q, m)
  <2>1. Redrawn(p, q) /\ \A a \in AP : q.rows[a] # "CONNECTED"
    BY RelistedFacts
  <2>2. m \in HeaderModes /\ m \notin {"OFF", "DEACTIVATING"}
    BY DEF Links, Idle, HeaderModes, IdleModes, BusyModes
  <2>3. r = IF link.st = "IDLE" THEN h ELSE RadioModeSet(h, link.ap, link.st)
    BY <1>2 DEF RefreshOn
  <2> HIDE DEF q
  <2>4. h \in Panels /\ SameTitle(q, h) /\ SameRows(q, h) /\ h.disabled = q.disabled /\ h.header = m
    BY <2>1, <2>2, HeaderModeSetFacts DEF Redrawn
  <2> HIDE DEF h
  <2>5. SameTitle(p, h) /\ h.disabled = {} /\ \A a \in AP : h.rows[a] # "CONNECTED"
    BY <2>1, <2>4, SameTitleTransitive DEF Redrawn, SameRows
  <2>6. CASE link.st = "IDLE"
    BY <2>2, <2>3, <2>4, <2>5, <2>6 DEF Redrawn
  <2>7. CASE link.st # "IDLE"
    <3>1. link.ap \in AP /\ link.st \in RadioModes
      BY <2>7 DEF Links, Idle, RadioModes
    <3>2. r = RadioModeSet(h, link.ap, link.st)
      BY <2>3, <2>7
    <3>3. /\ r \in Panels /\ RowsMoved(h, r) /\ r.disabled = h.disabled /\ r.header = h.header
          /\ r.rows[link.ap] \in {link.st, "absent"}
          /\ \A b \in AP : b # link.ap => r.rows[b] = h.rows[b]
      BY <2>4, <3>1, <3>2, RadioModeSetFacts
    <3>4. SameTitle(p, r)
      BY <2>5, <3>3, SameTitleTransitive DEF RowsMoved
    <3>5. \A a \in AP : r.rows[a] = "CONNECTED" => LinkedTo(a)
      BY <2>5, <3>3 DEF LinkedTo
    <3>6. QED
      BY <2>2, <2>4, <2>5, <3>3, <3>4, <3>5 DEF Redrawn
  <2>8. QED
    BY <2>6, <2>7
<1>3. QED
  BY <1>1, <1>2 DEF Refreshed

-----------------------------------------------------------------------------
(* Steps, by what they do to the queue.                                     *)

\* What IInv says of the panel alone.
Sound(p, scanning) ==
    /\ p \in Panels
    /\ p.hidden_btn # "absent" <=> p.grouptitle
    /\ p.disabled \subseteq Listed(p)
    /\ p.header \in {"OFF", "DEACTIVATING"} => ListEmpty(p)
    /\ ~scanning => p.disabled = {}

\* The panel r needs no other power notifications than p did.
Fits(p, r) == (Fresh(p) => Fresh(r)) /\ (Bare(r) => Bare(p))

LEMMA SameTitleFits ==
    ASSUME NEW p, NEW r, SameTitle(p, r)
    PROVE  Fits(p, r)
BY DEF SameTitle, Fits, Fresh, Bare

LEMMA PowersKept ==
    ASSUME NEW q, NEW p, NEW r, NEW on, Powers(q, p, on), Fits(p, r)
    PROVE  Powers(q, r, on)
<1>1. \A i : Cleared(q, i, p) => Cleared(q, i, r)
  BY DEF Cleared, Fits
<1>2. QED
  BY <1>1 DEF Powers, FailedCleared, Fits

LEMMA SoundPanel == IInv => Sound(panel, scanPending)
BY DEF IInv, TypeOK, Sound, ButtonWithTitle, DisabledAreListed, PoweringIsEmpty, RowsComeBack

LEMMA PostedType ==
    ASSUME TypeOK, NEW es \in Seq(Ev), Post(es)
    PROVE  events' \in Seq(Ev) /\ events' = events \o es /\ Len(events') <= MaxEvents
<1>1. events \in Seq(Ev)
  BY DEF TypeOK, Ev
<1>2. QED
  BY <1>1, PostQueue DEF Post

\* The gadget's variables other than the panel and connected_AP.
OthersOK ==
    /\ mainView \in BOOLEAN /\ deferred \in BOOLEAN /\ passpopup \in AP \cup {NoAP}
    /\ scanPending \in BOOLEAN

\* Nothing is posted or delivered, and the panel may change: a mark that is new was
\* drawn from the daemon's link.
LEMMA GadgetStep ==
    ASSUME IInv, Sound(panel', scanPending'), Fits(panel, panel'), OthersOK',
           \A a \in AP : panel'.rows[a] = "CONNECTED" => panel.rows[a] = "CONNECTED" \/ LinkedTo(a),
           UNCHANGED <<connected_AP, daemon>>
    PROVE  IInv'
<1>1. /\ connected_AP \in AP \cup {NoAP} /\ wifi \in BOOLEAN /\ link \in Links
      /\ events \in Seq(Ev) /\ Len(events) <= MaxEvents
  BY DEF IInv, TypeOK, Ev
<1>2. connected_AP' = connected_AP /\ wifi' = wifi /\ link' = link /\ events' = events
  BY DEF daemon
<1>3. LinkNeedsRadio'
  BY <1>2 DEF IInv, LinkNeedsRadio
<1>4. MarksEnd'
  BY <1>2 DEF IInv, MarksEnd, Marked, LinkedTo
<1>5. PowersInv'
  BY <1>2, PowersKept DEF IInv, PowersInv
<1>6. Len(events') <= MaxEvents
  BY <1>1, <1>2
<1>7. QED
  BY <1>1, <1>2, <1>3, <1>4, <1>5, <1>6
     DEF IInv, TypeOK, Sound, OthersOK, ButtonWithTitle, DisabledAreListed,
         PoweringIsEmpty, RowsComeBack, Ev

\* Messages are posted, and the panel keeps its title, its rows and their marks.
LEMMA DaemonStep ==
    ASSUME IInv, Sound(panel', scanPending'), SameTitle(panel, panel'), NoNewMark(panel, panel'),
           OthersOK', connected_AP' = connected_AP,
           wifi' \in BOOLEAN, link' \in Links, LinkNeedsRadio',
           NEW es \in Seq(Ev), Post(es),
           Powers(events \o es, panel, wifi'),
           \A a \in AP : ~LinkedTo(a)' =>
              /\ \A i \in 1..Len(es) : ~Up(es[i], a)
              /\ ~LinkedTo(a) \/ \E i \in 1..Len(es) : Over(es[i], a)
    PROVE  IInv'
<1>1. /\ connected_AP \in AP \cup {NoAP} /\ events \in Seq(Ev)
      /\ events' \in Seq(Ev) /\ events' = events \o es /\ Len(events') <= MaxEvents
  BY PostedType DEF IInv, TypeOK, Ev
<1>2. PowersInv'
  BY <1>1, SameTitleFits, PowersKept DEF PowersInv
<1>3. MarksEnd'
  <2>1. SUFFICES ASSUME NEW a \in AP, ~LinkedTo(a)'
                 PROVE  (Marked(a)' => EndsMark(events', a)) /\ EndsUps(events', a)
    BY DEF MarksEnd, EndsMark, EndsUps, LinkedTo
  <2>2. Marked(a)' => Marked(a)
    BY DEF Marked, NoNewMark
  <2>3. \A i \in 1..Len(es) : ~Up(es[i], a)
    BY <2>1
  <2>4. /\ EndsMark(events, a) => EndsMark(events', a)
        /\ EndsUps(events, a) => EndsUps(events', a)
        /\ (\E j \in 1..Len(es) : Over(es[j], a)) => EndsMark(events', a) /\ EndsUps(events', a)
    BY <1>1, <2>3, MarksPost
  <2>5. ~LinkedTo(a) => (Marked(a) => EndsMark(events, a)) /\ EndsUps(events, a)
    BY DEF IInv, MarksEnd
  <2>6. QED
    BY <2>1, <2>2, <2>4, <2>5
<1>4. QED
  BY <1>1, <1>2, <1>3
     DEF IInv, TypeOK, Sound, OthersOK, ButtonWithTitle, DisabledAreListed,
         PoweringIsEmpty, RowsComeBack, Ev

\* A message is delivered: one that ends marks takes them away, and a new mark comes
\* from the message that says the link is up.
LEMMA DeliveryStep ==
    ASSUME IInv, Sound(panel', scanPending'), OthersOK', connected_AP' \in AP \cup {NoAP},
           events # <<>>, events' = Tail(events), wifi' = wifi,
           link' \in Links, LinkNeedsRadio',
           Powers(Tail(events), panel', wifi),
           \A a \in AP : /\ LinkedTo(a) => LinkedTo(a)'
                         /\ Over(Head(events), a) => ~Marked(a)'
                         /\ Marked(a)' => Marked(a) \/ Up(Head(events), a)
    PROVE  IInv'
<1>1. events \in Seq(Ev) /\ Len(events) <= MaxEvents /\ MaxEvents \in Nat /\ wifi \in BOOLEAN
  BY ApAssumption DEF IInv, TypeOK, Ev
<1>2. events' \in Seq(Ev) /\ Len(events') <= MaxEvents
  BY <1>1, TailQueue
<1>3. PowersInv'
  BY DEF PowersInv
<1>4. MarksEnd'
  <2>1. SUFFICES ASSUME NEW a \in AP, ~LinkedTo(a)'
                 PROVE  (Marked(a)' => EndsMark(events', a)) /\ EndsUps(events', a)
    BY DEF MarksEnd, EndsMark, EndsUps, LinkedTo
  <2>2. (Marked(a) => EndsMark(events, a)) /\ EndsUps(events, a)
    BY <2>1 DEF IInv, MarksEnd
  <2>3. /\ EndsUps(events, a) => EndsUps(Tail(events), a)
        /\ EndsUps(events, a) /\ Up(Head(events), a) => EndsMark(Tail(events), a)
        /\ EndsMark(events, a) /\ ~Over(Head(events), a) => EndsMark(Tail(events), a)
    BY <1>1, MarksTail
  <2>4. QED
    BY <2>2, <2>3
<1>5. QED
  BY <1>1, <1>2, <1>3, <1>4
     DEF IInv, TypeOK, Sound, OthersOK, ButtonWithTitle, DisabledAreListed,
         PoweringIsEmpty, RowsComeBack, Ev

-----------------------------------------------------------------------------
(* The initial states.                                                      *)

LEMMA InitPanel ==
    ASSUME Init
    PROVE  /\ Sound(panel, scanPending) /\ ListEmpty(panel) /\ (panel.grouptitle <=> wifi)
           /\ \A a \in AP : panel.rows[a] = "absent"
<1> DEFINE on  == [Blank EXCEPT !.header = "SEARCHING", !.hidden_btn = "disabled"]
           off == [Blank EXCEPT !.scan_button = FALSE]
<1>1. [a \in AP |-> "absent"] \in [AP -> RadioModes \cup {"absent"}] /\ {} \in SUBSET AP
  OBVIOUS
<1>2. Blank \in Panels
  BY <1>1 DEF Blank, Panels, HeaderModes, IdleModes
<1>3. on \in Panels /\ off \in Panels
  BY <1>2 DEF Panels, HeaderModes
<1>4. /\ on.rows = Blank.rows /\ off.rows = Blank.rows /\ on.noApRow = FALSE /\ off.noApRow = FALSE
      /\ on.disabled = {} /\ off.disabled = {} /\ on.header = "SEARCHING" /\ off.header = "OFF"
      /\ on.grouptitle = FALSE
  BY <1>2 DEF Blank, Panels
<1>5. \A a \in AP : Blank.rows[a] = "absent"
  BY DEF Blank
<1>6. ListEmpty(on) /\ ListEmpty(off)
  BY <1>4, <1>5 DEF ListEmpty, Listed
<1>7. panel = IF wifi THEN ShowSubContents(on) ELSE HideSubContents(off)
  BY DEF Init
<1>8. wifi \in BOOLEAN
  BY DEF Init
<1> HIDE DEF on, off
<1>9. CASE wifi
  <2>1. /\ panel \in Panels /\ SameRows(on, panel) /\ panel.disabled = on.disabled
        /\ panel.header = on.header /\ panel.hidden_btn # "absent" /\ panel.grouptitle
    BY <1>3, <1>6, <1>7, <1>9, ShowSubContentsFacts
  <2>2. ListEmpty(panel)
    BY <1>6, <2>1, SameRowsFacts
  <2>3. QED
    BY <1>4, <1>5, <1>9, <2>1, <2>2 DEF Sound, SameRows
<1>10. CASE ~wifi
  <2>1. /\ panel \in Panels /\ SameRows(off, panel) /\ panel.disabled = off.disabled
        /\ panel.header = off.header /\ panel.hidden_btn = "absent" /\ ~panel.grouptitle
    BY <1>3, <1>7, <1>10, HideSubContentsFacts
  <2>2. ListEmpty(panel)
    BY <1>6, <2>1, SameRowsFacts
  <2>3. QED
    BY <1>4, <1>5, <1>10, <2>1, <2>2 DEF Sound, SameRows
<1>11. QED
  BY <1>8, <1>9, <1>10

LEMMA InitEvents ==
    ASSUME Init
    PROVE  /\ events \in Seq(Ev) /\ Len(events) \in 0..1
           /\ \A i \in 1..Len(events) : events[i] \in Ev /\ ~Failed(events[i]) /\ (On(events[i]) => wifi)
                                        /\ \A a \in AP : ~Up(events[i], a)
<1> DEFINE e == Event(IF wifi THEN "POWER_ON_OK" ELSE "POWER_OFF_OK", NoAP)
<1>1. e \in Ev /\ e.type = IF wifi THEN "POWER_ON_OK" ELSE "POWER_OFF_OK"
  BY DEF Ev, PowerEvents, Event
<1>2. events = <<>> \/ events = <<e>>
  BY DEF Init
<1> HIDE DEF e
<1>3. CASE events = <<>>
  BY <1>3, EmptySeq
<1>4. CASE events = <<e>>
  <2>1. events \in Seq(Ev) /\ Len(events) = 1 /\ events[1] = e
    BY <1>1, <1>4
  <2>2. ~Failed(e) /\ (On(e) => wifi) /\ \A a \in AP : ~Up(e, a)
    BY <1>1 DEF Failed, On, Up, Event
  <2>3. QED
    BY <1>1, <2>1, <2>2
<1>5. QED
  BY <1>2, <1>3, <1>4

LEMMA InitIInv == Init => IInv
<1>1. SUFFICES ASSUME Init
               PROVE  IInv
  OBVIOUS
<1>2. /\ Sound(panel, scanPending) /\ ListEmpty(panel) /\ (panel.grouptitle <=> wifi)
      /\ \A a \in AP : panel.rows[a] = "absent"
  BY <1>1, InitPanel
<1>3. /\ events \in Seq(Ev) /\ Len(events) \in 0..1
      /\ \A i \in 1..Len(events) : /\ ~Failed(events[i]) /\ (On(events[i]) => wifi)
                                   /\ \A a \in AP : ~Up(events[i], a)
  BY <1>1, InitEvents
<1>4. Len(events) <= MaxEvents
  BY <1>3, ApAssumption
<1>5. wifi \in BOOLEAN /\ link \in Links
  BY <1>1 DEF Init, Links
<1>6. LinkNeedsRadio
  BY <1>1 DEF Init, LinkNeedsRadio
<1>7. OthersOK
  BY <1>1 DEF Init, OthersOK
<1>8. connected_AP \in AP \cup {NoAP} /\ \A a \in AP : connected_AP = a => LinkedTo(a)
  <2>1. CASE link.st = "CONNECTED"
    <3>1. link.ap \in AP /\ connected_AP = link.ap
      BY <1>1, <1>5, <2>1 DEF Init, Links, Idle
    <3>2. QED
      BY <2>1, <3>1 DEF LinkedTo
  <2>2. CASE link.st # "CONNECTED"
    BY <1>1, <2>2, ApAssumption DEF Init
  <2>3. QED
    BY <2>1, <2>2
<1>9. MarksEnd
  BY <1>2, <1>3, <1>8 DEF MarksEnd, Marked, EndsUps
<1>10. PowersInv
  <2>1. ~Bare(panel) /\ (wifi => ~Fresh(panel)) /\ (~wifi => Fresh(panel))
    BY <1>2 DEF Fresh, Bare
  <2>2. \A i, j \in 1..Len(events) : ~(i < j)
    BY <1>3
  <2>3. FewOns(events) /\ OneOn(events) /\ FailedCleared(events, panel)
    BY <1>3, <2>2 DEF FewOns, OneOn, FailedCleared
  <2>4. (Len(events) + 1) - 1 = Len(events)
    BY <1>3
  <2>5. ~wifi => Cleared(events, Len(events) + 1, panel)
    BY <1>3, <2>1, <2>4 DEF Cleared
  <2>6. QED
    BY <2>1, <2>3, <2>5 DEF PowersInv, Powers
<1>11. QED
  BY <1>2, <1>3, <1>4, <1>5, <1>6, <1>7, <1>8, <1>9, <1>10
     DEF IInv, TypeOK, Sound, OthersOK, ButtonWithTitle, DisabledAreListed, PoweringIsEmpty,
         RowsComeBack, Ev

-----------------------------------------------------------------------------
(* The user's steps.                                                        *)

LEMMA IInvFacts ==
    IInv => /\ Sound(panel, scanPending) /\ panel \in Panels /\ OthersOK
            /\ connected_AP \in AP \cup {NoAP} /\ wifi \in BOOLEAN /\ link \in Links
            /\ events \in Seq(Ev) /\ Powers(events, panel, wifi) /\ LinkNeedsRadio
BY SoundPanel DEF IInv, TypeOK, OthersOK, Ev, PowersInv

\* A header that is not set to OFF or DEACTIVATING may be set at any time.
LEMMA HeaderSound ==
    ASSUME NEW p, NEW scanning, Sound(p, scanning), mainView \in BOOLEAN,
           NEW m \in HeaderModes \ {"OFF", "DEACTIVATING"}
    PROVE  /\ Sound(HeaderModeSet(p, m), scanning)
           /\ SameTitle(p, HeaderModeSet(p, m)) /\ NoNewMark(p, HeaderModeSet(p, m))
<1> DEFINE r == HeaderModeSet(p, m)
<1>1. r \in Panels /\ SameTitle(p, r) /\ SameRows(p, r) /\ r.disabled = p.disabled /\ r.header = m
  BY HeaderModeSetFacts DEF Sound
<1>2. Listed(r) = Listed(p) /\ NoNewMark(p, r)
  BY <1>1, SameRowsFacts
<1> HIDE DEF r
<1>3. Sound(r, scanning)
  BY <1>1, <1>2 DEF Sound, SameTitle
<1>4. QED
  BY <1>1, <1>2, <1>3 DEF r

\* A step of the gadget that only sets the header, or nothing.
LEMMA HeaderStep ==
    ASSUME IInv, NEW m \in HeaderModes \ {"OFF", "DEACTIVATING"},
           panel' \in {HeaderModeSet(panel, m), panel},
           OthersOK', scanPending' = scanPending, UNCHANGED <<connected_AP, daemon>>
    PROVE  IInv'
<1>1. Sound(panel, scanPending) /\ mainView \in BOOLEAN
  BY IInvFacts DEF OthersOK
<1>2. Sound(panel', scanPending') /\ SameTitle(panel, panel') /\ NoNewMark(panel, panel')
  BY <1>1, HeaderSound DEF SameTitle, NoNewMark
<1>3. QED
  BY <1>2, SameTitleFits, GadgetStep DEF NoNewMark

LEMMA PowerOnStep ==
    ASSUME IInv, PowerOn
    PROVE  IInv'
<1>1. "ACTIVATING" \in HeaderModes \ {"OFF", "DEACTIVATING"}
  BY DEF HeaderModes
<1>2. OthersOK' /\ scanPending' = scanPending /\ UNCHANGED <<connected_AP, daemon>>
  BY IInvFacts DEF PowerOn, others, OthersOK
<1>3. QED
  BY <1>1, <1>2, HeaderStep DEF PowerOn

LEMMA PowerOffStep ==
    ASSUME IInv, PowerOff
    PROVE  IInv'
<1> DEFINE p == ListClear(panel)
           q == ShowSearching(p)
           s == HideSubContents(q)
           r == HeaderModeSet(s, "DEACTIVATING")
<1>1. Sound(panel, scanPending) /\ panel \in Panels /\ mainView \in BOOLEAN
  BY IInvFacts DEF OthersOK
<1>2. OthersOK' /\ scanPending' = scanPending /\ UNCHANGED <<connected_AP, daemon>>
  BY IInvFacts DEF PowerOff, others, OthersOK
<1>3. /\ p \in Panels /\ SameTitle(panel, p) /\ ListEmpty(p) /\ p.disabled = {}
      /\ p.header = panel.header /\ \A a \in AP : p.rows[a] = "absent"
  BY <1>1, ListClearFacts
<1>4. panel' \in {p, r} /\ panel.header \notin {"OFF", "DEACTIVATING"}
  BY DEF PowerOff
<1> HIDE DEF p
<1>5. CASE panel' = p
  <2>1. Sound(p, scanPending)
    BY <1>1, <1>3 DEF Sound, SameTitle
  <2>2. QED
    BY <1>2, <1>3, <1>5, <2>1, SameTitleFits, GadgetStep
<1>6. CASE panel' = r
  <2>1. q \in Panels /\ SameRows(p, q) /\ q.disabled = Listed(p)
    BY <1>3, ShowSearchingFacts
  <2> HIDE DEF q
  <2>2. /\ s \in Panels /\ SameRows(q, s) /\ s.disabled = q.disabled
        /\ s.hidden_btn = "absent" /\ ~s.grouptitle
    BY <2>1, HideSubContentsFacts
  <2> HIDE DEF s
  <2>3. "DEACTIVATING" \in HeaderModes
    BY DEF HeaderModes
  <2>4. r \in Panels /\ SameTitle(s, r) /\ SameRows(s, r) /\ r.disabled = s.disabled
    BY <1>1, <2>2, <2>3, HeaderModeSetFacts
  <2> HIDE DEF r
  <2>5. SameRows(p, r) /\ r.disabled = {} /\ r.hidden_btn = "absent" /\ ~r.grouptitle
    BY <1>3, <2>1, <2>2, <2>4 DEF SameRows, SameTitle, ListEmpty
  <2>6. ListEmpty(r) /\ \A a \in AP : r.rows[a] # "CONNECTED"
    BY <1>3, <2>5, SameRowsFacts DEF SameRows
  <2>7. Sound(r, scanPending)
    BY <2>4, <2>5, <2>6 DEF Sound
  <2>8. Fits(panel, r)
    BY <2>5, <2>6 DEF Fits, Fresh, Bare
  <2>9. QED
    BY <1>2, <1>6, <2>6, <2>7, <2>8, GadgetStep
<1>7. QED
  BY <1>4, <1>5, <1>6

LEMMA ScanKeyStep ==
    ASSUME IInv, ScanKey
    PROVE  IInv'
<1> DEFINE q == ShowSearching(panel)
<1>1. Sound(panel, scanPending) /\ panel \in Panels /\ mainView \in BOOLEAN
  BY IInvFacts DEF OthersOK
<1>2. UNCHANGED <<connected_AP, daemon>>
  BY DEF ScanKey
<1>3. q \in Panels /\ SameTitle(panel, q) /\ SameRows(panel, q) /\ q.disabled = Listed(panel)
      /\ q.header = panel.header
  BY <1>1, ShowSearchingFacts
<1>4. Listed(q) = Listed(panel) /\ (ListEmpty(q) <=> ListEmpty(panel)) /\ NoNewMark(panel, q)
  BY <1>3, SameRowsFacts
<1> HIDE DEF q
<1>5. Sound(q, TRUE)
  BY <1>1, <1>3, <1>4 DEF Sound, SameTitle
<1>6. CASE panel.header \in {"OFF", "DEACTIVATING"} /\ panel' = q /\ UNCHANGED <<scanPending, deferred>>
  <2>1. q.disabled = {}
    BY <1>1, <1>3, <1>6 DEF Sound, ListEmpty
  <2>2. Sound(panel', scanPending') /\ SameTitle(panel, panel')
    BY <1>3, <1>5, <1>6, <2>1 DEF Sound
  <2>3. OthersOK'
    BY <1>6, IInvFacts DEF ScanKey, OthersOK
  <2>4. QED
    BY <1>2, <1>4, <1>6, <2>2, <2>3, SameTitleFits, GadgetStep DEF NoNewMark
<1>7. CASE panel' = HeaderModeSet(q, "SEARCHING") /\ scanPending' = TRUE /\ deferred' = FALSE
  <2>1. "SEARCHING" \in HeaderModes \ {"OFF", "DEACTIVATING"}
    BY DEF HeaderModes
  <2>2. Sound(panel', TRUE) /\ SameTitle(q, panel') /\ NoNewMark(q, panel')
    BY <1>1, <1>5, <1>7, <2>1, HeaderSound
  <2>3. SameTitle(panel, panel') /\ NoNewMark(panel, panel')
    BY <1>3, <1>4, <2>2, SameTitleTransitive DEF NoNewMark
  <2>4. OthersOK'
    BY <1>7, IInvFacts DEF ScanKey, OthersOK
  <2>5. QED
    BY <1>2, <1>7, <2>2, <2>3, <2>4, SameTitleFits, GadgetStep DEF NoNewMark
<1>8. QED
  BY <1>6, <1>7 DEF ScanKey, q

\* The link changes and nothing is posted.
LEMMA SilentLinkStep ==
    ASSUME IInv, Sound(panel', scanPending'), SameTitle(panel, panel'), NoNewMark(panel, panel'),
           OthersOK', connected_AP' = connected_AP,
           wifi' = wifi, link' \in Links, LinkNeedsRadio', UNCHANGED events,
           \A a \in AP : LinkedTo(a) => LinkedTo(a)'
    PROVE  IInv'
<1>1. events \in Seq(Ev) /\ Len(events) <= MaxEvents /\ wifi \in BOOLEAN /\ Powers(events, panel, wifi)
  BY IInvFacts DEF IInv, TypeOK
<1>2. events \o <<>> = events /\ <<>> \in Seq(Ev) /\ Len(<<>>) = 0
  BY <1>1
<1>3. Len(events) \in Nat
  BY <1>1, LenProperties
<1>4. Post(<<>>)
  BY <1>1, <1>2, <1>3 DEF Post
<1>5. \A i \in 1..Len(<<>>) : FALSE
  BY <1>2
<1>6. Powers(events \o <<>>, panel, wifi')
  BY <1>1, <1>2
<1>7. \A a \in AP : ~LinkedTo(a)' =>
         /\ \A i \in 1..Len(<<>>) : ~Up(<<>>[i], a)
         /\ ~LinkedTo(a) \/ \E i \in 1..Len(<<>>) : Over(<<>>[i], a)
  BY <1>5
<1>8. QED
  BY <1>1, <1>2, <1>4, <1>6, <1>7, DaemonStep

\* The daemon tells of a link.
LEMMA LinkStep ==
    ASSUME IInv, Sound(panel', scanPending'), SameTitle(panel, panel'), NoNewMark(panel, panel'),
           OthersOK', connected_AP' = connected_AP,
           wifi' = wifi, link' \in Links, LinkNeedsRadio',
           NEW e \in LinkEvents, Post(<<e>>),
           \A a \in AP : ~LinkedTo(a)' => ~Up(e, a) /\ (~LinkedTo(a) \/ Over(e, a))
    PROVE  IInv'
<1>1. events \in Seq(Ev) /\ wifi \in BOOLEAN /\ Powers(events, panel, wifi)
  BY IInvFacts
<1>2. e \in Ev /\ ~On(e) /\ ~Failed(e)
  BY DEF Ev, LinkEvents, Fails, On, Failed
<1>3. <<e>> \in Seq(Ev) /\ Len(<<e>>) = 1 /\ <<e>>[1] = e
  BY <1>2
<1>4. \A i \in 1..Len(<<e>>) : <<e>>[i] = e
  BY <1>3
<1>5. Powers(events \o <<e>>, panel, wifi')
  BY <1>1, <1>2, <1>3, <1>4, PowersPost
<1>6. \A a \in AP : ~LinkedTo(a)' =>
         /\ \A i \in 1..Len(<<e>>) : ~Up(<<e>>[i], a)
         /\ ~LinkedTo(a) \/ \E i \in 1..Len(<<e>>) : Over(<<e>>[i], a)
  BY <1>3, <1>4
<1>7. QED
  BY <1>1, <1>3, <1>5, <1>6, DaemonStep

\* A request to connect, and one to close the connection.
LEMMA OpenStep ==
    ASSUME IInv, NEW a \in AP, OpenAccepted(a), panel' = HeaderModeSet(panel, "CONNECTING"),
           OthersOK', scanPending' = scanPending, connected_AP' = connected_AP
    PROVE  IInv'
<1>1. Sound(panel, scanPending) /\ mainView \in BOOLEAN /\ link \in Links /\ LinkNeedsRadio
  BY IInvFacts DEF OthersOK
<1>2. "CONNECTING" \in HeaderModes \ {"OFF", "DEACTIVATING"}
  BY DEF HeaderModes, BusyModes
<1>3. Sound(panel', scanPending') /\ SameTitle(panel, panel') /\ NoNewMark(panel, panel')
  BY <1>1, <1>2, HeaderSound
<1>4. wifi /\ wifi' = wifi /\ LinkNeedsRadio'
  BY DEF OpenAccepted, LinkNeedsRadio
<1> DEFINE up == [st |-> "CONNECTING", ap |-> a]
<1>5. up \in Links /\ up.st = "CONNECTING"
  BY DEF Links
<1> HIDE DEF up
<1>6. CASE link = Idle /\ link' = up /\ UNCHANGED events
  <2>1. \A b \in AP : ~LinkedTo(b)
    BY <1>6 DEF LinkedTo, Idle
  <2>2. QED
    BY <1>3, <1>4, <1>5, <1>6, <2>1, SilentLinkStep
<1>7. CASE link.st = "CONNECTED" /\ link' = up /\ Post(<<Event("DISCONNECTION", link.ap)>>)
  <2>1. link.ap \in AP
    BY <1>1, <1>7 DEF Links, Idle
  <2>2. Event("DISCONNECTION", link.ap) \in LinkEvents
    BY <2>1 DEF LinkEvents, Event
  <2>3. \A b \in AP : ~Up(Event("DISCONNECTION", link.ap), b)
    BY DEF Up, Event
  <2>4. \A b \in AP : LinkedTo(b) => Over(Event("DISCONNECTION", link.ap), b)
    BY DEF LinkedTo, Over
  <2>5. QED
    BY <1>3, <1>4, <1>5, <1>7, <2>2, <2>3, <2>4, LinkStep
<1>8. CASE UNCHANGED link /\ Post(<<Event("FAIL_KEEP", a)>>)
  <2>1. Event("FAIL_KEEP", a) \in LinkEvents
    BY DEF LinkEvents, Fails, Event
  <2>2. \A b \in AP : ~Up(Event("FAIL_KEEP", a), b)
    BY DEF Up, Event
  <2>3. \A b \in AP : LinkedTo(b) => LinkedTo(b)'
    BY <1>8 DEF LinkedTo
  <2>4. QED
    BY <1>1, <1>3, <1>4, <1>8, <2>1, <2>2, <2>3, LinkStep
<1>9. CASE UNCHANGED <<link, events>>
  <2>1. \A b \in AP : LinkedTo(b) => LinkedTo(b)'
    BY <1>9 DEF LinkedTo
  <2>2. QED
    BY <1>1, <1>3, <1>4, <1>9, <2>1, SilentLinkStep
<1>10. QED
  BY <1>6, <1>7, <1>8, <1>9 DEF OpenAccepted, up

LEMMA ConnectStep ==
    ASSUME IInv, NEW a \in AP, Connect(a)
    PROVE  IInv'
<1>1. scanPending' = scanPending /\ connected_AP' = connected_AP
  BY DEF Connect
<1>2. OthersOK'
  BY IInvFacts DEF Connect, OthersOK
<1>3. CASE OpenAccepted(a) /\ panel' = HeaderModeSet(panel, "CONNECTING")
  BY <1>1, <1>2, <1>3, OpenStep
<1>4. CASE UNCHANGED <<panel, daemon>>
  <2>1. "ON" \in HeaderModes \ {"OFF", "DEACTIVATING"}
    BY DEF HeaderModes, IdleModes
  <2>2. QED
    BY <1>1, <1>2, <1>4, <2>1, HeaderStep
<1>5. QED
  BY <1>3, <1>4 DEF Connect

LEMMA DisconnectStep ==
    ASSUME IInv, NEW a \in AP, Disconnect(a)
    PROVE  IInv'
<1> DEFINE m == IF panel.rows[a] = "CONNECTED" THEN "DISCONNECTING" ELSE "CANCEL_CONNECTING"
<1>1. Sound(panel, scanPending) /\ mainView \in BOOLEAN /\ link \in Links /\ LinkNeedsRadio
  BY IInvFacts DEF OthersOK
<1>2. m \in HeaderModes \ {"OFF", "DEACTIVATING"}
  BY DEF HeaderModes, BusyModes
<1>3. panel' = HeaderModeSet(panel, m)
  BY DEF Disconnect
<1>4. OthersOK' /\ scanPending' = scanPending /\ connected_AP' = connected_AP
  BY IInvFacts DEF Disconnect, others, OthersOK
<1> HIDE DEF m
<1>5. Sound(panel', scanPending') /\ SameTitle(panel, panel') /\ NoNewMark(panel, panel')
  BY <1>1, <1>2, <1>3, <1>4, HeaderSound
<1>6. link.ap = a /\ link' = [link EXCEPT !.st = "DISCONNECTING"] /\ wifi' = wifi /\ events' = events
  BY DEF Disconnect, CloseAccepted
<1>7. link # Idle
  BY <1>6, ApAssumption DEF Idle
<1>8. link' \in Links /\ link'.ap = a /\ link'.st = "DISCONNECTING"
  BY <1>1, <1>6, <1>7 DEF Links
<1>9. LinkNeedsRadio'
  BY <1>1, <1>6, <1>7 DEF LinkNeedsRadio
<1>10. \A b \in AP : LinkedTo(b) => LinkedTo(b)'
  BY <1>6, <1>8 DEF LinkedTo
<1>11. QED
  BY <1>4, <1>5, <1>6, <1>8, <1>9, <1>10, SilentLinkStep

LEMMA PasswordOkStep ==
    ASSUME IInv, PasswordOk
    PROVE  IInv'
<1>1. scanPending' = scanPending /\ connected_AP' = connected_AP
  BY DEF PasswordOk
<1>2. OthersOK'
  BY IInvFacts DEF PasswordOk, OthersOK
<1>3. passpopup \in AP
  BY IInvFacts DEF PasswordOk, OthersOK
<1>4. CASE OpenAccepted(passpopup) /\ panel' = HeaderModeSet(panel, "CONNECTING")
  BY <1>1, <1>2, <1>3, <1>4, OpenStep
<1>5. CASE panel' = HeaderModeSet(panel, "ON") /\ UNCHANGED daemon
  <2>1. "ON" \in HeaderModes \ {"OFF", "DEACTIVATING"}
    BY DEF HeaderModes, IdleModes
  <2>2. QED
    BY <1>1, <1>2, <1>5, <2>1, HeaderStep
<1>6. QED
  BY <1>4, <1>5 DEF PasswordOk

LEMMA ViewStep ==
    ASSUME IInv, PasswordCancel \/ CoverMainView \/ UncoverMainView
    PROVE  IInv'
<1>1. panel' = panel /\ scanPending' = scanPending /\ UNCHANGED <<connected_AP, daemon>>
  BY DEF PasswordCancel, CoverMainView, UncoverMainView
<1>2. OthersOK'
  BY IInvFacts DEF PasswordCancel, CoverMainView, UncoverMainView, OthersOK
<1>3. "ON" \in HeaderModes \ {"OFF", "DEACTIVATING"}
  BY DEF HeaderModes, IdleModes
<1>4. QED
  BY <1>1, <1>2, <1>3, HeaderStep

-----------------------------------------------------------------------------
(* Redraws.                                                                 *)

\* A redraw, now or when the deferred one is due, of what the step made of the panel.
LEMMA RedrawStep ==
    ASSUME IInv, NEW p \in Panels, SameTitle(panel, p), panel' \in Refreshed(p),
           OthersOK', UNCHANGED <<connected_AP, daemon>>
    PROVE  IInv'
<1>1. Sound(panel, scanPending) /\ mainView \in BOOLEAN /\ link \in Links
  BY IInvFacts DEF OthersOK
<1>2. Redrawn(p, panel') /\ (panel'.header \in {"OFF", "DEACTIVATING"} => ListEmpty(panel'))
  BY <1>1, RefreshedFacts
<1>3. SameTitle(panel, panel')
  BY <1>2, SameTitleTransitive DEF Redrawn
<1>4. Sound(panel', scanPending')
  BY <1>1, <1>2, <1>3 DEF Sound, Redrawn, SameTitle
<1>5. QED
  BY <1>2, <1>3, <1>4, SameTitleFits, GadgetStep DEF Redrawn

LEMMA DeferredRefreshStep ==
    ASSUME IInv, DeferredRefresh
    PROVE  IInv'
<1>1. OthersOK' /\ UNCHANGED <<connected_AP, daemon>> /\ panel' \in Refreshed(panel)
  BY IInvFacts DEF DeferredRefresh, OthersOK
<1>2. panel \in Panels /\ SameTitle(panel, panel)
  BY IInvFacts DEF SameTitle
<1>3. QED
  BY <1>1, <1>2, RedrawStep

LEMMA ScanResultIndStep ==
    ASSUME IInv, ScanResultInd
    PROVE  IInv'
<1>1. UNCHANGED <<scanPending, connected_AP, daemon>>
  BY DEF ScanResultInd
<1>2. OthersOK'
  BY IInvFacts DEF ScanResultInd, ProfileRefresh, OthersOK
<1>3. CASE panel' \in Refreshed(panel)
  <2>1. panel \in Panels /\ SameTitle(panel, panel)
    BY IInvFacts DEF SameTitle
  <2>2. QED
    BY <1>1, <1>2, <1>3, <2>1, RedrawStep
<1>4. CASE panel' = panel
  <2>1. "ON" \in HeaderModes \ {"OFF", "DEACTIVATING"}
    BY DEF HeaderModes, IdleModes
  <2>2. QED
    BY <1>1, <1>2, <1>4, <2>1, HeaderStep
<1>5. QED
  BY <1>3, <1>4 DEF ScanResultInd, ProfileRefresh

LEMMA ScanOkStep ==
    ASSUME IInv, ScanOk
    PROVE  IInv'
<1> DEFINE h == HiddenDisableSet(panel, FALSE)
           p == HideSearching(h)
<1>1. Sound(panel, scanPending) /\ panel \in Panels /\ mainView \in BOOLEAN
  BY IInvFacts DEF OthersOK
<1>2. UNCHANGED <<connected_AP, daemon>> /\ scanPending' = FALSE
  BY DEF ScanOk
<1>3. OthersOK'
  BY IInvFacts DEF ScanOk, ProfileRefresh, OthersOK
<1>4. CASE panel.header \in {"DEACTIVATING", "OFF"} /\ panel' = panel
  <2>1. panel.disabled = {}
    BY <1>1, <1>4 DEF Sound, ListEmpty
  <2>2. Sound(panel', scanPending') /\ SameTitle(panel, panel')
    BY <1>1, <1>2, <1>4, <2>1 DEF Sound, SameTitle
  <2>3. QED
    BY <1>2, <1>3, <1>4, <2>2, SameTitleFits, GadgetStep
<1>5. CASE panel.header \notin {"DEACTIVATING", "OFF"} /\ ProfileRefresh(p)
  <2>1. h \in Panels /\ SameTitle(panel, h) /\ SameRows(panel, h) /\ h.header = panel.header
    BY <1>1, HiddenDisableSetFacts
  <2> HIDE DEF h
  <2>2. p \in Panels /\ SameTitle(h, p) /\ SameRows(h, p) /\ p.disabled = {} /\ p.header = h.header
    BY <1>1, <2>1, HideSearchingFacts
  <2> HIDE DEF p
  <2>3. SameTitle(panel, p) /\ NoNewMark(panel, p)
    BY <2>1, <2>2, SameTitleTransitive, SameRowsFacts DEF NoNewMark
  <2>4. CASE panel' \in Refreshed(p)
    BY <1>2, <1>3, <2>2, <2>3, <2>4, RedrawStep
  <2>5. CASE panel' = p
    <3>1. Sound(panel', scanPending')
      BY <1>1, <1>5, <2>1, <2>2, <2>3, <2>5 DEF Sound, SameTitle
    <3>2. QED
      BY <1>2, <1>3, <2>3, <2>5, <3>1, SameTitleFits, GadgetStep DEF NoNewMark
  <2>6. QED
    BY <1>5, <2>4, <2>5 DEF ProfileRefresh
<1>6. QED
  BY <1>4, <1>5 DEF ScanOk

-----------------------------------------------------------------------------
(* The daemon's steps: the gadget does not move.                            *)

LEMMA Still ==
    ASSUME IInv, UNCHANGED gadget
    PROVE  /\ Sound(panel', scanPending') /\ SameTitle(panel, panel') /\ NoNewMark(panel, panel')
           /\ OthersOK' /\ connected_AP' = connected_AP
<1>1. panel' = panel /\ scanPending' = scanPending /\ connected_AP' = connected_AP
  BY DEF gadget
<1>2. OthersOK'
  BY IInvFacts DEF gadget, OthersOK
<1>3. Sound(panel', scanPending')
  BY <1>1, IInvFacts
<1>4. QED
  BY <1>1, <1>2, <1>3 DEF SameTitle, NoNewMark

LEMMA AutoJoinStep ==
    ASSUME IInv, NEW a \in AP, AutoJoin(a)
    PROVE  IInv'
<1>1. UNCHANGED gadget /\ wifi /\ wifi' = wifi /\ UNCHANGED events /\ link = Idle
  BY DEF AutoJoin
<1>2. link' \in Links
  BY DEF AutoJoin, Links
<1>3. LinkNeedsRadio'
  BY <1>1 DEF LinkNeedsRadio
<1>4. \A b \in AP : LinkedTo(b) => LinkedTo(b)'
  BY <1>1 DEF LinkedTo, Idle
<1>5. QED
  BY <1>1, <1>2, <1>3, <1>4, Still, SilentLinkStep

LEMMA AssociatedStep ==
    ASSUME IInv, Associated
    PROVE  IInv'
<1> DEFINE e == Event("CONNECTING", link.ap)
<1>1. UNCHANGED gadget /\ wifi' = wifi /\ link' = link /\ Post(<<e>>) /\ link.st = "CONNECTING"
  BY DEF Associated
<1>2. link \in Links /\ LinkNeedsRadio /\ link.ap \in AP
  BY <1>1, IInvFacts DEF Links, Idle
<1>3. e \in LinkEvents
  BY <1>2 DEF LinkEvents, Event
<1>4. \A a \in AP : ~Up(e, a)
  BY DEF Up, Event
<1>5. LinkNeedsRadio' /\ \A a \in AP : LinkedTo(a) => LinkedTo(a)'
  BY <1>1, <1>2 DEF LinkNeedsRadio, LinkedTo
<1> HIDE DEF e
<1>6. QED
  BY <1>1, <1>2, <1>3, <1>4, <1>5, Still, LinkStep

LEMMA AnsweredStep ==
    ASSUME IInv, Answered
    PROVE  IInv'
<1> DEFINE b == link.ap
<1>1. UNCHANGED gadget /\ wifi' = wifi
  BY DEF Answered
<1>2. link \in Links /\ LinkNeedsRadio /\ link.st \in {"CONNECTING", "DISCONNECTING"}
  BY IInvFacts DEF Answered
<1>3. link # Idle /\ b \in AP /\ wifi
  BY <1>2 DEF Links, Idle, LinkNeedsRadio
<1>4. LinkNeedsRadio'
  BY <1>1, <1>3 DEF LinkNeedsRadio
<1>5. Idle \in Links /\ Idle.st = "IDLE"
  BY DEF Links, Idle
<1>6. CASE link.st = "CONNECTING" /\ link' = [link EXCEPT !.st = "CONNECTED"]
           /\ Post(<<Event("CONNECTION_OK", b)>>)
  <2>1. link' \in Links /\ link'.st = "CONNECTED" /\ link'.ap = b
    BY <1>2, <1>3, <1>6 DEF Links
  <2>2. Event("CONNECTION_OK", b) \in LinkEvents
    BY <1>3 DEF LinkEvents, Event
  <2>3. \A a \in AP : ~LinkedTo(a)' => a # b
    BY <2>1 DEF LinkedTo
  <2>4. \A a \in AP : ~LinkedTo(a)' => ~Up(Event("CONNECTION_OK", b), a)
    BY <2>3 DEF Up, Event
  <2>5. \A a \in AP : ~LinkedTo(a)
    BY <1>6 DEF LinkedTo
  <2>6. QED
    BY <1>1, <1>4, <1>6, <2>1, <2>2, <2>4, <2>5, Still, LinkStep
<1>7. ASSUME link.st = "CONNECTING", link' = Idle,
             NEW t \in {"FAIL", "FAIL_TIMEOUT", "ASSOCIATION_FAILURE"}, Post(<<Event(t, b)>>)
      PROVE  IInv'
  <2>1. Event(t, b) \in LinkEvents
    BY <1>3 DEF LinkEvents, Event, Fails
  <2>2. \A a \in AP : ~Up(Event(t, b), a)
    BY DEF Up, Event
  <2>3. \A a \in AP : ~LinkedTo(a)
    BY <1>7 DEF LinkedTo
  <2>4. QED
    BY <1>1, <1>4, <1>5, <1>7, <2>1, <2>2, <2>3, Still, LinkStep
<1>8. CASE link' = Idle /\ Post(<<Event("DISCONNECTION", b)>>)
  <2>1. Event("DISCONNECTION", b) \in LinkEvents
    BY <1>3 DEF LinkEvents, Event
  <2>2. \A a \in AP : ~Up(Event("DISCONNECTION", b), a)
    BY DEF Up, Event
  <2>3. \A a \in AP : LinkedTo(a) => Over(Event("DISCONNECTION", b), a)
    BY DEF LinkedTo, Over
  <2>4. QED
    BY <1>1, <1>4, <1>5, <1>8, <2>1, <2>2, <2>3, Still, LinkStep
<1>9. QED
  BY <1>6, <1>7, <1>8 DEF Answered

LEMMA DroppedStep ==
    ASSUME IInv, Dropped
    PROVE  IInv'
<1> DEFINE e == Event("DISCONNECTION", link.ap)
<1>1. UNCHANGED gadget /\ wifi' = wifi /\ link' = Idle /\ Post(<<e>>) /\ link.st = "CONNECTED"
  BY DEF Dropped
<1>2. link.ap \in AP
  BY <1>1, IInvFacts DEF Links, Idle
<1>3. Idle \in Links /\ LinkNeedsRadio'
  BY <1>1 DEF Links, LinkNeedsRadio
<1>4. e \in LinkEvents
  BY <1>2 DEF LinkEvents, Event
<1>5. \A a \in AP : ~Up(e, a)
  BY DEF Up, Event
<1>6. \A a \in AP : LinkedTo(a) => Over(e, a)
  BY DEF LinkedTo, Over
<1> HIDE DEF e
<1>7. QED
  BY <1>1, <1>3, <1>4, <1>5, <1>6, Still, LinkStep

\* One message or two that say the same.
LEMMA OnceOrTwice ==
    ASSUME NEW e \in Ev, NEW es, es = <<e>> \/ es = <<e, e>>
    PROVE  es \in Seq(Ev) /\ Len(es) \in 1..2 /\ \A i \in 1..Len(es) : es[i] = e
<1>1. CASE es = <<e>>
  BY <1>1
<1>2. CASE es = <<e, e>>
  <2>1. es \in Seq(Ev) /\ Len(es) = 2 /\ es[1] = e /\ es[2] = e
    BY <1>2
  <2>2. \A i \in 1..2 : i = 1 \/ i = 2
    OBVIOUS
  <2>3. QED
    BY <2>1, <2>2
<1>3. QED
  BY <1>1, <1>2

LEMMA RadioSwitchedOn ==
    ASSUME IInv, ~wifi, wifi' = TRUE, link' = Idle, UNCHANGED gadget,
           NEW es, es = <<Event("POWER_ON_OK", NoAP)>> \/
                   es = <<Event("POWER_ON_OK", NoAP), Event("POWER_ON_OK", NoAP)>>, Post(es)
    PROVE  IInv'
<1> DEFINE e == Event("POWER_ON_OK", NoAP)
<1>1. e \in Ev /\ On(e) /\ \A a \in AP : ~Up(e, a)
  BY DEF Ev, PowerEvents, Event, On, Up
<1> HIDE DEF e
<1>2. es \in Seq(Ev) /\ Len(es) \in 1..2 /\ \A i \in 1..Len(es) : es[i] = e
  BY <1>1, OnceOrTwice DEF e
<1>3. events \in Seq(Ev) /\ Powers(events, panel, FALSE)
  BY IInvFacts
<1>4. Powers(events \o es, panel, TRUE)
  BY <1>1, <1>2, <1>3, PowersOn
<1>5. link = Idle
  BY IInvFacts DEF LinkNeedsRadio
<1>6. \A a \in AP : ~LinkedTo(a)
  BY <1>5 DEF LinkedTo, Idle
<1>7. Idle \in Links /\ LinkNeedsRadio'
  BY DEF Links, LinkNeedsRadio
<1>8. \A a \in AP : \A i \in 1..Len(es) : ~Up(es[i], a)
  BY <1>1, <1>2
<1>9. QED
  BY <1>2, <1>4, <1>6, <1>7, <1>8, Still, DaemonStep

LEMMA RadioSwitchedOff ==
    ASSUME IInv, wifi, wifi' = FALSE, link' = Idle, UNCHANGED gadget,
           NEW down \in Seq(Ev), \A i \in 1..Len(down) : down[i].type = "DISCONNECTION",
           NEW es, es = <<Event("POWER_OFF_OK", NoAP)>> \/
                   es = <<Event("POWER_OFF_OK", NoAP), Event("POWER_OFF_OK", NoAP)>>,
           Post(down \o es)
    PROVE  IInv'
<1> DEFINE e == Event("POWER_OFF_OK", NoAP)
           f == down \o es
<1>1. e \in Ev /\ e.type = "POWER_OFF_OK"
  BY DEF Ev, PowerEvents, Event
<1> HIDE DEF e
<1>2. es \in Seq(Ev) /\ Len(es) \in 1..2 /\ \A i \in 1..Len(es) : es[i] = e
  BY <1>1, OnceOrTwice DEF e
<1>3. /\ f \in Seq(Ev) /\ Len(down) \in Nat /\ Len(f) = Len(down) + Len(es)
      /\ \A i \in 1..Len(down) : f[i] = down[i]
      /\ \A i \in 1..Len(es) : f[Len(down) + i] = es[i]
      /\ \A i \in 1..(Len(down) + Len(es)) :
            i \in 1..Len(down) \/ \E j \in 1..Len(es) : i = Len(down) + j
  BY <1>2, PostQueue
<1>4. Post(f)
  OBVIOUS
<1> HIDE DEF f
<1>5. \A i \in 1..Len(f) : f[i].type \in {"DISCONNECTION", "POWER_OFF_OK"}
  <2>1. \A i \in 1..Len(down) : f[i].type = "DISCONNECTION"
    BY <1>3
  <2>2. \A i \in 1..Len(es) : f[Len(down) + i].type = "POWER_OFF_OK"
    BY <1>1, <1>2, <1>3
  <2>3. QED
    BY <1>3, <2>1, <2>2
<1>6. 1 \in 1..Len(es) /\ Len(down) + 1 \in 1..Len(f)
  <2>1. \A n \in 1..2 : n \in Nat /\ n >= 1
    OBVIOUS
  <2> DEFINE n == Len(es)
  <2>2. n \in Nat /\ n >= 1
    BY <1>2, <2>1
  <2>3. 1 \in 1..n
    BY <2>2
  <2>4. QED
    BY <1>3, <2>2, <2>3
<1>7. Off(f[Len(down) + 1])
  BY <1>1, <1>2, <1>3, <1>6 DEF Off
<1>8. \A i \in 1..Len(f) : ~On(f[i]) /\ ~Failed(f[i]) /\ \A a \in AP : ~Up(f[i], a)
  BY <1>5 DEF On, Failed, Up, Event
<1>9. events \in Seq(Ev) /\ Powers(events, panel, TRUE)
  BY IInvFacts
<1>10. \E i \in 1..Len(f) : Off(f[i])
  BY <1>6, <1>7
<1>11. Powers(events \o f, panel, FALSE)
  BY <1>3, <1>8, <1>9, <1>10, PowersPost
<1>12. \A a \in AP : \E i \in 1..Len(f) : Over(f[i], a)
  BY <1>10 DEF Over
<1>13. Idle \in Links /\ LinkNeedsRadio'
  BY DEF Links, LinkNeedsRadio
<1>14. QED
  BY <1>3, <1>4, <1>8, <1>11, <1>12, <1>13, Still, DaemonStep

LEMMA RadioSwitchedStep ==
    ASSUME IInv, RadioSwitched
    PROVE  IInv'
<1> DEFINE down == IF link.st = "CONNECTED" THEN <<Event("DISCONNECTION", link.ap)>> ELSE <<>>
           e == Event(IF wifi THEN "POWER_OFF_OK" ELSE "POWER_ON_OK", NoAP)
<1>1. PICK es : (es = <<e>> \/ es = <<e, e>>) /\ Post(down \o es)
  BY DEF RadioSwitched
<1>2. wifi \in BOOLEAN /\ wifi' = ~wifi /\ link' = Idle /\ UNCHANGED gadget
  BY IInvFacts DEF RadioSwitched
<1>3. CASE wifi
  <2> HIDE DEF e
  <2>0. e = Event("POWER_OFF_OK", NoAP)
    BY <1>3 DEF e
  <2>1. CASE link.st = "CONNECTED"
    <3>1. link.ap \in AP
      BY <2>1, IInvFacts DEF Links, Idle
    <3>2. Event("DISCONNECTION", link.ap) \in Ev /\ Event("DISCONNECTION", link.ap).type = "DISCONNECTION"
      BY <3>1 DEF Ev, LinkEvents, Event
    <3>3. down = <<Event("DISCONNECTION", link.ap)>>
      BY <2>1
    <3>4. down \in Seq(Ev) /\ Len(down) = 1 /\ down[1] = Event("DISCONNECTION", link.ap)
      BY <3>2, <3>3
    <3>5. \A i \in 1..Len(down) : down[i].type = "DISCONNECTION"
      BY <3>2, <3>4
    <3>6. QED
      BY <1>1, <1>2, <1>3, <2>0, <3>4, <3>5, RadioSwitchedOff
  <2>2. CASE link.st # "CONNECTED"
    <3>1. down \in Seq(Ev) /\ Len(down) = 0
      BY <2>2
    <3> HIDE DEF down
    <3>2. \A i \in 1..Len(down) : down[i].type = "DISCONNECTION"
      BY <3>1
    <3>3. QED
      BY <1>1, <1>2, <1>3, <2>0, <3>1, <3>2, RadioSwitchedOff
  <2>3. QED
    BY <2>1, <2>2
<1>4. CASE ~wifi
  <2>1. link.st # "CONNECTED"
    BY <1>4, IInvFacts DEF LinkNeedsRadio, Idle
  <2>2. e = Event("POWER_ON_OK", NoAP) /\ e \in Ev
    BY <1>4 DEF Ev, PowerEvents, Event
  <2>3. es \in Seq(Ev)
    BY <1>1, <2>2, OnceOrTwice
  <2>4. down \o es = es
    BY <2>1, <2>3, ConcatEmptySeq
  <2>5. QED
    BY <1>1, <1>2, <1>4, <2>2, <2>4, RadioSwitchedOn
<1>5. QED
  BY <1>2, <1>3, <1>4

LEMMA PowerOnFailsStep ==
    ASSUME IInv, PowerOnFails
    PROVE  IInv'
<1> DEFINE e == Event("POWER_ON_FAILED", NoAP)
           es == <<e>>
<1>1. UNCHANGED gadget /\ wifi' = wifi /\ link' = link /\ ~wifi /\ Post(es)
  BY DEF PowerOnFails
<1>2. e \in Ev /\ ~On(e) /\ \A a \in AP : ~Up(e, a)
  BY DEF Ev, PowerEvents, Event, On, Up
<1> HIDE DEF e
<1>3. es \in Seq(Ev) /\ Len(es) = 1 /\ \A i \in 1..Len(es) : es[i] = e
  BY <1>2
<1> HIDE DEF es
<1>4. events \in Seq(Ev) /\ Powers(events, panel, FALSE)
  BY <1>1, IInvFacts
<1>5. Powers(events \o es, panel, FALSE)
  BY <1>2, <1>3, <1>4, PowersPost
<1>6. wifi' = FALSE /\ link' \in Links /\ LinkNeedsRadio' /\ \A a \in AP : LinkedTo(a) => LinkedTo(a)'
  BY <1>1, IInvFacts DEF LinkNeedsRadio, LinkedTo
<1>7. \A a \in AP : \A i \in 1..Len(es) : ~Up(es[i], a)
  BY <1>2, <1>3
<1>8. QED
  BY <1>1, <1>3, <1>5, <1>6, <1>7, Still, DaemonStep

-----------------------------------------------------------------------------
(* Delivered messages.                                                      *)

\* A message that power is on is delivered: the list is not without its title.
LEMMA PowerOnFindsNoBareList ==
    ASSUME IInv, Received("POWER_ON_OK")
    PROVE  ~Bare(panel)
<1>1. SUFFICES ASSUME Bare(panel)
               PROVE  FALSE
  OBVIOUS
<1>2. events # <<>> /\ events \in Seq(Ev) /\ On(Head(events)) /\ NoOn(events)
  BY <1>1, IInvFacts DEF Received, On, Powers
<1>3. Head(events) = events[1] /\ Len(events) \in Nat /\ Len(events) > 0
  BY <1>2, TailQueue
<1>4. 1 \in 1..Len(events)
  BY <1>3
<1>5. PICK l \in 1..Len(events) : l < 1 /\ Off(events[l])
  BY <1>2, <1>3, <1>4 DEF NoOn
<1>6. QED
  BY <1>3, <1>5

\* One that it could not be switched on finds the list cleared.
LEMMA PowerOnFailedFindsClearedList ==
    ASSUME IInv, Received("POWER_ON_FAILED")
    PROVE  Fresh(panel)
<1>1. events # <<>> /\ events \in Seq(Ev) /\ Failed(Head(events)) /\ FailedCleared(events, panel)
  BY IInvFacts DEF Received, Failed, Powers
<1>2. Head(events) = events[1] /\ Len(events) \in Nat /\ Len(events) > 0
  BY <1>1, TailQueue
<1>3. 1 \in 1..Len(events)
  BY <1>2
<1>4. Cleared(events, 1, panel)
  BY <1>1, <1>2, <1>3 DEF FailedCleared
<1>5. \A j \in 1..(1 - 1) : FALSE
  OBVIOUS
<1>6. QED
  BY <1>4, <1>5 DEF Cleared

\* A power notification; the link stays.
LEMMA PowerStep ==
    ASSUME IInv, NEW t \in {"POWER_ON_OK", "POWER_OFF_OK", "POWER_ON_FAILED"}, Received(t),
           Sound(panel', scanPending'), NoNewMark(panel, panel'), OthersOK',
           connected_AP' \in {NoAP, connected_AP}, UNCHANGED <<wifi, link>>,
           t = "POWER_ON_OK" => (Bare(panel') => ~Fresh(panel)),
           t = "POWER_OFF_OK" => /\ Fresh(panel') /\ connected_AP' = NoAP
                                 /\ \A a \in AP : panel'.rows[a] # "CONNECTED",
           t = "POWER_ON_FAILED" => Fits(panel, panel')
    PROVE  IInv'
<1>1. events # <<>> /\ events' = Tail(events) /\ Head(events).type = t
  BY DEF Received
<1>2. events \in Seq(Ev) /\ wifi \in BOOLEAN /\ link \in Links /\ Powers(events, panel, wifi)
      /\ connected_AP \in AP \cup {NoAP} /\ LinkNeedsRadio
  BY IInvFacts
<1>3. /\ Off(Head(events)) => Fresh(panel')
      /\ On(Head(events)) => (Bare(panel') => ~Fresh(panel))
      /\ ~Off(Head(events)) /\ ~On(Head(events)) => Fits(panel, panel')
  BY <1>1 DEF On, Off
<1>4. Powers(Tail(events), panel', wifi)
  BY <1>1, <1>2, <1>3, PowersTail DEF Fits
<1>5. LinkNeedsRadio' /\ \A a \in AP : LinkedTo(a) => LinkedTo(a)'
  BY <1>2 DEF LinkNeedsRadio, LinkedTo
<1>6. \A a \in AP : Over(Head(events), a) => ~Marked(a)'
  <2>1. \A a \in AP : Over(Head(events), a) => t = "POWER_OFF_OK"
    BY <1>1 DEF Over, Off, Event
  <2>2. \A a \in AP : t = "POWER_OFF_OK" => ~Marked(a)'
    BY ApAssumption DEF Marked
  <2>3. QED
    BY <2>1, <2>2
<1>7. \A a \in AP : Marked(a)' => Marked(a)
  BY ApAssumption DEF Marked, NoNewMark
<1>8. QED
  BY <1>1, <1>2, <1>4, <1>5, <1>6, <1>7, DeliveryStep

LEMMA PowerOnOkStep ==
    ASSUME IInv, PowerOnOk
    PROVE  IInv'
<1> DEFINE h == HeaderModeSet(panel, "SEARCHING")
           d == HiddenDisableSet(h, TRUE)
           s == ShowSearching(d)
           r == ShowSubContents(s)
<1>1. Received("POWER_ON_OK") /\ panel' = r /\ scanPending' = TRUE /\ connected_AP' = connected_AP
      /\ UNCHANGED <<wifi, link>>
  BY DEF PowerOnOk
<1>2. panel \in Panels /\ mainView \in BOOLEAN
  BY IInvFacts DEF OthersOK
<1>3. OthersOK'
  BY IInvFacts DEF PowerOnOk, OthersOK
<1>4. "SEARCHING" \in HeaderModes
  BY DEF HeaderModes
<1>5. h \in Panels /\ SameTitle(panel, h) /\ SameRows(panel, h) /\ h.header = "SEARCHING"
  BY <1>2, <1>4, HeaderModeSetFacts
<1> HIDE DEF h
<1>6. d \in Panels /\ SameTitle(h, d) /\ SameRows(h, d) /\ d.header = h.header
  BY <1>5, HiddenDisableSetFacts
<1> HIDE DEF d
<1>7. s \in Panels /\ SameTitle(d, s) /\ SameRows(d, s) /\ s.disabled = Listed(d) /\ s.header = d.header
  BY <1>6, ShowSearchingFacts
<1> HIDE DEF s
<1>8. /\ r \in Panels /\ SameRows(s, r) /\ r.disabled = s.disabled /\ r.header = s.header
      /\ r.hidden_btn # "absent" /\ (r.grouptitle <=> s.grouptitle \/ ListEmpty(s))
  BY <1>7, ShowSubContentsFacts
<1> HIDE DEF r
<1>9. SameRows(panel, s) /\ SameRows(panel, r) /\ SameRows(d, r)
  BY <1>5, <1>6, <1>7, <1>8 DEF SameRows
<1>10. (ListEmpty(s) <=> ListEmpty(panel)) /\ Listed(r) = Listed(d) /\ NoNewMark(panel, r)
  BY <1>9, SameRowsFacts
<1>11. s.grouptitle = panel.grouptitle
  BY <1>5, <1>6, <1>7 DEF SameTitle
<1>12. r.grouptitle
  BY <1>1, <1>8, <1>10, <1>11, PowerOnFindsNoBareList DEF Bare
<1>13. Sound(r, TRUE)
  BY <1>5, <1>6, <1>7, <1>8, <1>10, <1>12 DEF Sound
<1>14. ~Bare(r)
  BY <1>12 DEF Bare
<1>15. QED
  BY <1>1, <1>3, <1>10, <1>13, <1>14, PowerStep

LEMMA PowerOnOkNoScanStep ==
    ASSUME IInv, PowerOnOkNoScan
    PROVE  IInv'
<1> DEFINE h == HeaderModeSet(panel, "ON")
           d == HiddenDisableSet(h, FALSE)
           s == HideSearching(d)
           r == HideSubContents(s)
<1>1. Received("POWER_ON_OK") /\ panel' = r /\ connected_AP' = connected_AP
      /\ UNCHANGED <<wifi, link>>
  BY DEF PowerOnOkNoScan
<1>2. panel \in Panels /\ mainView \in BOOLEAN
  BY IInvFacts DEF OthersOK
<1>3. OthersOK'
  BY IInvFacts DEF PowerOnOkNoScan, OthersOK
<1>4. "ON" \in HeaderModes
  BY DEF HeaderModes, IdleModes
<1>5. h \in Panels /\ SameRows(panel, h) /\ h.header = "ON"
  BY <1>2, <1>4, HeaderModeSetFacts
<1> HIDE DEF h
<1>6. d \in Panels /\ SameRows(h, d) /\ d.header = h.header
  BY <1>5, HiddenDisableSetFacts
<1> HIDE DEF d
<1>7. s \in Panels /\ SameRows(d, s) /\ s.disabled = {} /\ s.header = d.header
  BY <1>2, <1>6, HideSearchingFacts
<1> HIDE DEF s
<1>8. /\ r \in Panels /\ SameRows(s, r) /\ r.disabled = s.disabled /\ r.header = s.header
      /\ r.hidden_btn = "absent" /\ ~r.grouptitle
  BY <1>7, HideSubContentsFacts
<1> HIDE DEF r
<1>9. SameRows(panel, r)
  BY <1>5, <1>6, <1>7, <1>8 DEF SameRows
<1>10. (ListEmpty(r) <=> ListEmpty(panel)) /\ NoNewMark(panel, r)
  BY <1>9, SameRowsFacts
<1>11. r.header = "ON" /\ r.disabled = {}
  BY <1>5, <1>6, <1>7, <1>8
<1>12. Sound(r, scanPending')
  BY <1>8, <1>11 DEF Sound
<1>13. Bare(r) => ~Fresh(panel)
  BY <1>10 DEF Bare, Fresh
<1>14. QED
  BY <1>1, <1>3, <1>10, <1>12, <1>13, PowerStep

LEMMA PowerOffOkStep ==
    ASSUME IInv, PowerOffOk
    PROVE  IInv'
<1> DEFINE c == ListClear(panel)
           h == HeaderModeSet(c, "OFF")
           s == ShowSearching(h)
           r == HideSubContents(s)
<1>1. Received("POWER_OFF_OK") /\ panel' = r /\ connected_AP' = NoAP /\ UNCHANGED <<wifi, link>>
  BY DEF PowerOffOk
<1>2. panel \in Panels /\ mainView \in BOOLEAN
  BY IInvFacts DEF OthersOK
<1>3. OthersOK'
  BY IInvFacts DEF PowerOffOk, OthersOK
<1>4. "OFF" \in HeaderModes
  BY DEF HeaderModes, IdleModes
<1>5. c \in Panels /\ ListEmpty(c) /\ \A a \in AP : c.rows[a] = "absent"
  BY <1>2, ListClearFacts
<1> HIDE DEF c
<1>6. h \in Panels /\ SameRows(c, h)
  BY <1>2, <1>4, <1>5, HeaderModeSetFacts
<1> HIDE DEF h
<1>7. s \in Panels /\ SameRows(h, s) /\ s.disabled = Listed(h)
  BY <1>6, ShowSearchingFacts
<1> HIDE DEF s
<1>8. /\ r \in Panels /\ SameRows(s, r) /\ r.disabled = s.disabled
      /\ r.hidden_btn = "absent" /\ ~r.grouptitle
  BY <1>7, HideSubContentsFacts
<1> HIDE DEF r
<1>9. SameRows(c, r)
  BY <1>6, <1>7, <1>8 DEF SameRows
<1>10. ListEmpty(r) /\ ListEmpty(h) /\ \A a \in AP : r.rows[a] = "absent"
  BY <1>5, <1>6, <1>9, SameRowsFacts DEF SameRows
<1>11. r.disabled = {}
  BY <1>7, <1>8, <1>10 DEF ListEmpty
<1>12. Sound(r, scanPending') /\ Fresh(r)
  BY <1>8, <1>10, <1>11 DEF Sound, Fresh
<1>13. NoNewMark(panel, r)
  BY <1>10 DEF NoNewMark
<1>14. QED
  BY <1>1, <1>3, <1>10, <1>12, <1>13, PowerStep

LEMMA PowerOnFailedStep ==
    ASSUME IInv, PowerOnFailed
    PROVE  IInv'
<1> DEFINE r == HeaderModeSet(panel, "OFF")
<1>1. Received("POWER_ON_FAILED") /\ panel' = r /\ UNCHANGED <<wifi, link>>
      /\ scanPending' = scanPending /\ connected_AP' = connected_AP
  BY DEF PowerOnFailed, others
<1>2. Sound(panel, scanPending) /\ panel \in Panels /\ mainView \in BOOLEAN
  BY IInvFacts DEF OthersOK
<1>3. OthersOK'
  BY IInvFacts DEF PowerOnFailed, others, OthersOK
<1>4. "OFF" \in HeaderModes
  BY DEF HeaderModes, IdleModes
<1>5. r \in Panels /\ SameTitle(panel, r) /\ SameRows(panel, r) /\ r.disabled = panel.disabled
  BY <1>2, <1>4, HeaderModeSetFacts
<1> HIDE DEF r
<1>6. Listed(r) = Listed(panel) /\ (ListEmpty(r) <=> ListEmpty(panel)) /\ NoNewMark(panel, r)
  BY <1>5, SameRowsFacts
<1>7. ListEmpty(panel)
  BY <1>1, PowerOnFailedFindsClearedList DEF Fresh
<1>8. Sound(r, scanPending)
  BY <1>2, <1>5, <1>6, <1>7 DEF Sound, SameTitle
<1>9. QED
  BY <1>1, <1>3, <1>5, <1>6, <1>8, SameTitleFits, PowerStep

\* A message of the link to an AP: the title stays, and only the row of the AP and
\* connected_AP may change their mark, to one that is set by "up" alone.
LEMMA LinkMessageStep ==
    ASSUME IInv, NEW a \in AP, NEW t, t \notin {"POWER_ON_OK", "POWER_OFF_OK", "POWER_ON_FAILED"},
           Received(t), Head(events).ap = a,
           Sound(panel', scanPending'), SameTitle(panel, panel'), OthersOK',
           connected_AP' \in {NoAP, a, connected_AP}, wifi' = wifi, link' \in Links,
           link' # Idle => link # Idle, \A b \in AP : LinkedTo(b) => LinkedTo(b)',
           \A b \in AP : b # a => (panel'.rows[b] = "CONNECTED" => panel.rows[b] = "CONNECTED"),
           t # "CONNECTION_OK" => (Marked(a)' => Marked(a)),
           t = "DISCONNECTION" => ~Marked(a)'
    PROVE  IInv'
<1>1. events # <<>> /\ events' = Tail(events) /\ Head(events).type = t
  BY DEF Received
<1>2. events \in Seq(Ev) /\ wifi \in BOOLEAN /\ link \in Links /\ Powers(events, panel, wifi)
      /\ connected_AP \in AP \cup {NoAP} /\ LinkNeedsRadio
  BY IInvFacts
<1>3. ~Off(Head(events)) /\ ~On(Head(events))
  BY <1>1 DEF On, Off
<1>4. Powers(Tail(events), panel', wifi)
  BY <1>1, <1>2, <1>3, SameTitleFits, PowersTail DEF Fits
<1>5. LinkNeedsRadio'
  BY <1>2 DEF LinkNeedsRadio
<1>6. Head(events) = Event(t, a)
  <2>1. Head(events) \in Ev
    BY <1>1, <1>2, TailQueue
  <2>2. QED
    BY <1>1, <2>1 DEF Ev, PowerEvents, LinkEvents, Event
<1>7. \A b \in AP : Over(Head(events), b) => ~Marked(b)'
  <2>1. \A b \in AP : Over(Head(events), b) => b = a /\ t = "DISCONNECTION"
    BY <1>3, <1>6 DEF Over, Event
  <2>2. QED
    BY <2>1
<1>8. \A b \in AP : Marked(b)' => Marked(b) \/ Up(Head(events), b)
  <2>1. \A b \in AP : b # a => (Marked(b)' => Marked(b))
    BY ApAssumption DEF Marked
  <2>2. t = "CONNECTION_OK" => Up(Head(events), a)
    BY <1>6 DEF Up
  <2>3. QED
    BY <2>1, <2>2
<1>9. QED
  BY <1>1, <1>2, <1>4, <1>5, <1>7, <1>8, DeliveryStep

LEMMA MovedSound ==
    ASSUME NEW p, NEW r \in Panels, NEW scanning, Sound(p, scanning), RowsMoved(p, r),
           r.header \notin {"OFF", "DEACTIVATING"}
    PROVE  Sound(r, scanning) /\ SameTitle(p, r)
<1>1. r.disabled \subseteq Listed(r)
  BY DEF Sound, RowsMoved
<1>2. ~scanning => r.disabled = {}
  BY DEF Sound, RowsMoved
<1>3. r.hidden_btn # "absent" <=> r.grouptitle
  BY DEF Sound, RowsMoved, SameTitle
<1>4. QED
  BY <1>1, <1>2, <1>3 DEF Sound, RowsMoved

LEMMA ConnectingStep ==
    ASSUME IInv, NEW a \in AP, Connecting(a)
    PROVE  IInv'
<1> DEFINE p == WithRow(a, TRUE)
           m == MoveItemToTop(p, a)
           h == HeaderModeSet(m, "CONNECTING")
           r == RadioModeSet(h, a, "CONNECTING")
<1>1. /\ Received("CONNECTING") /\ Head(events).ap = a
      /\ panel' = panel \/ panel' = r
      /\ scanPending' = scanPending /\ connected_AP' = connected_AP /\ UNCHANGED <<wifi, link>>
  BY DEF Connecting, others
<1>2. Sound(panel, scanPending) /\ panel \in Panels /\ mainView \in BOOLEAN /\ link \in Links
  BY IInvFacts DEF OthersOK
<1>3. OthersOK'
  BY IInvFacts DEF Connecting, others, OthersOK
<1>4. p \in Panels /\ RowsMoved(panel, p) /\ NoNewMark(panel, p)
  BY <1>2, WithRowFacts
<1> HIDE DEF p
<1>5. m \in Panels /\ RowsMoved(p, m) /\ NoNewMark(p, m)
  BY <1>4, MoveItemToTopFacts
<1> HIDE DEF m
<1>6. "CONNECTING" \in HeaderModes /\ "CONNECTING" \in RadioModes
  BY DEF HeaderModes, BusyModes, RadioModes
<1>7. h \in Panels /\ RowsMoved(m, h) /\ NoNewMark(m, h) /\ h.header = "CONNECTING"
  BY <1>2, <1>5, <1>6, HeaderModeSetFacts, SameRowsMoved, SameRowsFacts
<1> HIDE DEF h
<1>8. /\ r \in Panels /\ RowsMoved(h, r) /\ r.header = h.header /\ r.rows[a] \in {"CONNECTING", "absent"}
      /\ \A b \in AP : b # a => r.rows[b] = h.rows[b]
  BY <1>6, <1>7, RadioModeSetFacts
<1> HIDE DEF r
<1>9. RowsMoved(panel, r)
  BY <1>4, <1>5, <1>7, <1>8, RowsMovedTransitive
<1>10. NoNewMark(panel, r)
  BY <1>4, <1>5, <1>7, <1>8 DEF NoNewMark
<1>11. r.header \notin {"OFF", "DEACTIVATING"}
  BY <1>7, <1>8
<1>12. Sound(r, scanPending) /\ SameTitle(panel, r)
  BY <1>2, <1>8, <1>9, <1>11, MovedSound
<1>13. Sound(panel', scanPending') /\ SameTitle(panel, panel') /\ NoNewMark(panel, panel')
  BY <1>1, <1>2, <1>10, <1>12 DEF SameTitle, NoNewMark
<1>14. \A b \in AP : LinkedTo(b) => LinkedTo(b)'
  BY <1>1 DEF LinkedTo
<1>15. Marked(a)' => Marked(a)
  BY <1>1, <1>13 DEF Marked, NoNewMark
<1>16. QED
  BY <1>1, <1>2, <1>3, <1>13, <1>14, <1>15, LinkMessageStep DEF NoNewMark

LEMMA ConnectionOkStep ==
    ASSUME IInv, NEW a \in AP, NEW wps \in BOOLEAN, ConnectionOk(a, wps)
    PROVE  IInv'
<1> DEFINE p == WithRow(a, ~wps)
           m == MoveItemToTop(p, a)
           s == RadioModeSet(m, a, "CONNECTED")
           r == HeaderModeSet(s, "CONNECTED")
<1>1. /\ Received("CONNECTION_OK") /\ Head(events).ap = a
      /\ panel' = panel \/ panel' = r
      /\ scanPending' = scanPending /\ connected_AP' \in {a, connected_AP} /\ UNCHANGED <<wifi, link>>
  BY DEF ConnectionOk
<1>2. Sound(panel, scanPending) /\ panel \in Panels /\ mainView \in BOOLEAN /\ link \in Links
  BY IInvFacts DEF OthersOK
<1>3. OthersOK'
  BY IInvFacts DEF ConnectionOk, OthersOK
<1>4. p \in Panels /\ RowsMoved(panel, p) /\ NoNewMark(panel, p)
  BY <1>2, WithRowFacts
<1> HIDE DEF p
<1>5. m \in Panels /\ RowsMoved(p, m) /\ NoNewMark(p, m)
  BY <1>4, MoveItemToTopFacts
<1> HIDE DEF m
<1>6. "CONNECTED" \in HeaderModes /\ "CONNECTED" \in RadioModes
  BY DEF HeaderModes, IdleModes, RadioModes
<1>7. /\ s \in Panels /\ RowsMoved(m, s)
      /\ \A b \in AP : b # a => s.rows[b] = m.rows[b]
  BY <1>5, <1>6, RadioModeSetFacts
<1> HIDE DEF s
<1>8. r \in Panels /\ RowsMoved(s, r) /\ NoNewMark(s, r) /\ r.header = "CONNECTED"
  BY <1>2, <1>6, <1>7, HeaderModeSetFacts, SameRowsMoved, SameRowsFacts
<1> HIDE DEF r
<1>9. RowsMoved(panel, r)
  BY <1>4, <1>5, <1>7, <1>8, RowsMovedTransitive
<1>10. \A b \in AP : b # a => (r.rows[b] = "CONNECTED" => panel.rows[b] = "CONNECTED")
  BY <1>4, <1>5, <1>7, <1>8 DEF NoNewMark
<1>11. Sound(r, scanPending) /\ SameTitle(panel, r)
  BY <1>2, <1>8, <1>9, MovedSound
<1>12. /\ Sound(panel', scanPending') /\ SameTitle(panel, panel')
       /\ \A b \in AP : b # a => (panel'.rows[b] = "CONNECTED" => panel.rows[b] = "CONNECTED")
  BY <1>1, <1>2, <1>10, <1>11 DEF SameTitle
<1>13. \A b \in AP : LinkedTo(b) => LinkedTo(b)'
  BY <1>1 DEF LinkedTo
<1>14. QED
  BY <1>1, <1>2, <1>3, <1>12, <1>13, LinkMessageStep

LEMMA ConnectionFailedStep ==
    ASSUME IInv, NEW a \in AP, ConnectionFailed(a)
    PROVE  IInv'
<1> DEFINE h == HeaderModeSet(panel, "ON")
           r == RadioModeSet(h, a, "OFF")
<1>1. PICK t \in Fails : Received(t)
  BY DEF ConnectionFailed
<1>2. /\ Head(events).ap = a
      /\ panel' = panel \/ panel' = r
      /\ scanPending' = scanPending /\ connected_AP' \in {NoAP, connected_AP} /\ wifi' = wifi
      /\ link' = link \/ (link.ap = a /\ link' = [link EXCEPT !.st = "DISCONNECTING"])
  BY DEF ConnectionFailed
<1>3. Sound(panel, scanPending) /\ panel \in Panels /\ mainView \in BOOLEAN /\ link \in Links
  BY IInvFacts DEF OthersOK
<1>4. OthersOK'
  BY IInvFacts DEF ConnectionFailed, OthersOK
<1>5. "ON" \in HeaderModes \ {"OFF", "DEACTIVATING"} /\ "OFF" \in RadioModes
  BY DEF HeaderModes, IdleModes, RadioModes
<1>6. h \in Panels /\ RowsMoved(panel, h) /\ NoNewMark(panel, h) /\ h.header = "ON"
  BY <1>3, <1>5, HeaderModeSetFacts, SameRowsMoved, SameRowsFacts
<1> HIDE DEF h
<1>7. /\ r \in Panels /\ RowsMoved(h, r) /\ r.header = h.header /\ r.rows[a] \in {"OFF", "absent"}
      /\ \A b \in AP : b # a => r.rows[b] = h.rows[b]
  BY <1>5, <1>6, RadioModeSetFacts
<1> HIDE DEF r
<1>8. RowsMoved(panel, r) /\ NoNewMark(panel, r)
  BY <1>6, <1>7, RowsMovedTransitive DEF NoNewMark
<1>9. Sound(r, scanPending) /\ SameTitle(panel, r)
  BY <1>3, <1>6, <1>7, <1>8, MovedSound
<1>10. Sound(panel', scanPending') /\ SameTitle(panel, panel') /\ NoNewMark(panel, panel')
  BY <1>2, <1>3, <1>8, <1>9 DEF SameTitle, NoNewMark
<1>11. link' \in Links /\ (link' # Idle => link # Idle) /\ link'.ap = link.ap
       /\ (link' = link \/ link'.st = "DISCONNECTING")
  <2>1. CASE link' = link
    BY <1>3, <2>1
  <2>2. CASE link.ap = a /\ link' = [link EXCEPT !.st = "DISCONNECTING"]
    <3>1. link # Idle
      BY <2>2, ApAssumption DEF Idle
    <3>2. QED
      BY <1>3, <2>2, <3>1 DEF Links
  <2>3. QED
    BY <1>2, <2>1, <2>2
<1>12. \A b \in AP : LinkedTo(b) => LinkedTo(b)'
  BY <1>11 DEF LinkedTo
<1>13. Marked(a)' => Marked(a)
  BY <1>2, <1>10, ApAssumption DEF Marked, NoNewMark
<1>14. t \notin {"POWER_ON_OK", "POWER_OFF_OK", "POWER_ON_FAILED", "CONNECTION_OK", "DISCONNECTION"}
  BY DEF Fails
<1>15. QED
  BY <1>1, <1>2, <1>4, <1>10, <1>11, <1>12, <1>13, <1>14, LinkMessageStep DEF NoNewMark

LEMMA DisconnectionStep ==
    ASSUME IInv, NEW a \in AP, Disconnection(a)
    PROVE  IInv'
<1> DEFINE s == RadioModeSet(panel, a, "OFF")
           r == HeaderModeSet(s, "ON")
<1>1. PICK t \in {"DISCONNECTION", "ASSOCIATION_FAILURE"} : Received(t)
  BY DEF Disconnection
<1>2. /\ Head(events).ap = a /\ Head(events).type = t
      /\ panel' = IF a \notin Listed(panel) THEN panel ELSE r
      /\ scanPending' = scanPending /\ UNCHANGED <<wifi, link>>
      /\ connected_AP' = IF t = "DISCONNECTION" /\ connected_AP = a THEN NoAP ELSE connected_AP
  BY <1>1 DEF Disconnection, Received
<1>3. Sound(panel, scanPending) /\ panel \in Panels /\ mainView \in BOOLEAN /\ link \in Links
  BY IInvFacts DEF OthersOK
<1>4. OthersOK'
  BY IInvFacts DEF Disconnection, OthersOK
<1>5. "ON" \in HeaderModes /\ "OFF" \in RadioModes
  BY DEF HeaderModes, IdleModes, RadioModes
<1>6. /\ s \in Panels /\ RowsMoved(panel, s) /\ s.rows[a] \in {"OFF", "absent"}
      /\ \A b \in AP : b # a => s.rows[b] = panel.rows[b]
  BY <1>3, <1>5, RadioModeSetFacts
<1> HIDE DEF s
<1>7. r \in Panels /\ RowsMoved(s, r) /\ SameRows(s, r) /\ r.header = "ON"
  BY <1>3, <1>5, <1>6, HeaderModeSetFacts, SameRowsMoved
<1> HIDE DEF r
<1>8. RowsMoved(panel, r)
  BY <1>6, <1>7, RowsMovedTransitive
<1>9. Sound(r, scanPending) /\ SameTitle(panel, r)
  BY <1>3, <1>7, <1>8, MovedSound
<1>10. r.rows[a] # "CONNECTED" /\ \A b \in AP : b # a => r.rows[b] = panel.rows[b]
  BY <1>6, <1>7 DEF SameRows
<1>11. a \notin Listed(panel) => panel.rows[a] # "CONNECTED"
  BY DEF Listed
<1>12. /\ Sound(panel', scanPending') /\ SameTitle(panel, panel')
       /\ panel'.rows[a] # "CONNECTED"
       /\ \A b \in AP : b # a => (panel'.rows[b] = "CONNECTED" => panel.rows[b] = "CONNECTED")
  BY <1>2, <1>3, <1>9, <1>10, <1>11 DEF SameTitle
<1>13. \A b \in AP : LinkedTo(b) => LinkedTo(b)'
  BY <1>2 DEF LinkedTo
<1>14. (Marked(a)' => Marked(a)) /\ (t = "DISCONNECTION" => ~Marked(a)')
  BY <1>2, <1>12, ApAssumption DEF Marked
<1>15. connected_AP' \in {NoAP, a, connected_AP} /\ wifi' = wifi /\ link' \in Links
       /\ (link' # Idle => link # Idle)
  BY <1>2, <1>3
<1>16. QED
  BY <1>1, <1>2, <1>4, <1>12, <1>13, <1>14, <1>15, LinkMessageStep

-----------------------------------------------------------------------------
(* The theorems.                                                            *)

LEMMA Stutter ==
    ASSUME IInv, UNCHANGED vars
    PROVE  IInv'
<1>1. UNCHANGED gadget /\ UNCHANGED <<wifi, link, events>>
  BY DEF vars, gadget, daemon
<1>2. link' \in Links /\ LinkNeedsRadio' /\ \A a \in AP : LinkedTo(a) => LinkedTo(a)'
  BY <1>1, IInvFacts DEF LinkNeedsRadio, LinkedTo
<1>3. QED
  BY <1>1, <1>2, Still, SilentLinkStep

LEMMA IInvStep == IInv /\ [Next]_vars => IInv'
<1>1. SUFFICES ASSUME IInv, [Next]_vars
               PROVE  IInv'
  OBVIOUS
<1>2. CASE User
  BY <1>1, <1>2, PowerOnStep, PowerOffStep, ScanKeyStep, ConnectStep, DisconnectStep,
     PasswordOkStep, ViewStep DEF User
<1>3. CASE Environment
  BY <1>1, <1>3, AutoJoinStep, AssociatedStep, AnsweredStep, DroppedStep, RadioSwitchedStep,
     PowerOnFailsStep DEF Environment
<1>4. CASE Delivery
  BY <1>1, <1>4, PowerOnOkStep, PowerOnOkNoScanStep, PowerOffOkStep, PowerOnFailedStep,
     ConnectingStep, ConnectionOkStep, ConnectionFailedStep, DisconnectionStep DEF Delivery
<1>5. CASE DeferredRefresh \/ ScanOk \/ ScanResultInd
  BY <1>1, <1>5, DeferredRefreshStep, ScanOkStep, ScanResultIndStep
<1>6. CASE UNCHANGED vars
  BY <1>1, <1>6, Stutter
<1>7. QED
  BY <1>1, <1>2, <1>3, <1>4, <1>5, <1>6 DEF Next

\* IInv is inductive: what the handlers of viewer_manager.c and wifi-wlan-callbacks.c
\* keep between the panel, the daemon's link and the messages on their way.
THEOREM Invariance == Spec => []IInv
BY InitIInv, IInvStep, PTL DEF Spec

\* The header, the rows and the link keep to their enums, for any set of profiles and
\* any number of messages on their way.
THEOREM TypeCorrect == Spec => []TypeOK
<1>1. IInv => TypeOK
  BY DEF IInv
<1>2. QED
  BY <1>1, Invariance, PTL

\* When nothing is under way, no mark is without its link.
LEMMA QuietMarks == IInv /\ Quiet => \A a \in AP : Marked(a) => link.ap = a
<1>1. SUFFICES ASSUME IInv, Quiet, NEW a \in AP, Marked(a), link.ap # a
               PROVE  FALSE
  OBVIOUS
<1>2. ~LinkedTo(a)
  BY <1>1 DEF LinkedTo
<1>3. EndsMark(events, a)
  BY <1>1, <1>2 DEF IInv, MarksEnd
<1>4. Len(events) = 0
  BY <1>1 DEF Quiet
<1>5. \A j \in 1..Len(events) : FALSE
  BY <1>4
<1>6. QED
  BY <1>3, <1>5 DEF EndsMark

\* When the messages have been handled, a row that says CONNECTED is the row of the AP
\* the daemon is connected to, whatever redraws, moves of rows and messages came
\* between (wifi-wlan-callbacks.c, viewer_manager_refresh).
THEOREM RowsAreRight == Spec => []RowsTellTheLink
<1>1. IInv => RowsTellTheLink
  BY QuietMarks DEF RowsTellTheLink, Marked
<1>2. QED
  BY <1>1, Invariance, PTL

\* And wlan_manager's connected AP is none or that AP (connman-response.c).
THEOREM ConnectedApIsRight == Spec => []ConnectedApIsLinked
<1>1. IInv => ConnectedApIsLinked
  BY QuietMarks DEF IInv, TypeOK, ConnectedApIsLinked, Marked
<1>2. QED
  BY <1>1, Invariance, PTL

\* The hidden-network button comes and goes with the title that grouptitle points to: a
\* message that power is on never finds rows without it (viewer_manager_show).  That no
\* older title is left on the screen is not so: see NoStrayTitle.
THEOREM ButtonComesWithTitle == Spec => []ButtonWithTitle
<1>1. IInv => ButtonWithTitle
  BY DEF IInv
<1>2. QED
  BY <1>1, Invariance, PTL

\* A header that is OFF has no AP under it, also when POWER_ON_NOT_SUPPORTED or
\* POWER_ON_RESTRICTED has set it and nothing has cleared the list just then.
THEOREM OffHasNoAp == Spec => []OffIsEmpty
<1>1. IInv => OffIsEmpty
  BY DEF IInv, PoweringIsEmpty, OffIsEmpty
<1>2. QED
  BY <1>1, Invariance, PTL

\* When no scan is awaited every row can be tapped, also when SCAN_OK was ignored
\* because the header was off (VIEWER_WINSET_SEARCHING disables the rows).
THEOREM RowsAreEnabledAgain == Spec => []RowsComeBack
<1>1. IInv => RowsComeBack
  BY DEF IInv
<1>2. QED
  BY <1>1, Invariance, PTL

=============================================================================
