-------------------------- MODULE SchedulerProofs --------------------------
(***************************************************************************)
(* For any number of tasks, registrations and instants: a task never runs  *)
(* beside itself and no slot is run twice, unless the entry of the task    *)
(* was changed while it ran, and the timer is armed in time for what is    *)
(* due.                                                                    *)
(*                                                                         *)
(* None of the three is inductive.  SchedInv adds what the code relies on  *)
(* between two steps of a tick: the clock values it has stored lie behind, *)
(* the entry of a running handler is marked active and is the only one of  *)
(* its id, an attempt that is recorded but not started finds nothing       *)
(* running, and every slot that was run is remembered by the entry that is *)
(* registered now.                                                         *)
(*                                                                         *)
(* The proof has three parts: what registration and the changes of an entry*)
(* may do (ChangeShape, shared by all six of them), what a tick does with  *)
(* the entry it visits (VisitKeeps) and what the end of a handler does     *)
(* (LandKeeps).  That the timer is in time is the arithmetic of slots,     *)
(* floor and cap (NextDueMoves, WakeFacts).                                *)
(***************************************************************************)
EXTENDS Scheduler, FiniteSetTheorems, WellFoundedInduction, TLAPS

(* The registered entries. *)
Live == {order[i] : i \in DOMAIN order}

EntryType == [state : {"idle", "active", "paused", "complete"}, lastRun : Nat, when : Nat]
TickType == [pc : {"none", "scan", "attempt", "recorded", "overdue", "rearm"},
             at : Nat, seen : SUBSET Obj, obj : Obj \cup {NoObj}]

(* A tick that attempts something knows what. *)
TickHolds == tick.pc \in {"attempt", "recorded", "overdue"} => tick.obj \in Obj

(* What was written down of the past lies in the past, and a slot that is done is not      *)
(* younger than the last beginning of its task or the journal.                             *)
Clocks ==
  /\ tick.at <= now
  /\ \A id \in Id : began[id] <= now
  /\ \A o \in Obj : slot[o] <= began[o[1]]
  /\ \A d \in done : d[2] <= began[d[1]] /\ d[2] <= journal[d[1]]

(* A handler runs for the one entry of its id, which is active and has spent its slot.     *)
FlightsHeld ==
  \A o \in Obj :
    o[1] \notin meddled /\ Flights(o) > 0 =>
      /\ Flights(o) = 1
      /\ entry[o].state = "active"
      /\ o[1] \in Slotted => slot[o] <= entry[o].lastRun
      /\ \A p \in Live : p[1] = o[1] => p = o
      /\ \A p \in Obj : p[1] = o[1] /\ Flights(p) > 0 => p = o

(* An attempt that is recorded and about to start finds nothing of its task running.       *)
RecordedQuiet ==
  tick.pc = "recorded" /\ tick.obj[1] \notin meddled =>
    \A o \in Obj : o[1] = tick.obj[1] => Flights(o) = 0

(* The registered entry remembers every slot of its id that was run.                       *)
SlotsSpent ==
  \A d \in done : d[1] \notin meddled => \A o \in Live : o[1] = d[1] => d[2] <= entry[o].lastRun

SchedInv ==
  /\ TypeOK /\ TickHolds /\ Clocks /\ FlightsHeld /\ RecordedQuiet /\ SlotsSpent /\ SlotOnce
  /\ WakesInTime

-----------------------------------------------------------------------------
(* Numbers *)

LEMMA MinOf ==
  ASSUME NEW S, S \subseteq Nat, S # {}
  PROVE  Min(S) \in S /\ \A y \in S : Min(S) <= y
<1> DEFINE R == {ss \in Nat \X Nat : ss[1] < ss[2]}
<1>1. IsWellFoundedOn(R, Nat)
  BY NatLessThanWellFounded DEF OpToRel
<1>2. \A x, y \in Nat : <<y, x>> \notin R => x <= y
  <2> SUFFICES ASSUME NEW x \in Nat, NEW y \in Nat, ~(x <= y) PROVE <<y, x>> \in R
    OBVIOUS
  <2>1. y < x
    OBVIOUS
  <2> QED
    BY <2>1
<1> HIDE DEF R
<1>3. PICK x \in S : \A y \in S : ~(<<y, x>> \in R)
  BY <1>1, WFMin
<1>4. \A y \in S : x <= y
  BY <1>2, <1>3
<1> QED
  BY <1>4 DEF Min

LEMMA MaxOf ==
  ASSUME NEW a \in Int, NEW b \in Int
  PROVE  Max({a, b}) = IF a >= b THEN a ELSE b
BY DEF Max

LEMMA Base ==
  ASSUME NEW t \in Nat
  PROVE  BaseSlot(t) \in Nat /\ BaseSlot(t) <= t /\ t < BaseSlot(t) + Period
<1>1. t \div Period \in Nat
  BY SchedulerAssumption
<1>2. t = (t \div Period) * Period + (t % Period) /\ t % Period \in 0 .. Period - 1
  BY SchedulerAssumption
<1> QED
  BY <1>1, <1>2, SchedulerAssumption DEF BaseSlot

(* From one instant to the next the slot stays or the next one begins. *)
LEMMA BaseNext ==
  ASSUME NEW t \in Nat
  PROVE  BaseSlot(t + 1) = BaseSlot(t) \/ (BaseSlot(t + 1) = BaseSlot(t) + Period /\ BaseSlot(t + 1) = t + 1)
<1>1. t \div Period \in Nat /\ (t + 1) \div Period \in Nat
  BY SchedulerAssumption
<1>2. (t + 1) \div Period = t \div Period \/ (t + 1) \div Period = (t \div Period) + 1
  BY <1>1, SchedulerAssumption
<1>3. CASE (t + 1) \div Period = t \div Period
  <2>1. BaseSlot(t + 1) = BaseSlot(t)
    BY <1>3 DEF BaseSlot
  <2> QED
    BY <2>1
<1>4. CASE (t + 1) \div Period = (t \div Period) + 1
  <2>1. \A q \in Nat : (q + 1) * Period = q * Period + Period
    BY SchedulerAssumption
  <2>2. BaseSlot(t + 1) = BaseSlot(t) + Period
    BY <1>1, <1>4, <2>1 DEF BaseSlot
  <2>3. BaseSlot(t + 1) <= t + 1
    BY Base
  <2> QED
    BY <2>2, <2>3, Base, SchedulerAssumption
<1> QED
  BY <1>2, <1>3, <1>4

LEMMA SlotFacts ==
  ASSUME NEW t \in Nat
  PROVE  Slot(t) \in Nat /\ NextSlot(t) \in Nat /\ t < NextSlot(t)
BY Base, SchedulerAssumption DEF Slot, NextSlot

(* What is due next is not due earlier an instant later. *)
LEMMA NextDueMoves ==
  ASSUME NEW o \in Obj, NEW e \in EntryType, NEW t \in Nat
  PROVE  NextDue(o, e, t) \in Nat /\ NextDue(o, e, t) <= NextDue(o, e, t + 1)
<1>1. o[1] \in Every \/ o[1] \in Slotted \/ o[1] \in OneShot
  BY DEF Obj, Id
<1>2. e.lastRun \in Nat /\ e.when \in Nat
  BY DEF EntryType
<1>3. CASE e.state # "idle"
  <2>1. NextDue(o, e, t) = Never /\ NextDue(o, e, t + 1) = Never
    BY <1>3 DEF NextDue
  <2> QED
    BY <2>1, SchedulerAssumption DEF Never
<1>4. CASE e.state = "idle" /\ o[1] \in Every
  <2>1. \A u : NextDue(o, e, u) = IF e.lastRun = 0 THEN u ELSE e.lastRun + e.when
    BY <1>4, SchedulerAssumption DEF NextDue
  <2> QED
    BY <1>2, <2>1
<1>5. CASE e.state = "idle" /\ o[1] \in OneShot
  <2>1. \A u : NextDue(o, e, u) = e.when
    BY <1>5, SchedulerAssumption DEF NextDue
  <2> QED
    BY <1>2, <2>1
<1>6. CASE e.state = "idle" /\ o[1] \in Slotted
  <2>1. \A u : NextDue(o, e, u) = IF SlotDue(e.lastRun, u) THEN u ELSE NextSlot(u)
    BY <1>6, SchedulerAssumption DEF NextDue
  <2>2. t + 1 \in Nat
    OBVIOUS
  <2>3. Slot(t) \in Nat /\ NextSlot(t) \in Nat /\ t < NextSlot(t)
    BY SlotFacts
  <2>4. Slot(t + 1) \in Nat /\ NextSlot(t + 1) \in Nat /\ t + 1 < NextSlot(t + 1)
    BY <2>2, SlotFacts
  <2>5. BaseSlot(t) \in Nat /\ BaseSlot(t) <= t /\ t < BaseSlot(t) + Period
    BY Base
  <2>6. BaseSlot(t + 1) \in Nat
    BY <2>2, Base
  <2>7. ~SlotDue(e.lastRun, t) => NextSlot(t) <= NextDue(o, e, t + 1)
    <3>1. CASE BaseSlot(t + 1) = BaseSlot(t)
      BY <1>2, <2>1, <2>3, <2>4, <2>5, <3>1, SchedulerAssumption DEF SlotDue, Slot, NextSlot
    <3>2. CASE BaseSlot(t + 1) = BaseSlot(t) + Period /\ BaseSlot(t + 1) = t + 1
      BY <1>2, <2>1, <2>3, <2>4, <2>5, <3>2, SchedulerAssumption DEF SlotDue, Slot, NextSlot
    <3> QED
      BY <3>1, <3>2, BaseNext
  <2> QED
    BY <2>1, <2>3, <2>4, <2>7
<1> QED
  BY <1>1, <1>3, <1>4, <1>5, <1>6

-----------------------------------------------------------------------------
(* The timer *)

(* The instant a wake-up for an entry may be put off to. *)
Latest(o, e) == Max({NextDue(o, e, now), Cap(now + Floor)})

LEMMA LatestIs ==
  ASSUME now \in 1 .. Horizon, NEW o \in Obj, NEW e \in EntryType
  PROVE  /\ Latest(o, e) \in Nat
         /\ NextDue(o, e, now) <= Latest(o, e) /\ Cap(now + Floor) <= Latest(o, e)
<1>1. NextDue(o, e, now) \in Nat
  BY NextDueMoves
<1>2. Cap(now + Floor) \in Nat
  BY SchedulerAssumption DEF Cap
<1> QED
  BY <1>1, <1>2, MaxOf DEF Latest

LEMMA WakeFacts ==
  ASSUME now \in 1 .. Horizon, NEW ord \in Seq(Obj), NEW es \in [Obj -> EntryType]
  PROVE  /\ Wake(ord, es) \in 1 .. Never
         /\ \A i \in DOMAIN ord : Wake(ord, es) <= Latest(ord[i], es[ord[i]])
<1> DEFINE S == {now + Ceiling} \cup {NextDue(ord[i], es[ord[i]], now) : i \in DOMAIN ord}
           m == Min(S)
<1>1. \A i \in DOMAIN ord : ord[i] \in Obj /\ es[ord[i]] \in EntryType
  OBVIOUS
<1>2. now \in Nat /\ now + Ceiling \in Nat /\ now + Floor \in Nat /\ Horizon \in Nat
  BY SchedulerAssumption
<1>3. S \subseteq Nat /\ S # {}
  BY <1>1, <1>2, NextDueMoves
<1>4. m \in Nat /\ \A y \in S : m <= y
  BY <1>3, MinOf
<1>5. \A i \in DOMAIN ord : m <= NextDue(ord[i], es[ord[i]], now)
  BY <1>4
<1>6. Wake(ord, es) = Cap(Max({now + Floor, m}))
  BY DEF Wake
<1> HIDE DEF m
<1>7. Wake(ord, es) = Cap(IF now + Floor >= m THEN now + Floor ELSE m)
  BY <1>2, <1>4, <1>6, MaxOf
<1>8. Wake(ord, es) \in 1 .. Never
  BY <1>2, <1>4, <1>7, SchedulerAssumption DEF Cap, Never
<1>9. ASSUME NEW i \in DOMAIN ord PROVE Wake(ord, es) <= Latest(ord[i], es[ord[i]])
  <2>1. PICK l \in Nat : l = Latest(ord[i], es[ord[i]])
    BY <1>1, <1>9, LatestIs
  <2>2. PICK n \in Nat : n = NextDue(ord[i], es[ord[i]], now)
    BY <1>1, <1>2, <1>9, NextDueMoves
  <2>3. n <= l /\ Cap(now + Floor) <= l
    BY <1>1, <1>9, <2>1, <2>2, LatestIs
  <2>4. m <= n
    BY <1>5, <1>9, <2>2
  <2>5. Wake(ord, es) <= l
    BY <1>2, <1>4, <1>7, <2>3, <2>4, SchedulerAssumption DEF Cap
  <2> QED
    BY <2>1, <2>5
<1> QED
  BY <1>8, <1>9

LEMMA ArmsFacts ==
  ASSUME TypeOK, NEW ord \in Seq(Obj), NEW es \in [Obj -> EntryType], Arms(ord, es)
  PROVE  /\ wakeAt' \in 1 .. Never
         /\ mode = "running" /\ tick.pc \in {"none", "rearm"} =>
              \A i \in DOMAIN ord : wakeAt' <= Latest(ord[i], es[ord[i]])
BY WakeFacts DEF Arms, TypeOK

LEMMA RequestsWakeFacts ==
  ASSUME TypeOK, NEW ord \in Seq(Obj), NEW es \in [Obj -> EntryType], NEW o \in Obj,
         RequestsWake(ord, es, o),
         \A i \in DOMAIN ord :
           ord[i] = o \/ (mode = "running" /\ tick.pc = "none" => wakeAt <= Latest(ord[i], es[ord[i]]))
  PROVE  /\ wakeAt' \in 1 .. Never
         /\ mode = "running" /\ tick.pc = "none" =>
              \A i \in DOMAIN ord : wakeAt' <= Latest(ord[i], es[ord[i]])
<1>1. CASE wakeAt <= NextDue(o, es[o], now)
  <2>1. wakeAt' = wakeAt /\ wakeAt \in 1 .. Never /\ wakeAt \in Nat
    BY <1>1, SchedulerAssumption DEF RequestsWake, TypeOK, Never
  <2>2. PICK l \in Nat : l = Latest(o, es[o])
    BY LatestIs DEF TypeOK
  <2>3. PICK n \in Nat : n = NextDue(o, es[o], now)
    BY NextDueMoves DEF TypeOK
  <2>4. n <= l
    BY <2>2, <2>3, LatestIs DEF TypeOK
  <2>5. wakeAt <= l
    BY <1>1, <2>1, <2>3, <2>4
  <2> QED
    BY <2>1, <2>2, <2>5
<1>2. CASE ~(wakeAt <= NextDue(o, es[o], now))
  BY <1>2, ArmsFacts DEF RequestsWake
<1> QED
  BY <1>1, <1>2

-----------------------------------------------------------------------------
(* The Map of tasks *)

Once(ord) == \A i, j \in DOMAIN ord : ord[i][1] = ord[j][1] => i = j

LEMMA RemoveAtIs ==
  ASSUME NEW s \in Seq(Obj), NEW i \in DOMAIN s
  PROVE  /\ RemoveAt(s, i) \in Seq(Obj)
         /\ Len(RemoveAt(s, i)) = Len(s) - 1
         /\ \A k \in 1 .. Len(s) - 1 : RemoveAt(s, i)[k] = IF k < i THEN s[k] ELSE s[k + 1]
<1>1. i \in 1 .. Len(s) /\ Len(s) \in Nat
  OBVIOUS
<1> DEFINE a == SubSeq(s, 1, i - 1)
           b == SubSeq(s, i + 1, Len(s))
<1>2. a \in Seq(Obj) /\ Len(a) = i - 1 /\ \A k \in 1 .. i - 1 : a[k] = s[k]
  BY <1>1
<1>3. b \in Seq(Obj) /\ Len(b) = Len(s) - i /\ \A k \in 1 .. Len(s) - i : b[k] = s[i + k]
  BY <1>1
<1> HIDE DEF a, b
<1>4. /\ a \o b \in Seq(Obj) /\ Len(a \o b) = Len(s) - 1
      /\ \A k \in 1 .. Len(s) - 1 : (a \o b)[k] = IF k <= i - 1 THEN a[k] ELSE b[k - (i - 1)]
  BY <1>1, <1>2, <1>3
<1>5. \A k \in 1 .. Len(s) - 1 : (a \o b)[k] = IF k < i THEN s[k] ELSE s[k + 1]
  <2> SUFFICES ASSUME NEW k \in 1 .. Len(s) - 1
               PROVE  (a \o b)[k] = IF k < i THEN s[k] ELSE s[k + 1]
    OBVIOUS
  <2>1. CASE k < i
    BY <1>1, <1>2, <1>4, <2>1
  <2>2. CASE ~(k < i)
    <3>1. (a \o b)[k] = b[k - (i - 1)]
      BY <1>1, <1>4, <2>2
    <3>2. k - (i - 1) \in 1 .. Len(s) - i /\ i + (k - (i - 1)) = k + 1
      BY <1>1, <2>2
    <3>3. b[k - (i - 1)] = s[i + (k - (i - 1))]
      BY <1>3, <3>2
    <3> QED
      BY <2>2, <3>1, <3>2, <3>3
  <2> QED
    BY <2>1, <2>2
<1>6. RemoveAt(s, i) = a \o b
  BY DEF RemoveAt, a, b
<1> QED
  BY <1>4, <1>5, <1>6

(* Removing an id leaves the others, and none of it. *)
LEMMA RemovedOnce ==
  ASSUME NEW s \in Seq(Obj), Once(s), NEW i \in DOMAIN s
  PROVE  /\ Once(RemoveAt(s, i))
         /\ \A k \in DOMAIN RemoveAt(s, i) :
              /\ RemoveAt(s, i)[k][1] # s[i][1]
              /\ \E j \in DOMAIN s : RemoveAt(s, i)[k] = s[j]
<1> DEFINE r == RemoveAt(s, i)
           At(k) == IF k < i THEN k ELSE k + 1
<1>1. i \in 1 .. Len(s) /\ Len(s) \in Nat /\ DOMAIN s = 1 .. Len(s)
  OBVIOUS
<1>2. /\ r \in Seq(Obj) /\ Len(r) = Len(s) - 1
      /\ \A k \in 1 .. Len(s) - 1 : r[k] = IF k < i THEN s[k] ELSE s[k + 1]
  BY RemoveAtIs
<1> HIDE DEF r
<1>3. DOMAIN r = 1 .. Len(s) - 1
  BY <1>1, <1>2
<1>4. \A k \in DOMAIN r : At(k) \in DOMAIN s /\ At(k) # i /\ r[k] = s[At(k)]
  <2> SUFFICES ASSUME NEW k \in 1 .. Len(s) - 1
               PROVE  At(k) \in DOMAIN s /\ At(k) # i /\ r[k] = s[At(k)]
    BY <1>3
  <2>1. CASE k < i
    BY <1>1, <1>2, <2>1
  <2>2. CASE ~(k < i)
    BY <1>1, <1>2, <2>2
  <2> QED
    BY <2>1, <2>2
<1>5. \A k, l \in DOMAIN r : At(k) = At(l) => k = l
  BY <1>1, <1>3
<1> HIDE DEF At
<1>6. Once(r)
  BY <1>4, <1>5 DEF Once
<1>7. \A k \in DOMAIN r : r[k][1] # s[i][1] /\ \E j \in DOMAIN s : r[k] = s[j]
  BY <1>4 DEF Once
<1> QED
  BY <1>6, <1>7 DEF r

LEMMA AppendOnce ==
  ASSUME NEW s \in Seq(Obj), Once(s), NEW o \in Obj, \A k \in DOMAIN s : s[k][1] # o[1]
  PROVE  /\ Append(s, o) \in Seq(Obj) /\ Once(Append(s, o))
         /\ \A k \in DOMAIN Append(s, o) :
              Append(s, o)[k] = o \/ \E j \in DOMAIN s : Append(s, o)[k] = s[j]
<1> DEFINE r == Append(s, o)
<1>1. r \in Seq(Obj) /\ Len(s) \in Nat /\ DOMAIN s = 1 .. Len(s)
  OBVIOUS
<1>2. DOMAIN r = 1 .. Len(s) + 1 /\ r[Len(s) + 1] = o /\ \A k \in 1 .. Len(s) : r[k] = s[k]
  OBVIOUS
<1> HIDE DEF r
<1>3. Once(r)
  <2> SUFFICES ASSUME NEW k \in DOMAIN r, NEW l \in DOMAIN r, r[k][1] = r[l][1] PROVE k = l
    BY DEF Once
  <2>1. CASE k \in 1 .. Len(s) /\ l \in 1 .. Len(s)
    BY <1>1, <1>2, <2>1 DEF Once
  <2>2. CASE k = Len(s) + 1 \/ l = Len(s) + 1
    BY <1>1, <1>2, <2>2
  <2> QED
    BY <1>1, <1>2, <2>1, <2>2
<1>4. \A k \in DOMAIN r : r[k] = o \/ \E j \in DOMAIN s : r[k] = s[j]
  BY <1>1, <1>2
<1> QED
  BY <1>1, <1>3, <1>4 DEF r

LEMMA LiveObj ==
  ASSUME TypeOK
  PROVE  Live \subseteq Obj
<1>1. order \in Seq(Obj)
  BY DEF TypeOK
<1> QED
  BY <1>1 DEF Live

LEMMA NoObjIsNone == NoObj \notin Obj
BY DEF NoObj, Obj

(* The entry that is registered under an id. *)
LEMMA CurrentIs ==
  ASSUME TypeOK, NEW id \in Id
  PROVE  /\ Current(id) = NoObj => \A p \in Live : p[1] # id
         /\ Current(id) # NoObj =>
              /\ Position(id) \in DOMAIN order /\ order[Position(id)] = Current(id)
              /\ Current(id) \in Obj /\ Current(id) \in Live /\ Current(id)[1] = id
              /\ \A p \in Live : p[1] = id => p = Current(id)
<1>1. order \in Seq(Obj) /\ Once(order)
  BY DEF TypeOK, Once
<1>2. \A i \in DOMAIN order : order[i] \in Obj
  BY <1>1
<1>3. CASE Registered(id) = {}
  BY <1>3 DEF Registered, Current, Live
<1>4. CASE Registered(id) # {}
  <2>1. Position(id) \in Registered(id)
    BY <1>4 DEF Position
  <2>2. Position(id) \in DOMAIN order /\ order[Position(id)][1] = id /\ Current(id) = order[Position(id)]
    BY <1>4, <2>1 DEF Registered, Current
  <2>3. Current(id) \in Obj /\ Current(id) \in Live
    BY <1>2, <2>2 DEF Live
  <2>4. \A p \in Live : p[1] = id => p = Current(id)
    BY <1>1, <2>2 DEF Live, Once
  <2> QED
    BY <2>2, <2>3, <2>4, NoObjIsNone
<1> QED
  BY <1>3, <1>4

-----------------------------------------------------------------------------
(* Registration and changes *)

(* What a change of id does: it leaves the other ids alone, and what it writes for a
   reflection is no earlier than the journal. *)
ChangeShape(id) ==
  /\ Changes(id)
  /\ order' \in Seq(Obj) /\ Once(order')
  /\ entry' \in [Obj -> EntryType]
  /\ wakeAt' \in 1 .. Never
  /\ \A p \in Live' : p[1] # id => p \in Live
  /\ \A p \in Obj : p[1] # id => entry'[p] = entry[p]
  /\ id \in Slotted =>
       \A p \in Live' : p[1] = id =>
         \/ entry'[p].lastRun = now
         \/ entry'[p].lastRun = journal[id]
         \/ p \in Live /\ entry'[p].lastRun = entry[p].lastRun
  /\ mode = "running" /\ tick.pc = "none" =>
       \A i \in DOMAIN order' : wakeAt' <= Latest(order'[i], entry'[order'[i]])

LEMMA ChangeKeeps ==
  ASSUME SchedInv, NEW id \in Id, ChangeShape(id)
  PROVE  SchedInv'
<1>1. TypeOK /\ TickHolds /\ Clocks /\ FlightsHeld /\ RecordedQuiet /\ SlotsSpent /\ SlotOnce
  BY DEF SchedInv
<1>2. /\ edits < MaxEdits /\ edits' = edits + 1
      /\ UNCHANGED <<now, mode, tick, loose, overdue, began, journal, slot, done, again>>
      /\ meddled' = IF Busy(id) THEN meddled \cup {id} ELSE meddled
  BY DEF ChangeShape, Changes
<1>3. TypeOK'
  <2>1. edits' \in 0 .. MaxEdits
    BY <1>1, <1>2, SchedulerAssumption DEF TypeOK
  <2>2. meddled' \subseteq Id
    BY <1>1, <1>2 DEF TypeOK
  <2>3. order' \in Seq(Obj) /\ (\A i, j \in DOMAIN order' : order'[i][1] = order'[j][1] => i = j)
    BY DEF ChangeShape, Once
  <2>4. entry' \in [Obj -> EntryType] /\ wakeAt' \in 1 .. Never
    BY DEF ChangeShape
  <2> QED
    BY <1>1, <1>2, <2>1, <2>2, <2>3, <2>4 DEF TypeOK, EntryType
<1>4. TickHolds' /\ Clocks'
  BY <1>1, <1>2 DEF TickHolds, Clocks
<1>5. \A o \in Obj : Flights(o)' = Flights(o)
  BY <1>2 DEF Flights, Awaited
<1>6. meddled \subseteq meddled'
  BY <1>2
<1>7. \A o \in Obj : o[1] = id /\ o[1] \notin meddled' => ~(Flights(o) > 0)
  BY <1>2 DEF Busy
<1>8. FlightsHeld'
  <2> SUFFICES ASSUME NEW o \in Obj, o[1] \notin meddled', Flights(o)' > 0
               PROVE  /\ Flights(o)' = 1
                      /\ entry'[o].state = "active"
                      /\ o[1] \in Slotted => slot'[o] <= entry'[o].lastRun
                      /\ \A p \in Live' : p[1] = o[1] => p = o
                      /\ \A p \in Obj : p[1] = o[1] /\ Flights(p)' > 0 => p = o
    BY DEF FlightsHeld
  <2>1. Flights(o) > 0 /\ o[1] \notin meddled /\ o[1] # id
    BY <1>5, <1>6, <1>7
  <2>2. /\ Flights(o) = 1 /\ entry[o].state = "active"
        /\ o[1] \in Slotted => slot[o] <= entry[o].lastRun
        /\ \A p \in Live : p[1] = o[1] => p = o
        /\ \A p \in Obj : p[1] = o[1] /\ Flights(p) > 0 => p = o
    BY <1>1, <2>1 DEF FlightsHeld
  <2>3. entry'[o] = entry[o] /\ slot' = slot
    BY <1>2, <2>1 DEF ChangeShape
  <2>4. \A p \in Live' : p[1] = o[1] => p = o
    BY <2>1, <2>2 DEF ChangeShape
  <2> QED
    BY <1>5, <2>2, <2>3, <2>4
<1>9. RecordedQuiet'
  BY <1>1, <1>2, <1>5, <1>6 DEF RecordedQuiet
<1>10. SlotsSpent'
  <2> SUFFICES ASSUME NEW d \in done, d[1] \notin meddled', NEW o \in Live', o[1] = d[1]
               PROVE  d[2] <= entry'[o].lastRun
    BY <1>2 DEF SlotsSpent
  <2>1. d[1] \in Slotted /\ d[2] \in Nat /\ d[1] \notin meddled /\ d[1] \in Id
    BY <1>1, <1>6 DEF TypeOK, Id
  <2>2. o \in Obj
    BY DEF Live, ChangeShape
  <2>3. o \in Live => d[2] <= entry[o].lastRun
    BY <1>1, <2>1 DEF SlotsSpent
  <2>4. CASE o[1] # id
    BY <2>2, <2>3, <2>4 DEF ChangeShape
  <2>5. CASE o[1] = id
    <3>1. \/ entry'[o].lastRun = now \/ entry'[o].lastRun = journal[id]
          \/ (o \in Live /\ entry'[o].lastRun = entry[o].lastRun)
      BY <2>1, <2>5 DEF ChangeShape
    <3>2. /\ d[2] <= began[d[1]] /\ began[d[1]] <= now /\ d[2] <= journal[d[1]]
          /\ began[d[1]] \in Nat /\ now \in Nat
      BY <1>1, <2>1, SchedulerAssumption DEF Clocks, TypeOK
    <3>3. d[2] <= now
      BY <2>1, <3>2
    <3> QED
      BY <2>3, <2>5, <3>1, <3>2, <3>3
  <2> QED
    BY <2>4, <2>5
<1>11. SlotOnce'
  BY <1>1, <1>2, <1>6 DEF SlotOnce
<1>12. WakesInTime'
  BY <1>2 DEF WakesInTime, ChangeShape, Latest
<1> QED
  BY <1>3, <1>4, <1>8, <1>9, <1>10, <1>11, <1>12 DEF SchedInv

(* An entry of another number or of another id is as it was. *)
LEMMA InsertsShape ==
  ASSUME SchedInv, NEW id \in Id, Changes(id),
         NEW ord \in Seq(Obj), Once(ord),
         \A k \in DOMAIN ord : ord[k][1] # id /\ \E j \in DOMAIN order : ord[k] = order[j],
         NEW e \in EntryType, Inserts(ord, id, e),
         id \in Slotted => e.lastRun \in {now, journal[id]}
  PROVE  ChangeShape(id)
<1> DEFINE o  == <<id, edits + 2>>
           es == [entry EXCEPT ![o] = e]
           s  == Append(ord, o)
<1>1. TypeOK /\ WakesInTime
  BY DEF SchedInv
<1>2. o \in Obj /\ o[1] = id
  <2>1. edits + 2 \in 1 .. MaxEdits + 1
    BY <1>1, SchedulerAssumption DEF TypeOK, Changes
  <2> QED
    BY <2>1 DEF Obj
<1>3. order' = s /\ entry' = es /\ RequestsWake(s, es, o)
  BY DEF Inserts
<1>4. es \in [Obj -> EntryType] /\ es[o] = e /\ \A p \in Obj : p # o => es[p] = entry[p]
  BY <1>1, <1>2 DEF TypeOK, EntryType
<1>5. s \in Seq(Obj) /\ Once(s) /\ \A k \in DOMAIN s : s[k] = o \/ \E j \in DOMAIN ord : s[k] = ord[j]
  BY <1>2, AppendOnce
<1> HIDE DEF o, es, s
<1>6. \A k \in DOMAIN s : s[k] = o \/ (s[k] # o /\ s[k] \in Obj /\ s[k][1] # id /\ \E j \in DOMAIN order : s[k] = order[j])
  <2> SUFFICES ASSUME NEW k \in DOMAIN s, s[k] # o
               PROVE  s[k] \in Obj /\ s[k][1] # id /\ \E j \in DOMAIN order : s[k] = order[j]
    OBVIOUS
  <2>1. PICK j \in DOMAIN ord : s[k] = ord[j]
    BY <1>5
  <2>2. s[k] \in Obj
    BY <2>1
  <2> QED
    BY <2>1, <2>2
<1>7. \A k \in DOMAIN s :
        s[k] = o \/ (mode = "running" /\ tick.pc = "none" => wakeAt <= Latest(s[k], es[s[k]]))
  BY <1>1, <1>4, <1>6 DEF WakesInTime, Latest
<1>8. /\ wakeAt' \in 1 .. Never
      /\ mode = "running" /\ tick.pc = "none" => \A i \in DOMAIN s : wakeAt' <= Latest(s[i], es[s[i]])
  BY <1>1, <1>2, <1>3, <1>4, <1>5, <1>7, RequestsWakeFacts
<1>9. \A p \in Live' : p = o \/ (p[1] # id /\ p \in Live)
  BY <1>3, <1>6 DEF Live
<1>10. \A p \in Obj : p[1] # id => entry'[p] = entry[p]
  BY <1>2, <1>3, <1>4
<1>11. entry'[o].lastRun = e.lastRun
  BY <1>3, <1>4
<1> QED
  BY <1>2, <1>3, <1>4, <1>5, <1>8, <1>9, <1>10, <1>11 DEF ChangeShape

LEMMA SeedsAre ==
  ASSUME now \in 1 .. Horizon, NEW id \in Id, NEW e \in Seeds(id)
  PROVE  e \in EntryType /\ (id \in Slotted => e.lastRun = now)
<1>1. now \in Nat /\ now + 1 \in Nat /\ Cap(now + 1) \in Nat /\ Cap(now + 2) \in Nat
  BY SchedulerAssumption DEF Cap
<1>2. \A last, n \in Nat : Fresh(last, n) \in EntryType /\ Fresh(last, n).lastRun = last
  BY DEF Fresh, EntryType
<1>3. CASE id \in Every
  <2>1. PICK last \in {0, now, Cap(now + 1)}, n \in Interval : e = Fresh(last, n)
    BY <1>3, SchedulerAssumption DEF Seeds
  <2>2. last \in Nat /\ n \in Nat
    BY <1>1, SchedulerAssumption
  <2> QED
    BY <1>2, <1>3, <2>1, <2>2, SchedulerAssumption
<1>4. CASE id \in Slotted
  <2>1. e = Fresh(now, 0)
    BY <1>4, SchedulerAssumption DEF Seeds
  <2> QED
    BY <1>1, <1>2, <2>1
<1>5. CASE id \in OneShot
  <2>1. PICK t \in now .. Cap(now + 2) : e = Fresh(0, t)
    BY <1>5, SchedulerAssumption DEF Seeds
  <2>2. t \in Nat
    BY <1>1
  <2> QED
    BY <1>2, <1>5, <2>1, <2>2, SchedulerAssumption
<1> QED
  BY <1>3, <1>4, <1>5 DEF Id

LEMMA RegisterShape ==
  ASSUME SchedInv, NEW id \in Id, Register(id)
  PROVE  ChangeShape(id)
<1>1. TypeOK
  BY DEF SchedInv
<1>2. order \in Seq(Obj) /\ Once(order)
  BY <1>1 DEF TypeOK, Once
<1>3. \A k \in DOMAIN order : order[k][1] # id /\ \E j \in DOMAIN order : order[k] = order[j]
  BY <1>1, CurrentIs DEF Register, Live
<1>4. PICK e \in Seeds(id) : Inserts(order, id, e)
  BY DEF Register
<1>5. e \in EntryType /\ (id \in Slotted => e.lastRun \in {now, journal[id]})
  BY <1>1, SeedsAre DEF TypeOK
<1>6. Changes(id)
  BY DEF Register
<1> QED
  BY <1>2, <1>3, <1>4, <1>5, <1>6, InsertsShape

(* The Map without an id. *)
LEMMA RemovedIs ==
  ASSUME TypeOK, NEW id \in Id, Current(id) # NoObj,
         NEW ord, ord = RemoveAt(order, Position(id))
  PROVE  /\ ord \in Seq(Obj) /\ Once(ord)
         /\ \A k \in DOMAIN ord : ord[k][1] # id /\ \E j \in DOMAIN order : ord[k] = order[j]
<1>1. order \in Seq(Obj) /\ Once(order)
  BY DEF TypeOK, Once
<1>2. Position(id) \in DOMAIN order /\ order[Position(id)][1] = id
  BY CurrentIs
<1> QED
  BY <1>1, <1>2, RemoveAtIs, RemovedOnce

LEMMA SyncShape ==
  ASSUME SchedInv, NEW id \in Id, Sync(id)
  PROVE  ChangeShape(id)
<1>1. TypeOK
  BY DEF SchedInv
<1> DEFINE ord == RemoveAt(order, Position(id))
           e   == Fresh(IF journal[id] # 0 THEN journal[id] ELSE now, 0)
<1>2. Changes(id) /\ Current(id) # NoObj /\ Inserts(ord, id, e)
  BY DEF Sync
<1>3. e \in EntryType /\ e.lastRun \in {now, journal[id]}
  <2>1. now \in Nat /\ journal[id] \in Nat
    BY <1>1, SchedulerAssumption DEF TypeOK
  <2> QED
    BY <2>1 DEF Fresh, EntryType
<1>4. /\ ord \in Seq(Obj) /\ Once(ord)
      /\ \A k \in DOMAIN ord : ord[k][1] # id /\ \E j \in DOMAIN order : ord[k] = order[j]
  BY <1>1, <1>2, RemovedIs
<1> HIDE DEF ord, e
<1> QED
  BY <1>2, <1>3, <1>4, InsertsShape

LEMMA UnregisterShape ==
  ASSUME SchedInv, NEW id \in Id, Unregister(id)
  PROVE  ChangeShape(id)
<1>1. TypeOK /\ WakesInTime
  BY DEF SchedInv
<1>2. Changes(id) /\ Current(id) # NoObj /\ order' = RemoveAt(order, Position(id)) /\ entry' = entry /\ wakeAt' = wakeAt
  BY DEF Unregister
<1>3. /\ order' \in Seq(Obj) /\ Once(order')
      /\ \A k \in DOMAIN order' : order'[k][1] # id /\ \E j \in DOMAIN order : order'[k] = order[j]
  BY <1>1, <1>2, RemovedIs
<1>4. \A p \in Live' : p \in Live /\ p[1] # id
  BY <1>3 DEF Live
<1>5. mode = "running" /\ tick.pc = "none" =>
        \A i \in DOMAIN order' : wakeAt' <= Latest(order'[i], entry'[order'[i]])
  BY <1>1, <1>2, <1>3 DEF WakesInTime, Latest
<1> QED
  BY <1>1, <1>2, <1>3, <1>4, <1>5 DEF ChangeShape, TypeOK, EntryType

(* A change of the registered entry, whatever then happens to the timer. *)
LEMMA EditShape ==
  ASSUME SchedInv, NEW id \in Id, Changes(id), Current(id) # NoObj, order' = order,
         NEW e \in EntryType, entry' = [entry EXCEPT ![Current(id)] = e],
         id \in Slotted => e.lastRun = now \/ e.lastRun = entry[Current(id)].lastRun,
         RequestsWake(order, entry', Current(id)) \/ Arms(order, entry')
  PROVE  ChangeShape(id)
<1>1. TypeOK /\ WakesInTime
  BY DEF SchedInv
<1>2. PICK o \in Obj : o = Current(id) /\ o[1] = id /\ o \in Live /\ \A p \in Live : p[1] = id => p = o
  BY <1>1, CurrentIs
<1>3. order \in Seq(Obj) /\ Once(order) /\ entry \in [Obj -> EntryType]
  BY <1>1 DEF TypeOK, Once, EntryType
<1>4. /\ entry' \in [Obj -> EntryType] /\ entry'[o] = e
      /\ \A p \in Obj : p # o => entry'[p] = entry[p]
  BY <1>2, <1>3
<1>5. /\ wakeAt' \in 1 .. Never
      /\ mode = "running" /\ tick.pc = "none" =>
           \A i \in DOMAIN order : wakeAt' <= Latest(order[i], entry'[order[i]])
  <2>1. CASE Arms(order, entry')
    BY <1>1, <1>3, <1>4, <2>1, ArmsFacts
  <2>2. CASE RequestsWake(order, entry', Current(id))
    <3>1. \A i \in DOMAIN order : order[i] \in Obj
      BY <1>3
    <3>2. \A i \in DOMAIN order :
            order[i] = o \/ (mode = "running" /\ tick.pc = "none" => wakeAt <= Latest(order[i], entry'[order[i]]))
      BY <1>1, <1>4, <3>1 DEF WakesInTime, Latest
    <3>3. PICK es \in [Obj -> EntryType] : es = entry'
      BY <1>4
    <3>4. RequestsWake(order, es, o)
      BY <1>2, <2>2, <3>3
    <3>5. \A i \in DOMAIN order :
            order[i] = o \/ (mode = "running" /\ tick.pc = "none" => wakeAt <= Latest(order[i], es[order[i]]))
      BY <3>2, <3>3
    <3>6. /\ wakeAt' \in 1 .. Never
          /\ mode = "running" /\ tick.pc = "none" =>
               \A i \in DOMAIN order : wakeAt' <= Latest(order[i], es[order[i]])
      BY <1>1, <1>3, <3>4, <3>5, RequestsWakeFacts
    <3> QED
      BY <3>3, <3>6
  <2> QED
    BY <2>1, <2>2
<1>6. Live' = Live
  BY DEF Live
<1>7. id \in Slotted => \A p \in Live' : p[1] = id =>
        entry'[p].lastRun = now \/ (p \in Live /\ entry'[p].lastRun = entry[p].lastRun)
  BY <1>2, <1>4, <1>6
<1> QED
  BY <1>2, <1>3, <1>4, <1>5, <1>6, <1>7 DEF ChangeShape

LEMMA UpdatesShape ==
  ASSUME SchedInv, NEW id \in Id, Current(id) # NoObj, NEW e \in EntryType, Updates(id, e),
         id \in Slotted => e.lastRun = now \/ e.lastRun = entry[Current(id)].lastRun
  PROVE  ChangeShape(id)
<1>1. /\ Changes(id) /\ order' = order /\ entry' = [entry EXCEPT ![Current(id)] = e]
      /\ RequestsWake(order, entry', Current(id))
  BY DEF Updates
<1> QED
  BY <1>1, EditShape

LEMMA EnableShape ==
  ASSUME SchedInv, NEW id \in Id, Enable(id) \/ Pause(id)
  PROVE  ChangeShape(id)
<1>1. TypeOK /\ Current(id) # NoObj
  BY DEF SchedInv, Enable, Pause
<1>2. PICK f \in EntryType : f = entry[Current(id)]
  BY <1>1, CurrentIs DEF TypeOK, EntryType
<1>3. ASSUME NEW st \in {"idle", "paused"}
      PROVE  [f EXCEPT !.state = st] \in EntryType /\ [f EXCEPT !.state = st].lastRun = f.lastRun
  BY DEF EntryType
<1>4. CASE Enable(id)
  BY <1>1, <1>2, <1>3, <1>4, UpdatesShape DEF Enable
<1>5. CASE Pause(id)
  BY <1>1, <1>2, <1>3, <1>5, UpdatesShape DEF Pause
<1> QED
  BY <1>4, <1>5

LEMMA RescheduleShape ==
  ASSUME SchedInv, NEW id \in Id, Reschedule(id)
  PROVE  ChangeShape(id)
<1>1. TypeOK /\ Current(id) # NoObj
  BY DEF SchedInv, Reschedule
<1>2. PICK f \in EntryType : f = entry[Current(id)]
  BY <1>1, CurrentIs DEF TypeOK, EntryType
<1>3. now \in Nat /\ Cap(now + 2) \in Nat /\ f.lastRun \in Nat
  BY <1>1, SchedulerAssumption DEF TypeOK, Cap, EntryType
<1>4. ASSUME NEW n \in Nat, NEW last \in Nat
      PROVE  [f EXCEPT !.when = n, !.lastRun = last] \in EntryType
  BY DEF EntryType
<1>5. [f EXCEPT !.lastRun = now] \in EntryType /\ [f EXCEPT !.lastRun = now].lastRun = now
  BY <1>3 DEF EntryType
<1>6. ASSUME NEW n \in Nat PROVE [f EXCEPT !.when = n] \in EntryType
  BY DEF EntryType
<1>7. CASE id \in Every /\ \E n \in Interval, last \in {f.lastRun, now} :
                             Updates(id, [f EXCEPT !.when = n, !.lastRun = last])
  <2>1. PICK n \in Interval, last \in {f.lastRun, now} :
          Updates(id, [f EXCEPT !.when = n, !.lastRun = last])
    BY <1>7
  <2>2. n \in Nat /\ last \in Nat
    BY <1>3, SchedulerAssumption
  <2>3. id \notin Slotted
    BY <1>7, SchedulerAssumption
  <2> QED
    BY <1>1, <1>4, <2>1, <2>2, <2>3, UpdatesShape
<1>8. CASE id \in Slotted /\ Updates(id, [f EXCEPT !.lastRun = now])
  BY <1>1, <1>5, <1>8, UpdatesShape
<1>9. CASE id \in OneShot /\ \E t \in now .. Cap(now + 2) : Updates(id, [f EXCEPT !.when = t])
  <2>1. PICK t \in now .. Cap(now + 2) : Updates(id, [f EXCEPT !.when = t])
    BY <1>9
  <2>2. t \in Nat
    BY <1>3
  <2>3. id \notin Slotted
    BY <1>9, SchedulerAssumption
  <2> QED
    BY <1>1, <1>6, <2>1, <2>2, <2>3, UpdatesShape
<1> QED
  BY <1>2, <1>7, <1>8, <1>9 DEF Reschedule

LEMMA UpdateConfigShape ==
  ASSUME SchedInv, NEW id \in Id, UpdateConfig(id)
  PROVE  ChangeShape(id)
<1>1. TypeOK /\ Changes(id) /\ Current(id) # NoObj /\ order' = order /\ id \notin Slotted
  BY SchedulerAssumption DEF SchedInv, UpdateConfig
<1>2. PICK o \in Obj : o = Current(id)
  BY <1>1, CurrentIs
<1>3. PICK f \in EntryType : f = entry[o]
  BY <1>1, <1>2 DEF TypeOK, EntryType
<1>4. PICK n \in Interval : entry' = [entry EXCEPT ![o].when = n] /\ Arms(order, entry')
  BY <1>2 DEF UpdateConfig
<1>5. n \in Nat
  BY SchedulerAssumption
<1>6. [f EXCEPT !.when = n] \in EntryType
  BY <1>5 DEF EntryType
<1>7. entry' = [entry EXCEPT ![o] = [f EXCEPT !.when = n]]
  BY <1>3, <1>4
<1> QED
  BY <1>1, <1>2, <1>4, <1>6, <1>7, EditShape

LEMMA ChangeStep ==
  ASSUME SchedInv, Change
  PROVE  SchedInv'
<1>1. PICK id \in Id : Register(id) \/ Unregister(id) \/ Sync(id) \/ Enable(id) \/ Pause(id)
                       \/ Reschedule(id) \/ UpdateConfig(id)
  BY DEF Change
<1>2. ChangeShape(id)
  BY <1>1, RegisterShape, UnregisterShape, SyncShape, EnableShape, RescheduleShape, UpdateConfigShape
<1> QED
  BY <1>2, ChangeKeeps

-----------------------------------------------------------------------------
(* The tick *)

LEMMA FlightsAre ==
  ASSUME TypeOK, NEW o \in Obj
  PROVE  Flights(o) \in Nat /\ loose[o] \in Nat /\ Awaited(o) \in {0, 1}
BY DEF TypeOK, Flights, Awaited

(* The entry that a scanning tick takes next is registered, idle and due. *)
LEMMA NextVisit ==
  ASSUME TypeOK, Ahead # {}, NEW o, o = order[Min(Ahead)]
  PROVE  /\ o \in Obj /\ o \in Live /\ o[1] \in Id
         /\ entry[o].state = "idle" /\ Due(o, entry[o], tick.at)
         /\ \A j \in 1 .. Min(Ahead) : order[j] \in Obj
<1>1. order \in Seq(Obj) /\ DOMAIN order \subseteq Nat /\ DOMAIN order = 1 .. Len(order) /\ Len(order) \in Nat
  <2>1. order \in Seq(Obj)
    BY DEF TypeOK
  <2> QED
    BY <2>1
<1>2. Min(Ahead) \in Ahead
  BY <1>1, MinOf DEF Ahead
<1>3. Min(Ahead) \in DOMAIN order /\ Ready(o)
  BY <1>2 DEF Ahead
<1>4. o \in Obj /\ o \in Live
  BY <1>1, <1>3 DEF Live
<1>5. o[1] \in Id
  BY <1>4 DEF Obj
<1>6. \A j \in 1 .. Min(Ahead) : order[j] \in Obj
  BY <1>1, <1>3
<1> QED
  BY <1>3, <1>4, <1>5, <1>6 DEF Ready

(* Nothing of a task runs while its entry is idle. *)
LEMMA IdleQuiet ==
  ASSUME SchedInv, NEW o \in Live, entry[o].state = "idle", o[1] \notin meddled
  PROVE  \A p \in Obj : p[1] = o[1] => Flights(p) = 0
<1> SUFFICES ASSUME NEW p \in Obj, p[1] = o[1], Flights(p) # 0 PROVE FALSE
  OBVIOUS
<1>1. Flights(p) > 0
  BY FlightsAre DEF SchedInv
<1>2. entry[p].state = "active" /\ o = p
  BY <1>1 DEF SchedInv, FlightsHeld
<1> QED
  BY <1>2

(* A slot that is due lies behind, and the entry has not run since it began. *)
LEMMA DueSlot ==
  ASSUME TypeOK, NEW o \in Obj, o[1] \in Slotted, Due(o, entry[o], tick.at)
  PROVE  /\ Slot(tick.at) \in Nat /\ tick.at \in Nat /\ entry[o].lastRun \in Nat
         /\ Slot(tick.at) <= tick.at /\ entry[o].lastRun < Slot(tick.at)
<1>1. tick.at \in Nat /\ entry[o].lastRun \in Nat
  BY DEF TypeOK
<1>2. SlotDue(entry[o].lastRun, tick.at)
  BY SchedulerAssumption DEF Due
<1> QED
  BY <1>1, <1>2, SlotFacts DEF SlotDue

LEMMA VisitKeeps ==
  ASSUME SchedInv, NEW pc \in {"scan", "attempt", "recorded"}, Visits(pc),
         NEW o, o = order[Min(Ahead)],
         NEW e \in EntryType, entry' = [entry EXCEPT ![o] = e], e.lastRun = tick.at,
         pc = "attempt" => e.state = "active",
         began' = IF pc = "attempt" /\ o[1] \in Slotted THEN [began EXCEPT ![o[1]] = now] ELSE began,
         slot' = IF pc = "attempt" /\ o[1] \in Slotted THEN [slot EXCEPT ![o] = Slot(tick.at)] ELSE slot,
         again' = IF pc = "attempt" THEN again \cup ({<<o[1], Slot(tick.at)>>} \cap done) ELSE again
  PROVE  SchedInv'
<1>1. TypeOK /\ TickHolds /\ Clocks /\ FlightsHeld /\ RecordedQuiet /\ SlotsSpent /\ SlotOnce
  BY DEF SchedInv
<1>2. /\ tick.pc = "scan" /\ Ahead # {}
      /\ tick' = [tick EXCEPT !.pc = pc, !.obj = o, !.seen = @ \cup {order[j] : j \in 1 .. Min(Ahead)}]
      /\ UNCHANGED <<now, order, wakeAt, mode, loose, overdue, journal, edits, meddled, done>>
  BY DEF Visits
<1>3. /\ o \in Obj /\ o \in Live /\ o[1] \in Id
      /\ entry[o].state = "idle" /\ Due(o, entry[o], tick.at)
      /\ \A j \in 1 .. Min(Ahead) : order[j] \in Obj
  BY <1>1, <1>2, NextVisit
<1>4. tick'.pc = pc /\ tick'.obj = o /\ tick'.at = tick.at
  BY <1>1, <1>2 DEF TypeOK
<1>5. entry' \in [Obj -> EntryType] /\ entry'[o] = e /\ \A p \in Obj : p # o => entry'[p] = entry[p]
  BY <1>1, <1>3 DEF TypeOK, EntryType
<1>6. o[1] \in Slotted => Slot(tick.at) \in Nat /\ Slot(tick.at) <= tick.at /\ entry[o].lastRun < Slot(tick.at)
  BY <1>1, <1>3, DueSlot
<1>7. TypeOK'
  <2>1. tick' \in [pc : {"none", "scan", "attempt", "recorded", "overdue", "rearm"},
                   at : Nat, seen : SUBSET Obj, obj : Obj \cup {NoObj}]
    <3>1. PICK S \in SUBSET Obj : S = {order[j] : j \in 1 .. Min(Ahead)}
      BY <1>3
    <3>2. tick' = [tick EXCEPT !.pc = pc, !.obj = o, !.seen = @ \cup S]
      BY <1>2, <3>1
    <3>3. tick \in TickType
      BY <1>1 DEF TypeOK, TickType
    <3> QED
      BY <1>3, <3>2, <3>3 DEF TickType
  <2>2. now \in Nat
    BY <1>1, SchedulerAssumption DEF TypeOK
  <2>3. began' \in [Id -> Nat]
    BY <1>1, <1>3, <2>2 DEF TypeOK
  <2>4. slot' \in [Obj -> Nat]
    BY <1>1, <1>3, <1>6 DEF TypeOK
  <2>5. again' \subseteq Id \X Nat
    BY <1>1 DEF TypeOK, Id
  <2> QED
    BY <1>1, <1>2, <1>5, <2>1, <2>3, <2>4, <2>5 DEF TypeOK, EntryType
<1>8. TickHolds'
  BY <1>3, <1>4 DEF TickHolds
<1>9. Clocks'
  <2>1. now \in Nat /\ tick.at \in Nat /\ tick.at <= now
    BY <1>1, SchedulerAssumption DEF TypeOK, Clocks
  <2>2. \A id \in Id : began'[id] <= now /\ began[id] <= began'[id] /\ began[id] \in Nat /\ began'[id] \in Nat
    BY <1>1, <1>3, <2>1 DEF TypeOK, Clocks
  <2>3. ASSUME NEW p \in Obj PROVE slot'[p] <= began'[p[1]]
    <3>1. p[1] \in Id /\ slot[p] \in Nat /\ slot[p] <= began[p[1]]
      BY <1>1 DEF Obj, TypeOK, Clocks
    <3>2. CASE pc = "attempt" /\ o[1] \in Slotted /\ p = o
      <4>1. slot'[p] = Slot(tick.at) /\ began'[p[1]] = now
        BY <1>1, <1>3, <3>2 DEF TypeOK
      <4> QED
        BY <1>6, <2>1, <3>2, <4>1
    <3>3. CASE ~(pc = "attempt" /\ o[1] \in Slotted /\ p = o)
      <4>1. slot'[p] = slot[p]
        BY <1>1, <3>3 DEF TypeOK
      <4> QED
        BY <2>2, <3>1, <4>1
    <3> QED
      BY <3>2, <3>3
  <2>4. ASSUME NEW d \in done PROVE d[2] <= began'[d[1]] /\ d[2] <= journal[d[1]]
    <3>1. d[1] \in Id /\ d[2] \in Nat /\ d[2] <= began[d[1]] /\ d[2] <= journal[d[1]]
      BY <1>1 DEF TypeOK, Id, Clocks
    <3> QED
      BY <2>2, <3>1
  <2> QED
    BY <1>2, <1>4, <2>1, <2>2, <2>3, <2>4 DEF Clocks
<1>10. \A p \in Obj : Flights(p) = loose[p]
  BY <1>1, <1>2, FlightsAre DEF Flights, Awaited
<1>11. \A p \in Obj : Flights(p)' = loose[p] + (IF pc = "attempt" /\ p = o THEN 1 ELSE 0)
  BY <1>2, <1>4 DEF Flights, Awaited
<1>12. \A p \in Obj : Flights(p) \in Nat
  BY <1>1, FlightsAre
<1>13. o[1] \notin meddled => \A p \in Obj : p[1] = o[1] => Flights(p) = 0
  BY <1>3, IdleQuiet
<1>14. Live' = Live /\ \A p \in Live : p[1] = o[1] => p = o
  <2>1. Live' = Live
    BY <1>2 DEF Live
  <2>2. \A i, j \in DOMAIN order : order[i][1] = order[j][1] => i = j
    BY <1>1 DEF TypeOK
  <2> QED
    BY <1>3, <2>1, <2>2 DEF Live
<1>15. FlightsHeld'
  <2> SUFFICES ASSUME NEW p \in Obj, p[1] \notin meddled, Flights(p)' > 0
               PROVE  /\ Flights(p)' = 1
                      /\ entry'[p].state = "active"
                      /\ p[1] \in Slotted => slot'[p] <= entry'[p].lastRun
                      /\ \A q \in Live' : q[1] = p[1] => q = p
                      /\ \A q \in Obj : q[1] = p[1] /\ Flights(q)' > 0 => q = p
    BY <1>2 DEF FlightsHeld
  <2>1. CASE p[1] = o[1]
    <3>1. Flights(p) = 0
      BY <1>13, <2>1
    <3>2. p = o /\ pc = "attempt"
      BY <1>10, <1>11, <3>1
    <3>3. Flights(p)' = 1
      BY <1>10, <1>11, <3>1, <3>2
    <3>4. p[1] \in Slotted => slot'[p] <= entry'[p].lastRun
      BY <1>1, <1>5, <1>6, <3>2 DEF TypeOK
    <3>5. \A q \in Obj : q[1] = p[1] /\ Flights(q)' > 0 => q = p
      BY <1>10, <1>11, <1>13, <3>2
    <3> QED
      BY <1>5, <1>14, <3>2, <3>3, <3>4, <3>5
  <2>2. CASE p[1] # o[1]
    <3>1. \A q \in Obj : q[1] = p[1] => Flights(q)' = Flights(q)
      BY <1>10, <1>11, <2>2, FlightsAre, <1>1
    <3>2. Flights(p) > 0 /\ entry'[p] = entry[p] /\ slot'[p] = slot[p]
      BY <1>1, <1>5, <2>2, <3>1 DEF TypeOK
    <3>3. /\ Flights(p) = 1 /\ entry[p].state = "active"
          /\ p[1] \in Slotted => slot[p] <= entry[p].lastRun
          /\ \A q \in Live : q[1] = p[1] => q = p
          /\ \A q \in Obj : q[1] = p[1] /\ Flights(q) > 0 => q = p
      BY <1>1, <3>2 DEF FlightsHeld
    <3> QED
      BY <1>14, <3>1, <3>2, <3>3
  <2> QED
    BY <2>1, <2>2
<1>16. RecordedQuiet'
  BY <1>2, <1>4, <1>10, <1>11, <1>12, <1>13 DEF RecordedQuiet
<1>17. SlotsSpent'
  <2> SUFFICES ASSUME NEW d \in done, d[1] \notin meddled, NEW p \in Live, p[1] = d[1]
               PROVE  d[2] <= entry'[p].lastRun
    BY <1>2, <1>14 DEF SlotsSpent
  <2>1. d[2] <= entry[p].lastRun /\ d[1] \in Slotted /\ d[2] \in Nat
    BY <1>1 DEF SlotsSpent, TypeOK
  <2>2. p \in Obj
    BY <1>1 DEF Live, TypeOK
  <2>3. CASE p = o
    <3>1. entry[o].lastRun \in Nat /\ tick.at \in Nat
      BY <1>1, <1>3 DEF TypeOK
    <3> QED
      BY <1>5, <1>6, <2>1, <2>3, <3>1
  <2>4. CASE p # o
    BY <1>5, <2>1, <2>2, <2>4
  <2> QED
    BY <2>3, <2>4
<1>18. SlotOnce'
  <2> SUFFICES ASSUME NEW s \in again', s[1] \notin meddled PROVE FALSE
    BY <1>2 DEF SlotOnce
  <2>1. s \notin again
    BY <1>1 DEF SlotOnce
  <2>2. s = <<o[1], Slot(tick.at)>> /\ s \in done
    BY <2>1
  <2>3. s[1] = o[1] /\ s[2] = Slot(tick.at) /\ s[1] \in Slotted
    BY <1>1, <2>2 DEF TypeOK
  <2>4. s[2] <= entry[o].lastRun
    BY <1>1, <1>3, <2>2, <2>3 DEF SlotsSpent
  <2>5. entry[o].lastRun \in Nat
    BY <1>1, <1>3 DEF TypeOK
  <2> QED
    BY <1>6, <2>3, <2>4, <2>5
<1>19. WakesInTime'
  BY <1>4 DEF WakesInTime
<1> QED
  BY <1>7, <1>8, <1>9, <1>15, <1>16, <1>17, <1>18, <1>19 DEF SchedInv

LEMMA VisitStep ==
  ASSUME SchedInv, Deny \/ RunAttempt \/ RefireSkipped
  PROVE  SchedInv'
<1>1. TypeOK /\ Ahead # {}
  BY DEF SchedInv, Deny, RunAttempt, RefireSkipped, Visits
<1>2. PICK o \in Obj : o = order[Min(Ahead)]
  BY <1>1, NextVisit
<1>3. PICK f \in EntryType : f = entry[o]
  BY <1>1 DEF TypeOK, EntryType
<1>4. tick.at \in Nat
  BY <1>1 DEF TypeOK
<1>5. ASSUME NEW st \in {"idle", "active", "complete"}
      PROVE  [f EXCEPT !.lastRun = tick.at, !.state = st] \in EntryType
  BY <1>4 DEF EntryType
<1>6. ASSUME NEW st
      PROVE  /\ [f EXCEPT !.lastRun = tick.at, !.state = st].lastRun = tick.at
             /\ [f EXCEPT !.lastRun = tick.at, !.state = st].state = st
             /\ [entry EXCEPT ![o].lastRun = tick.at, ![o].state = st]
                  = [entry EXCEPT ![o] = [f EXCEPT !.lastRun = tick.at, !.state = st]]
  <2>1. entry \in [Obj -> EntryType]
    BY <1>1 DEF TypeOK, EntryType
  <2> QED
    BY <1>3, <2>1 DEF EntryType
<1>7. CASE Deny
  <2>1. PICK st \in {"idle", "complete"} : entry' = [entry EXCEPT ![o].lastRun = tick.at, ![o].state = st]
    BY <1>2, <1>7 DEF Deny
  <2>2. Visits("scan") /\ UNCHANGED <<began, slot, again>>
    BY <1>7 DEF Deny
  <2>3. PICK e \in EntryType : entry' = [entry EXCEPT ![o] = e] /\ e.lastRun = tick.at /\ e.state = st
    BY <1>5, <1>6, <2>1
  <2>4. /\ began' = IF "scan" = "attempt" /\ o[1] \in Slotted THEN [began EXCEPT ![o[1]] = now] ELSE began
        /\ slot' = IF "scan" = "attempt" /\ o[1] \in Slotted THEN [slot EXCEPT ![o] = Slot(tick.at)] ELSE slot
        /\ again' = IF "scan" = "attempt" THEN again \cup ({<<o[1], Slot(tick.at)>>} \cap done) ELSE again
    BY <2>2
  <2> QED
    BY <1>2, <2>2, <2>3, <2>4, VisitKeeps
<1>8. CASE RunAttempt
  <2>1. /\ Visits("attempt")
        /\ entry' = [entry EXCEPT ![o].lastRun = tick.at, ![o].state = "active"]
        /\ began' = IF o[1] \in Slotted THEN [began EXCEPT ![o[1]] = now] ELSE began
        /\ slot' = IF o[1] \in Slotted THEN [slot EXCEPT ![o] = Slot(tick.at)] ELSE slot
        /\ again' = again \cup ({<<o[1], Slot(tick.at)>>} \cap done)
    BY <1>2, <1>8 DEF RunAttempt
  <2>3. PICK e \in EntryType : entry' = [entry EXCEPT ![o] = e] /\ e.lastRun = tick.at /\ e.state = "active"
    BY <1>5, <1>6, <2>1
  <2>4. /\ began' = IF "attempt" = "attempt" /\ o[1] \in Slotted THEN [began EXCEPT ![o[1]] = now] ELSE began
        /\ slot' = IF "attempt" = "attempt" /\ o[1] \in Slotted THEN [slot EXCEPT ![o] = Slot(tick.at)] ELSE slot
        /\ again' = IF "attempt" = "attempt" THEN again \cup ({<<o[1], Slot(tick.at)>>} \cap done) ELSE again
    BY <2>1
  <2> QED
    BY <1>2, <2>1, <2>3, <2>4, VisitKeeps
<1>9. CASE RefireSkipped
  <2>1. /\ Visits("recorded") /\ UNCHANGED <<began, slot, again>>
        /\ entry' = [entry EXCEPT ![o].lastRun = tick.at, ![o].state = "active"]
    BY <1>2, <1>9 DEF RefireSkipped
  <2>3. PICK e \in EntryType : entry' = [entry EXCEPT ![o] = e] /\ e.lastRun = tick.at /\ e.state = "active"
    BY <1>5, <1>6, <2>1
  <2>4. /\ began' = IF "recorded" = "attempt" /\ o[1] \in Slotted THEN [began EXCEPT ![o[1]] = now] ELSE began
        /\ slot' = IF "recorded" = "attempt" /\ o[1] \in Slotted THEN [slot EXCEPT ![o] = Slot(tick.at)] ELSE slot
        /\ again' = IF "recorded" = "attempt" THEN again \cup ({<<o[1], Slot(tick.at)>>} \cap done) ELSE again
    BY <2>1
  <2> QED
    BY <1>2, <2>1, <2>3, <2>4, VisitKeeps
<1> QED
  BY <1>7, <1>8, <1>9

(* A step that moves the timer, the mode or the tick, and no handler. *)
LEMMA QuietKeeps ==
  ASSUME SchedInv,
         UNCHANGED <<now, order, entry, began, journal, edits, meddled, slot, done, again>>,
         wakeAt' \in 1 .. Never, mode' \in {"new", "running", "draining", "stopped"},
         tick' \in TickType, overdue' \in [Id -> Obj \cup {NoObj}],
         tick'.at <= now, TickHolds',
         loose' \in [Obj -> Nat], \A o \in Obj : Flights(o)' = Flights(o),
         tick'.pc = "recorded" => tick.pc = "recorded" /\ tick'.obj = tick.obj,
         WakesInTime'
  PROVE  SchedInv'
<1>1. TypeOK'
  BY DEF SchedInv, TypeOK, TickType
<1>3. Clocks' /\ SlotOnce'
  BY DEF SchedInv, Clocks, SlotOnce
<1>4. Live' = Live
  BY DEF Live
<1>5. FlightsHeld' /\ SlotsSpent'
  BY <1>4 DEF SchedInv, FlightsHeld, SlotsSpent
<1>6. RecordedQuiet'
  BY DEF SchedInv, RecordedQuiet
<1> QED
  BY <1>1, <1>3, <1>5, <1>6 DEF SchedInv

LEMMA TickTypes ==
  ASSUME TypeOK
  PROVE  /\ NoTick \in TickType /\ [NoTick EXCEPT !.pc = "rearm"] \in TickType
         /\ NoTick.pc = "none" /\ NoTick.at = 0
         /\ [pc |-> "scan", at |-> now, seen |-> {}, obj |-> NoObj] \in TickType
         /\ tick \in TickType
         /\ [tick EXCEPT !.pc = "overdue"] \in TickType
         /\ [tick EXCEPT !.pc = "recorded"] \in TickType
         /\ [tick EXCEPT !.pc = "scan", !.obj = NoObj] \in TickType
<1>1. now \in Nat
  BY SchedulerAssumption DEF TypeOK
<1>2. tick \in TickType
  BY DEF TypeOK, TickType
<1> QED
  BY <1>1, <1>2 DEF NoTick, TickType

LEMMA QuietStep ==
  ASSUME SchedInv, TimerFires \/ BudgetExpires \/ TickEnds \/ Rearm \/ Start \/ Stop \/ Drained
  PROVE  SchedInv'
<1>1. TypeOK /\ TickHolds /\ tick.at <= now /\ WakesInTime
  BY DEF SchedInv, Clocks
<1>2. now \in 1 .. Horizon /\ now \in Nat /\ Never \in 1 .. Never /\ wakeAt \in 1 .. Never
  BY <1>1, SchedulerAssumption DEF TypeOK, Never
<1>3. order \in Seq(Obj) /\ entry \in [Obj -> EntryType]
  BY <1>1 DEF TypeOK, EntryType
<1> USE DEF ghost, sched
<1>4. CASE TimerFires
  <2>1. tick' = [pc |-> "scan", at |-> now, seen |-> {}, obj |-> NoObj] /\ tick.pc = "none" /\ wakeAt' = Never
    BY <1>4 DEF TimerFires
  <2>2. tick' \in TickType /\ tick'.pc = "scan" /\ tick'.at = now
    BY <1>1, <2>1, TickTypes
  <2>3. TickHolds' /\ WakesInTime' /\ \A o \in Obj : Flights(o)' = Flights(o)
    BY <1>4, <2>1, <2>2 DEF TimerFires, TickHolds, WakesInTime, Awaited, Flights
  <2> QED
    BY <1>1, <1>2, <1>4, <2>1, <2>2, <2>3, QuietKeeps DEF TimerFires, TypeOK
<1>5. CASE BudgetExpires
  <2>1. tick.pc = "attempt" /\ tick' = [tick EXCEPT !.pc = "overdue"] /\ tick.obj \in Obj
    BY <1>1, <1>5 DEF BudgetExpires, TickHolds
  <2>2. tick' \in TickType /\ tick'.pc = "overdue" /\ tick'.at = tick.at /\ tick'.obj = tick.obj
    BY <1>1, <2>1, TickTypes DEF TypeOK
  <2>3. overdue' \in [Id -> Obj \cup {NoObj}]
    BY <1>1, <1>5, <2>1 DEF BudgetExpires, TypeOK, Obj
  <2>4. TickHolds' /\ WakesInTime' /\ \A o \in Obj : Flights(o)' = Flights(o)
    BY <1>5, <2>1, <2>2 DEF BudgetExpires, TickHolds, WakesInTime, Awaited, Flights
  <2> QED
    BY <1>1, <1>2, <1>5, <2>2, <2>3, <2>4, QuietKeeps DEF BudgetExpires, TypeOK
<1>6. CASE TickEnds
  <2>1. tick.pc = "scan" /\ tick' = [NoTick EXCEPT !.pc = "rearm"]
    BY <1>6 DEF TickEnds
  <2>2. tick' \in TickType /\ tick'.pc = "rearm" /\ tick'.at = 0
    BY <1>1, <2>1, TickTypes DEF NoTick
  <2>3. TickHolds' /\ WakesInTime' /\ \A o \in Obj : Flights(o)' = Flights(o)
    BY <1>6, <2>1, <2>2 DEF TickEnds, TickHolds, WakesInTime, Awaited, Flights
  <2> QED
    BY <1>1, <1>2, <1>6, <2>2, <2>3, QuietKeeps DEF TickEnds, TypeOK
<1>7. CASE Rearm
  <2>1. tick.pc = "rearm" /\ tick' = NoTick /\ Arms(order, entry)
        /\ UNCHANGED <<now, order, entry, mode>>
    BY <1>7 DEF Rearm
  <2>2. tick' \in TickType /\ tick'.pc = "none" /\ tick'.at = 0
    BY <1>1, <2>1, TickTypes
  <2>3. /\ wakeAt' \in 1 .. Never
        /\ mode = "running" => \A i \in DOMAIN order : wakeAt' <= Latest(order[i], entry[order[i]])
    BY <1>1, <1>3, <2>1, ArmsFacts
  <2>4. TickHolds' /\ \A o \in Obj : Flights(o)' = Flights(o)
    BY <1>7, <2>1, <2>2 DEF Rearm, TickHolds, Awaited, Flights
  <2>5. WakesInTime'
    BY <2>1, <2>3 DEF WakesInTime, Latest
  <2> QED
    BY <1>1, <1>2, <1>7, <2>2, <2>3, <2>4, <2>5, QuietKeeps DEF Rearm, TypeOK
<1>8. CASE Start \/ Stop \/ Drained
  <2>1. /\ UNCHANGED <<now, order, entry, tick, loose, overdue, began, journal, edits, meddled, slot, done, again>>
        /\ mode' \in {"running", "draining", "stopped"}
        /\ mode' = "running" => wakeAt' = Wake(order, entry)
    BY <1>8 DEF Start, Stop, Drained
  <2>2. wakeAt' \in 1 .. Never
    BY <1>2, <1>3, <1>8, WakeFacts DEF Start, Stop, Drained
  <2>3. WakesInTime'
    <3>1. \A i \in DOMAIN order : Wake(order, entry) <= Latest(order[i], entry[order[i]])
      BY <1>2, <1>3, WakeFacts
    <3> QED
      BY <2>1, <3>1 DEF WakesInTime, Latest
  <2>4. TickHolds' /\ (\A o \in Obj : Flights(o)' = Flights(o)) /\ tick \in TickType
    BY <1>1, <2>1, TickTypes DEF TickHolds, Awaited, Flights
  <2> QED
    BY <1>1, <1>2, <2>1, <2>2, <2>3, <2>4, QuietKeeps DEF TypeOK
<1> QED
  BY <1>4, <1>5, <1>6, <1>7, <1>8

LEMMA StutterStep ==
  ASSUME SchedInv, UNCHANGED vars
  PROVE  SchedInv'
<1>1. TypeOK /\ TickHolds /\ tick.at <= now /\ WakesInTime
  BY DEF SchedInv, Clocks
<1>2. TickHolds' /\ WakesInTime' /\ (\A o \in Obj : Flights(o)' = Flights(o)) /\ tick \in TickType
  BY <1>1, TickTypes DEF vars, TickHolds, WakesInTime, Awaited, Flights
<1> QED
  BY <1>1, <1>2, QuietKeeps DEF vars, TypeOK

(* An entry returns to the rotation or is complete. *)
LEMMA StateIs ==
  ASSUME entry \in [Obj -> EntryType], NEW o \in Obj, NEW es, es = [entry EXCEPT ![o].state = After(o)]
  PROVE  /\ es \in [Obj -> EntryType]
         /\ \A p \in Obj : es[p].lastRun = entry[p].lastRun /\ (p # o => es[p] = entry[p])
<1>1. After(o) \in {"complete", "idle"}
  BY DEF After
<1>2. PICK f \in EntryType : f = entry[o]
  OBVIOUS
<1>3. [f EXCEPT !.state = After(o)] \in EntryType /\ [f EXCEPT !.state = After(o)].lastRun = f.lastRun
  BY <1>1 DEF EntryType
<1>4. es = [entry EXCEPT ![o] = [f EXCEPT !.state = After(o)]]
  BY <1>2
<1> QED
  BY <1>2, <1>3, <1>4

(* A success is journaled with the beginning of the run, which no slot that was run
   before lies behind. *)
LEMMA SucceedsIs ==
  ASSUME SchedInv, NEW o \in Obj, NEW ok \in BOOLEAN, Succeeds(o, ok)
  PROVE  /\ journal' \in [Id -> Nat] /\ done' \subseteq Slotted \X Nat
         /\ \A d \in done' : d[2] <= began[d[1]] /\ d[2] <= journal'[d[1]]
         /\ \A d \in done' : d \in done \/ (d = <<o[1], slot[o]>> /\ o[1] \in Slotted)
<1>1. TypeOK /\ Clocks
  BY DEF SchedInv
<1>2. o[1] \in Id /\ began[o[1]] \in Nat /\ slot[o] \in Nat /\ slot[o] <= began[o[1]]
  BY <1>1 DEF Obj, TypeOK, Clocks
<1>3. \A d \in done : d[1] \in Slotted /\ d[1] \in Id /\ d[2] \in Nat /\ d[2] <= began[d[1]] /\ d[2] <= journal[d[1]]
  BY <1>1 DEF TypeOK, Clocks, Id
<1>4. journal' = IF ok THEN [journal EXCEPT ![o[1]] = began[o[1]]] ELSE journal
  BY DEF Succeeds
<1>5. done' = IF ok /\ o[1] \in Slotted THEN done \cup {<<o[1], slot[o]>>} ELSE done
  BY DEF Succeeds
<1>6. journal' \in [Id -> Nat]
  BY <1>1, <1>2, <1>4 DEF TypeOK
<1>7. done' \subseteq Slotted \X Nat
  BY <1>1, <1>2, <1>5 DEF TypeOK
<1>8. \A d \in done' : d \in done \/ (ok /\ d = <<o[1], slot[o]>> /\ o[1] \in Slotted)
  BY <1>5
<1>9. \A id \in Id : journal'[id] = IF ok /\ id = o[1] THEN began[id] ELSE journal[id]
  BY <1>1, <1>4 DEF TypeOK
<1>10. ASSUME NEW d \in done' PROVE d[2] <= began[d[1]] /\ d[2] <= journal'[d[1]]
  <2>1. CASE d \in done
    BY <1>3, <1>9, <2>1
  <2>2. CASE ok /\ d = <<o[1], slot[o]>>
    BY <1>2, <1>9, <2>2
  <2> QED
    BY <1>8, <1>10, <2>1, <2>2
<1> QED
  BY <1>6, <1>7, <1>8, <1>10

(* A handler of an entry ends. *)
LEMMA LandKeeps ==
  ASSUME SchedInv, NEW o \in Obj, Flights(o) > 0, NEW ok \in BOOLEAN, Succeeds(o, ok),
         UNCHANGED <<now, order, mode, began, edits, meddled, slot, again>>,
         wakeAt' \in 1 .. Never, entry' \in [Obj -> EntryType],
         \A p \in Obj : entry'[p].lastRun = entry[p].lastRun /\ (p # o => entry'[p] = entry[p]),
         loose' \in [Obj -> Nat], overdue' \in [Id -> Obj \cup {NoObj}],
         tick' \in TickType, tick'.at = tick.at, TickHolds',
         \A p \in Obj : Flights(p)' = IF p = o THEN Flights(p) - 1 ELSE Flights(p),
         tick'.pc = "recorded" => tick'.obj = o \/ (tick.pc = "recorded" /\ tick'.obj = tick.obj),
         WakesInTime'
  PROVE  SchedInv'
<1>1. TypeOK /\ Clocks /\ FlightsHeld /\ RecordedQuiet /\ SlotsSpent /\ SlotOnce
  BY DEF SchedInv
<1>2. /\ journal' \in [Id -> Nat] /\ done' \subseteq Slotted \X Nat
      /\ \A d \in done' : d[2] <= began[d[1]] /\ d[2] <= journal'[d[1]]
      /\ \A d \in done' : d \in done \/ (d = <<o[1], slot[o]>> /\ o[1] \in Slotted)
  BY SucceedsIs
<1>3. TypeOK'
  BY <1>1, <1>2 DEF TypeOK, TickType, EntryType
<1>4. Clocks' /\ SlotOnce'
  BY <1>1, <1>2 DEF Clocks, SlotOnce
<1>5. Live' = Live
  BY DEF Live
<1>6. \A p \in Obj : Flights(p) \in Nat
  BY <1>1, FlightsAre
<1>7. o[1] \notin meddled =>
        /\ Flights(o) = 1 /\ (o[1] \in Slotted => slot[o] <= entry[o].lastRun)
        /\ \A p \in Live : p[1] = o[1] => p = o
        /\ \A p \in Obj : p[1] = o[1] /\ Flights(p) > 0 => p = o
  BY <1>1 DEF FlightsHeld
<1>8. o[1] \notin meddled => \A p \in Obj : p[1] = o[1] => Flights(p)' = 0
  BY <1>6, <1>7
<1>9. FlightsHeld'
  <2> SUFFICES ASSUME NEW p \in Obj, p[1] \notin meddled, Flights(p)' > 0
               PROVE  /\ Flights(p)' = 1
                      /\ entry'[p].state = "active"
                      /\ p[1] \in Slotted => slot'[p] <= entry'[p].lastRun
                      /\ \A q \in Live' : q[1] = p[1] => q = p
                      /\ \A q \in Obj : q[1] = p[1] /\ Flights(q)' > 0 => q = p
    BY DEF FlightsHeld
  <2>1. p[1] # o[1]
    BY <1>8
  <2>2. Flights(p) > 0 /\ Flights(p)' = Flights(p) /\ entry'[p] = entry[p]
    BY <2>1
  <2>3. /\ Flights(p) = 1 /\ entry[p].state = "active"
        /\ p[1] \in Slotted => slot[p] <= entry[p].lastRun
        /\ \A q \in Live : q[1] = p[1] => q = p
        /\ \A q \in Obj : q[1] = p[1] /\ Flights(q) > 0 => q = p
    BY <1>1, <2>2 DEF FlightsHeld
  <2>4. \A q \in Obj : q[1] = p[1] => Flights(q)' = Flights(q)
    BY <2>1
  <2> QED
    BY <1>5, <2>2, <2>3, <2>4
<1>10. RecordedQuiet'
  <2> SUFFICES ASSUME tick'.pc = "recorded", tick'.obj[1] \notin meddled,
                      NEW p \in Obj, p[1] = tick'.obj[1]
               PROVE  Flights(p)' = 0
    BY DEF RecordedQuiet
  <2>1. CASE tick'.obj = o
    BY <1>8, <2>1
  <2>2. CASE tick.pc = "recorded" /\ tick'.obj = tick.obj
    <3>1. Flights(p) = 0
      BY <1>1, <2>2 DEF RecordedQuiet
    <3> QED
      BY <3>1
  <2> QED
    BY <2>1, <2>2
<1>11. SlotsSpent'
  <2> SUFFICES ASSUME NEW d \in done', d[1] \notin meddled, NEW p \in Live, p[1] = d[1]
               PROVE  d[2] <= entry'[p].lastRun
    BY <1>5 DEF SlotsSpent
  <2>1. p \in Obj /\ entry'[p].lastRun = entry[p].lastRun
    BY <1>1, LiveObj
  <2>2. CASE d \in done
    BY <1>1, <2>1, <2>2 DEF SlotsSpent
  <2>3. CASE d = <<o[1], slot[o]>> /\ o[1] \in Slotted
    BY <1>7, <2>1, <2>3
  <2> QED
    BY <1>2, <2>2, <2>3
<1> QED
  BY <1>3, <1>4, <1>9, <1>10, <1>11 DEF SchedInv

LEMMA AttemptSettlesStep ==
  ASSUME SchedInv, NEW ok \in BOOLEAN, AttemptSettles(ok)
  PROVE  SchedInv'
<1>1. TypeOK /\ TickHolds
  BY DEF SchedInv
<1>2. tick.pc = "attempt" /\ tick' = [tick EXCEPT !.pc = "recorded"] /\ Succeeds(tick.obj, ok)
  BY DEF AttemptSettles
<1>3. UNCHANGED <<now, order, entry, wakeAt, mode, loose, overdue, began, edits, meddled, slot, again>>
  BY DEF AttemptSettles, sched
<1>4. PICK o \in Obj : o = tick.obj
  BY <1>1, <1>2 DEF TickHolds
<1>5. tick' \in TickType /\ tick'.pc = "recorded" /\ tick'.at = tick.at /\ tick'.obj = o
  BY <1>1, <1>2, <1>4, TickTypes DEF TypeOK
<1>6. \A p \in Obj : loose[p] \in Nat
  BY <1>1, FlightsAre
<1>7. Flights(o) > 0 /\ \A p \in Obj : Flights(p)' = IF p = o THEN Flights(p) - 1 ELSE Flights(p)
  BY <1>2, <1>3, <1>4, <1>5, <1>6 DEF Flights, Awaited
<1>8. TickHolds' /\ WakesInTime'
  BY <1>4, <1>5 DEF TickHolds, WakesInTime
<1> QED
  BY <1>1, <1>2, <1>3, <1>4, <1>5, <1>7, <1>8, LandKeeps DEF TypeOK, EntryType

LEMMA SettleOverdueStep ==
  ASSUME SchedInv, NEW o \in Obj, NEW ok \in BOOLEAN, SettleOverdue(o, ok)
  PROVE  SchedInv'
<1>1. TypeOK /\ TickHolds /\ WakesInTime
  BY DEF SchedInv
<1>2. /\ loose[o] > 0 /\ loose' = [loose EXCEPT ![o] = @ - 1] /\ Succeeds(o, ok)
      /\ UNCHANGED <<now, order, mode, tick, began, edits, meddled, slot, again>>
  BY DEF SettleOverdue
<1>3. loose[o] \in Nat /\ loose' \in [Obj -> Nat] /\ loose'[o] = loose[o] - 1 /\ \A p \in Obj : p # o => loose'[p] = loose[p]
  BY <1>1, <1>2 DEF TypeOK
<1>4. Flights(o) > 0 /\ \A p \in Obj : Flights(p)' = IF p = o THEN Flights(p) - 1 ELSE Flights(p)
  BY <1>2, <1>3 DEF Flights, Awaited
<1>5. overdue' \in [Id -> Obj \cup {NoObj}]
  BY <1>1 DEF SettleOverdue, TypeOK
<1>6. order \in Seq(Obj) /\ entry \in [Obj -> EntryType] /\ wakeAt \in 1 .. Never
  BY <1>1 DEF TypeOK, EntryType
<1>7. PICK es \in [Obj -> EntryType] :
        /\ es = [entry EXCEPT ![o].state = After(o)]
        /\ \A p \in Obj : es[p].lastRun = entry[p].lastRun /\ (p # o => es[p] = entry[p])
  BY <1>6, StateIs
<1>8. /\ wakeAt' \in 1 .. Never /\ WakesInTime'
      /\ entry' \in [Obj -> EntryType]
      /\ \A p \in Obj : entry'[p].lastRun = entry[p].lastRun /\ (p # o => entry'[p] = entry[p])
  <2>1. CASE Current(o[1]) = o
    <3>1. entry' = es /\ RequestsWake(order, es, o)
      BY <1>7, <2>1 DEF SettleOverdue
    <3>2. \A i \in DOMAIN order : order[i] \in Obj
      BY <1>6
    <3>3. \A i \in DOMAIN order :
            order[i] = o \/ (mode = "running" /\ tick.pc = "none" => wakeAt <= Latest(order[i], es[order[i]]))
      BY <1>1, <1>7, <3>2 DEF WakesInTime, Latest
    <3>4. /\ wakeAt' \in 1 .. Never
          /\ mode = "running" /\ tick.pc = "none" =>
               \A i \in DOMAIN order : wakeAt' <= Latest(order[i], es[order[i]])
      BY <1>1, <1>6, <3>1, <3>3, RequestsWakeFacts
    <3>5. WakesInTime'
      BY <1>2, <3>1, <3>4 DEF WakesInTime, Latest
    <3> QED
      BY <1>7, <3>1, <3>4, <3>5
  <2>2. CASE Current(o[1]) # o
    <3>1. entry' = entry /\ wakeAt' = wakeAt
      BY <2>2 DEF SettleOverdue
    <3>2. WakesInTime'
      BY <1>1, <1>2, <3>1 DEF WakesInTime
    <3> QED
      BY <1>6, <3>1, <3>2
  <2> QED
    BY <2>1, <2>2
<1>9. TickHolds' /\ tick' \in TickType /\ tick'.at = tick.at /\ tick'.obj = tick.obj /\ tick'.pc = tick.pc
  BY <1>1, <1>2, TickTypes DEF TickHolds
<1> QED
  BY <1>2, <1>3, <1>4, <1>5, <1>8, <1>9, LandKeeps

LEMMA DetachStep ==
  ASSUME SchedInv, Detach
  PROVE  SchedInv'
<1>1. TypeOK /\ TickHolds /\ tick.at <= now
  BY DEF SchedInv, Clocks
<1>2. /\ tick.pc = "overdue" /\ tick' = [tick EXCEPT !.pc = "scan", !.obj = NoObj]
      /\ UNCHANGED <<now, order, entry, wakeAt, mode, overdue, began, journal, edits, meddled, slot, done, again>>
  BY DEF Detach, sched, ghost
<1>3. PICK o \in Obj : o = tick.obj
  BY <1>1, <1>2 DEF TickHolds
<1>4. tick' \in TickType /\ tick'.pc = "scan" /\ tick'.at = tick.at
  BY <1>1, <1>2, TickTypes DEF TypeOK
<1>5. /\ loose' \in [Obj -> Nat] /\ loose[o] \in Nat /\ loose'[o] = loose[o] + 1
      /\ \A p \in Obj : loose[p] \in Nat /\ (p # o => loose'[p] = loose[p])
  BY <1>1, <1>3 DEF Detach, TypeOK
<1>6. \A p \in Obj : Flights(p)' = Flights(p)
  BY <1>2, <1>3, <1>4, <1>5 DEF Flights, Awaited
<1>7. TickHolds' /\ WakesInTime'
  BY <1>4 DEF TickHolds, WakesInTime
<1> QED
  BY <1>1, <1>2, <1>4, <1>5, <1>6, <1>7, QuietKeeps DEF TypeOK

LEMMA AttemptEndsStep ==
  ASSUME SchedInv, AttemptEnds
  PROVE  SchedInv'
<1>1. TypeOK /\ TickHolds /\ Clocks /\ FlightsHeld /\ RecordedQuiet /\ SlotsSpent /\ SlotOnce
  BY DEF SchedInv
<1>2. /\ tick.pc = "recorded" /\ tick' = [tick EXCEPT !.pc = "scan", !.obj = NoObj]
      /\ UNCHANGED <<now, order, wakeAt, mode, loose, overdue, began, journal, edits, meddled, slot, done, again>>
  BY DEF AttemptEnds, ghost
<1>3. PICK o \in Obj : o = tick.obj
  BY <1>1, <1>2 DEF TickHolds
<1>4. tick' \in TickType /\ tick'.pc = "scan" /\ tick'.at = tick.at
  BY <1>1, <1>2, TickTypes DEF TypeOK
<1>5. /\ entry' \in [Obj -> EntryType]
      /\ \A p \in Obj : entry'[p].lastRun = entry[p].lastRun /\ (p # o => entry'[p] = entry[p])
  <2>1. entry' = [entry EXCEPT ![o].state = After(o)] /\ entry \in [Obj -> EntryType]
    BY <1>1, <1>3 DEF AttemptEnds, TypeOK, EntryType
  <2> QED
    BY <2>1, StateIs
<1>6. \A p \in Obj : Flights(p)' = Flights(p)
  BY <1>2, <1>4 DEF Flights, Awaited
<1>7. TypeOK'
  BY <1>1, <1>2, <1>4, <1>5 DEF TypeOK, TickType, EntryType
<1>8. TickHolds' /\ Clocks' /\ RecordedQuiet' /\ SlotOnce' /\ WakesInTime'
  BY <1>1, <1>2, <1>4 DEF TickHolds, Clocks, RecordedQuiet, SlotOnce, WakesInTime
<1>9. Live' = Live /\ Live \subseteq Obj
  <2>1. Live' = Live
    BY <1>2 DEF Live
  <2> QED
    BY <1>1, <2>1, LiveObj
<1>10. \A p \in Obj : p[1] \notin meddled /\ Flights(p) > 0 => p # o
  BY <1>1, <1>2, <1>3 DEF RecordedQuiet
<1>11. FlightsHeld'
  BY <1>1, <1>2, <1>5, <1>6, <1>9, <1>10 DEF FlightsHeld
<1>12. SlotsSpent'
  BY <1>1, <1>2, <1>5, <1>9 DEF SlotsSpent
<1> QED
  BY <1>7, <1>8, <1>11, <1>12 DEF SchedInv

(* Time passes: what is due moves no closer. *)
LEMMA AdvanceStep ==
  ASSUME SchedInv, Advance
  PROVE  SchedInv'
<1>1. TypeOK /\ TickHolds /\ Clocks /\ FlightsHeld /\ RecordedQuiet /\ SlotsSpent /\ SlotOnce /\ WakesInTime
  BY DEF SchedInv
<1>2. /\ now < Horizon /\ now' = now + 1
      /\ UNCHANGED <<order, entry, wakeAt, mode, tick, loose, overdue, began, journal, edits, meddled, slot, done, again>>
  BY DEF Advance, sched, ghost
<1>3. now \in Nat /\ now' \in 1 .. Horizon /\ now \in 1 .. Horizon
  BY <1>1, <1>2, SchedulerAssumption DEF TypeOK
<1>4. TypeOK'
  BY <1>1, <1>2, <1>3 DEF TypeOK
<1>5. TickHolds' /\ FlightsHeld' /\ RecordedQuiet' /\ SlotsSpent' /\ SlotOnce'
  BY <1>1, <1>2 DEF TickHolds, FlightsHeld, RecordedQuiet, SlotsSpent, SlotOnce, Flights, Awaited, Live
<1>6. Clocks'
  <2>1. tick.at <= now + 1
    BY <1>1, <1>3 DEF TypeOK, Clocks
  <2>2. \A id \in Id : began[id] <= now + 1
    BY <1>1, <1>3 DEF TypeOK, Clocks
  <2> QED
    BY <1>1, <1>2, <2>1, <2>2 DEF Clocks
<1>7. WakesInTime'
  <2> SUFFICES ASSUME mode = "running", tick.pc = "none", NEW i \in DOMAIN order
               PROVE  wakeAt <= Max({NextDue(order[i], entry[order[i]], now + 1), Cap(now + 1 + Floor)})
    BY <1>2 DEF WakesInTime
  <2>1. order[i] \in Obj /\ entry[order[i]] \in EntryType
    <3>1. order[i] \in Obj
      BY <1>1, LiveObj DEF Live
    <3> QED
      BY <1>1, <3>1 DEF TypeOK, EntryType
  <2>2. wakeAt <= Max({NextDue(order[i], entry[order[i]], now), Cap(now + Floor)})
    BY <1>1 DEF WakesInTime
  <2>3. PICK a \in Nat : a = NextDue(order[i], entry[order[i]], now)
    BY <1>3, <2>1, NextDueMoves
  <2>4. PICK b \in Nat : b = NextDue(order[i], entry[order[i]], now + 1)
    BY <1>3, <2>1, NextDueMoves
  <2>5. a <= b
    BY <1>3, <2>1, <2>3, <2>4, NextDueMoves
  <2>6. PICK c \in Nat : c = Cap(now + Floor)
    BY <1>3, SchedulerAssumption DEF Cap
  <2>7. PICK d \in Nat : d = Cap(now + 1 + Floor)
    BY <1>3, SchedulerAssumption DEF Cap
  <2>8. c <= d
    BY <1>3, <2>6, <2>7, SchedulerAssumption DEF Cap
  <2>9. Max({a, c}) <= Max({b, d}) /\ Max({a, c}) \in Nat /\ Max({b, d}) \in Nat
    BY <2>5, <2>8, MaxOf
  <2>10. wakeAt \in Nat
    BY <1>1 DEF TypeOK
  <2>11. wakeAt <= Max({a, c})
    BY <2>2, <2>3, <2>6
  <2>12. wakeAt <= Max({b, d})
    BY <2>9, <2>10, <2>11
  <2> QED
    BY <2>4, <2>7, <2>12
<1> QED
  BY <1>4, <1>5, <1>6, <1>7 DEF SchedInv

-----------------------------------------------------------------------------
LEMMA SchedInit == Init => SchedInv
<1> SUFFICES ASSUME Init PROVE SchedInv
  OBVIOUS
<1> DEFINE Standers == {<<id, 1>> : id \in Standing}
<1>1. Standers \subseteq Obj
  BY SchedulerAssumption DEF Obj
<1>2. IsFiniteSet(Standers)
  <2> DEFINE number == [id \in Standing |-> <<id, 1>>]
  <2>1. number \in Surjection(Standing, Standers)
    BY DEF Surjection
  <2> QED
    BY <2>1, SchedulerAssumption, FS_Surjection
<1>3. Cardinality(Standers) \in Nat
  BY <1>2, FS_CardinalityType
<1>4. \A p, q \in Standers : p[1] = q[1] => p = q
  OBVIOUS
<1>5. /\ order \in [1 .. Cardinality(Standers) -> Standers]
      /\ \A i, j \in 1 .. Cardinality(Standers) : i # j => order[i] # order[j]
  BY DEF Init, SetToSeqs
<1> HIDE DEF Standers
<1>6. order \in Seq(Obj) /\ Once(order)
  BY <1>1, <1>3, <1>4, <1>5 DEF Once
<1>7. now = 1 /\ now \in 1 .. Horizon /\ Never \in 1 .. Never /\ Horizon \in Nat
  BY SchedulerAssumption DEF Init, Never
<1>8. entry \in [Obj -> EntryType]
  <2>1. PICK f \in [Standing -> UNION {Seeds(id) : id \in Standing}] :
          /\ \A id \in Standing : f[id] \in Seeds(id)
          /\ entry = [o \in Obj |-> IF o[1] \in Standing /\ o[2] = 1 THEN f[o[1]] ELSE Absent]
    BY DEF Init
  <2>2. \A id \in Standing : f[id] \in EntryType
    BY <1>7, <2>1, SeedsAre, SchedulerAssumption
  <2>3. Absent \in EntryType
    BY DEF Absent, Fresh, EntryType
  <2> QED
    BY <2>1, <2>2, <2>3
<1>9. TypeOK
  <2>1. tick \in TickType /\ NoObj \in Obj \cup {NoObj}
    BY DEF Init, NoTick, TickType
  <2>2. overdue \in [Id -> Obj \cup {NoObj}] /\ loose \in [Obj -> Nat] /\ began \in [Id -> Nat]
        /\ journal \in [Id -> Nat] /\ slot \in [Obj -> Nat] /\ edits \in 0 .. MaxEdits
    BY SchedulerAssumption DEF Init
  <2> QED
    BY <1>6, <1>7, <1>8, <2>1, <2>2 DEF Init, TypeOK, Once, TickType, EntryType
<1>10. tick.pc = "none" /\ tick.at = 0
  BY DEF Init, NoTick
<1>11. \A o \in Obj : Flights(o) = 0
  BY <1>10 DEF Init, Flights, Awaited
<1>12. TickHolds /\ FlightsHeld /\ RecordedQuiet /\ SlotsSpent /\ SlotOnce /\ WakesInTime
  BY <1>10, <1>11 DEF Init, TickHolds, FlightsHeld, RecordedQuiet, SlotsSpent, SlotOnce, WakesInTime
<1>13. Clocks
  <2>1. \A o \in Obj : o[1] \in Id
    BY DEF Obj
  <2> QED
    BY <1>7, <1>10, <2>1 DEF Init, Clocks
<1> QED
  BY <1>9, <1>12, <1>13 DEF SchedInv

LEMMA SchedStep == SchedInv /\ [Next]_vars => SchedInv'
<1> SUFFICES ASSUME SchedInv, [Next]_vars PROVE SchedInv'
  OBVIOUS
<1>1. CASE Tick
  BY <1>1, QuietStep, VisitStep, AttemptEndsStep, DetachStep, AttemptSettlesStep DEF Tick
<1>2. CASE \E o \in Obj, ok \in BOOLEAN : SettleOverdue(o, ok)
  BY <1>2, SettleOverdueStep
<1> QED
  BY <1>1, <1>2, QuietStep, AdvanceStep, ChangeStep, StutterStep DEF Next

LEMMA SchedInvariant == Spec => []SchedInv
BY SchedInit, SchedStep, PTL DEF Spec

(* No task runs beside itself, however long a handler runs past its budget and however      *)
(* often the task is due: the entry stays active until its handler has settled, unless the  *)
(* entry was replaced or overwritten while the handler ran (runTick, runAttempt,            *)
(* settleOverdueAttempt).                                                                   *)
THEOREM TasksRunAlone == Spec => []SingleFlight
<1>1. SchedInv => SingleFlight
  BY DEF SchedInv, FlightsHeld, SingleFlight
<1> QED
  BY <1>1, SchedInvariant, PTL

(* A slot that was run successfully is not run again, after a new registration and a replay *)
(* of the journal included, unless the reflection was changed while it ran                  *)
(* (isWallClockTaskDue, register, syncReflectionTasks).                                     *)
THEOREM SlotsRunOnce == Spec => []SlotOnce
<1>1. SchedInv => SlotOnce
  BY DEF SchedInv
<1> QED
  BY <1>1, SchedInvariant, PTL

(* Whatever is registered, changed, paused or ends, the timer is armed early enough for     *)
(* the next entry that is due (taskNextDueAt, computeNextWakeAt, armNextWake, requestWake). *)
THEOREM TimerInTime == Spec => []WakesInTime
<1>1. SchedInv => WakesInTime
  BY DEF SchedInv
<1> QED
  BY <1>1, SchedInvariant, PTL

(* Entries, tick and timer keep their types, and an id is registered once (the Map tasks). *)
THEOREM SchedulerTypes == Spec => []TypeOK
<1>1. SchedInv => TypeOK
  BY DEF SchedInv
<1> QED
  BY <1>1, SchedInvariant, PTL
============================================================================
