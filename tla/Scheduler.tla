----------------------------- MODULE Scheduler -----------------------------
(***************************************************************************)
(* The task scheduler of the agent process.  A timer that arms itself      *)
(* wakes a tick; the tick visits the registered tasks in the order of      *)
(* their registration and runs the due ones one after the other.  A        *)
(* handler that outlives its budget is told to stop and left behind, and   *)
(* its task stays active until it lets go.  Operators, the sandbox and the *)
(* reflection policy register, remove and change tasks at any time.        *)
(*                                                                         *)
(* A task entry is an object: an id and the number of its registration.    *)
(* Time is capped at Horizon, which stands for every later instant.        *)
(* Wall-clock slots are Period apart.                                      *)
(***************************************************************************)
EXTENDS Integers, Sequences, FiniteSets, SequencesExt, FiniteSetsExt

CONSTANTS
  Every,        \* ids of tasks with a relative interval
  Slotted,      \* ids of tasks with a wall-clock cadence: the reflections
  OneShot,      \* ids of one-shot tasks
  Standing,     \* ids that are registered before the scheduler starts
  Interval,     \* intervals of relative tasks
  Period,       \* distance of two slots
  Gap,          \* MIN_SCHEDULED_TEMPLATE_GAP_MS
  Offset,       \* stagger of the companion within its window
  Floor,        \* MIN_WAKE_MS
  Ceiling,      \* tickIntervalMs
  Horizon,      \* bound: the last instant told apart
  MaxEdits      \* bound: registrations and changes

Id == Every \cup Slotted \cup OneShot

ASSUME SchedulerAssumption ==
  /\ Every \cap Slotted = {} /\ Every \cap OneShot = {} /\ Slotted \cap OneShot = {}
  /\ Standing \subseteq Id /\ IsFiniteSet(Standing)
  /\ Interval \subseteq Nat \ {0} /\ Interval # {}
  /\ Period \in Nat \ {0}
  /\ Gap \in Nat
  /\ Offset \in 0 .. Period - 1
  /\ Floor \in Nat \ {0} /\ Ceiling \in Nat /\ Floor <= Ceiling
  /\ Horizon \in Nat \ {0}
  /\ MaxEdits \in Nat

VARIABLES
  now,       \* the clock; 0 is the lastRun of a task that never ran
  order,     \* the Map of tasks: its entries in the order of insertion
  entry,     \* their fields
  wakeAt,    \* the instant the timer is armed for, or Never
  mode,      \* new, running, draining or stopped
  tick,      \* the tick in flight
  loose,     \* how many abandoned handlers of an entry still run
  overdue,   \* overdueAttempts
  began,     \* lastScheduledRunAt of a reflection, 0 if none
  journal,   \* beginning of its last successful run, 0 if none
  edits,     \* changes so far
  meddled,   \* ghost: ids that were changed while a handler of theirs ran
  slot,      \* ghost: the slot an entry was last started for
  done,      \* ghost: slots with a successful run
  again      \* ghost: slots that were started after that

sched == <<order, entry, wakeAt>>
ghost == <<meddled, slot, done, again>>
vars  == <<now, order, entry, wakeAt, mode, tick, loose, overdue, began, journal, edits,
           meddled, slot, done, again>>

-----------------------------------------------------------------------------
Obj    == Id \X (1 .. MaxEdits + 1)
NoObj  == <<"none", 0>>
Never  == Horizon + 1
NoTick == [pc |-> "none", at |-> 0, seen |-> {}, obj |-> NoObj]
Cap(t) == IF t < Horizon THEN t ELSE Horizon

Registered(id) == {i \in DOMAIN order : order[i][1] = id}
Position(id)   == CHOOSE i \in Registered(id) : TRUE
Current(id)    == IF Registered(id) = {} THEN NoObj ELSE order[Position(id)]

(* How many handlers of an entry run now. *)
Awaited(o) == IF tick.pc \in {"attempt", "overdue"} /\ tick.obj = o THEN 1 ELSE 0
Flights(o) == loose[o] + Awaited(o)

(* getCurrentSlotStart, getCurrentStaggeredSlotStart, getNextStaggeredSlotStart *)
BaseSlot(t) == (t \div Period) * Period
Slot(t)     == BaseSlot(t) + Offset
NextSlot(t) == IF Slot(t) > t THEN Slot(t) ELSE Slot(t) + Period

(* Mutant of SlotDue: a run at the beginning of its slot does not count. *)
SlotDueAgain(last, t) == t >= Slot(t) /\ last <= Slot(t)

(* isWallClockTaskDue *)
SlotDue(last, t) == t >= Slot(t) /\ last < Slot(t)

(* The due check of runTick. *)
Due(o, e, t) ==
  CASE o[1] \in Every   -> e.lastRun = 0 \/ t - e.lastRun >= e.when
    [] o[1] \in Slotted -> SlotDue(e.lastRun, t)
    [] o[1] \in OneShot -> t >= e.when

(* taskNextDueAt *)
NextDue(o, e, t) ==
  IF e.state # "idle" THEN Never
  ELSE CASE o[1] \in Every   -> IF e.lastRun = 0 THEN t ELSE e.lastRun + e.when
         [] o[1] \in Slotted -> IF SlotDue(e.lastRun, t) THEN t ELSE NextSlot(t)
         [] o[1] \in OneShot -> e.when

(* computeNextWakeAt and the clamp of armNextWake. *)
Wake(ord, es) ==
  Cap(Max({now + Floor,
           Min({now + Ceiling} \cup {NextDue(ord[i], es[ord[i]], now) : i \in DOMAIN ord})}))

(* armNextWake *)
Arms(ord, es) ==
  wakeAt' = IF mode = "running" /\ tick.pc \in {"none", "rearm"} THEN Wake(ord, es) ELSE wakeAt

(* Mutant of RequestsWake: the timer is left as it is. *)
RequestsWakeNot(ord, es, o) == UNCHANGED wakeAt

(* requestWake for one entry. *)
RequestsWake(ord, es, o) ==
  IF wakeAt <= NextDue(o, es[o], now) THEN UNCHANGED wakeAt ELSE Arms(ord, es)

-----------------------------------------------------------------------------
Fresh(last, when) == [state |-> "idle", lastRun |-> last, when |-> when]
Absent == Fresh(0, 0)

(* What a task may be registered with: its first run, and its interval or instant. *)
Seeds(id) ==
  CASE id \in Every   -> {Fresh(last, n) : last \in {0, now, Cap(now + 1)}, n \in Interval}
    [] id \in Slotted -> {Fresh(now, 0)}
    [] id \in OneShot -> {Fresh(0, t) : t \in now .. Cap(now + 2)}

Init ==
  /\ now = 1
  /\ order \in SetToSeqs({<<id, 1>> : id \in Standing})
  /\ \E f \in [Standing -> UNION {Seeds(id) : id \in Standing}] :
       /\ \A id \in Standing : f[id] \in Seeds(id)
       /\ entry = [o \in Obj |-> IF o[1] \in Standing /\ o[2] = 1 THEN f[o[1]] ELSE Absent]
  /\ wakeAt = Never
  /\ mode = "new"
  /\ tick = NoTick
  /\ loose = [o \in Obj |-> 0]
  /\ overdue = [id \in Id |-> NoObj]
  /\ began = [id \in Id |-> 0]
  /\ journal = [id \in Id |-> 0]
  /\ edits = 0
  /\ meddled = {}
  /\ slot = [o \in Obj |-> 0]
  /\ done = {}
  /\ again = {}

Start ==
  /\ mode = "new"
  /\ mode' = "running"
  /\ wakeAt' = Wake(order, entry)
  /\ UNCHANGED <<now, order, entry, tick, loose, overdue, began, journal, edits, ghost>>

-----------------------------------------------------------------------------
(* Registration and changes *)

Busy(id) ==
  \/ \E o \in Obj : o[1] = id /\ Flights(o) > 0
  \/ Current(id) # NoObj /\ entry[Current(id)].state = "active"

Changes(id) ==
  /\ mode # "new"
  /\ edits < MaxEdits
  /\ edits' = edits + 1
  /\ meddled' = IF Busy(id) THEN meddled \cup {id} ELSE meddled
  /\ UNCHANGED <<now, mode, tick, loose, overdue, began, journal, slot, done, again>>

(* A registration under a new number, and the timer for it. *)
Inserts(ord, id, e) ==
  LET o  == <<id, edits + 2>>
      es == [entry EXCEPT ![o] = e]
  IN  /\ order' = Append(ord, o)
      /\ entry' = es
      /\ RequestsWake(Append(ord, o), es, o)

Register(id) ==
  /\ Changes(id)
  /\ Current(id) = NoObj
  /\ \E e \in Seeds(id) : Inserts(order, id, e)

Unregister(id) ==
  /\ Changes(id)
  /\ Current(id) # NoObj
  /\ order' = RemoveAt(order, Position(id))
  /\ UNCHANGED <<entry, wakeAt>>

(* syncReflectionTasks: every reflection is registered anew, from its journal. *)
Sync(id) ==
  /\ Changes(id)
  /\ id \in Slotted
  /\ Current(id) # NoObj
  /\ Inserts(RemoveAt(order, Position(id)), id,
             Fresh(IF journal[id] # 0 THEN journal[id] ELSE now, 0))

(* updateTask *)
Updates(id, e) ==
  LET o  == Current(id)
      es == [entry EXCEPT ![o] = e]
  IN  /\ Changes(id)
      /\ entry' = es
      /\ RequestsWake(order, es, o)
      /\ UNCHANGED order

Enable(id) ==
  /\ id \notin OneShot /\ Current(id) # NoObj
  /\ Updates(id, [entry[Current(id)] EXCEPT !.state = "idle"])

Pause(id) ==
  /\ id \notin OneShot /\ Current(id) # NoObj
  /\ Updates(id, [entry[Current(id)] EXCEPT !.state = "paused"])

(* Another interval, cadence or instant. *)
Reschedule(id) ==
  /\ Current(id) # NoObj
  /\ LET e == entry[Current(id)]
     IN  \/ /\ id \in Every
            /\ \E n \in Interval, last \in {e.lastRun, now} :
                 Updates(id, [e EXCEPT !.when = n, !.lastRun = last])
         \/ id \in Slotted /\ Updates(id, [e EXCEPT !.lastRun = now])
         \/ /\ id \in OneShot
            /\ \E t \in now .. Cap(now + 2) : Updates(id, [e EXCEPT !.when = t])

(* updateConfig: another interval of the heartbeat, and the timer is set anew. *)
UpdateConfig(id) ==
  LET o == Current(id)
  IN  /\ Changes(id)
      /\ id \in Every /\ o # NoObj
      /\ \E n \in Interval :
           LET es == [entry EXCEPT ![o].when = n]
           IN  entry' = es /\ Arms(order, es)
      /\ UNCHANGED order

-----------------------------------------------------------------------------
(* The tick *)

TimerFires ==
  /\ tick.pc = "none"
  /\ wakeAt <= now
  /\ wakeAt' = Never
  /\ tick' = [pc |-> "scan", at |-> now, seen |-> {}, obj |-> NoObj]
  /\ UNCHANGED <<now, order, entry, mode, loose, overdue, began, journal, edits, ghost>>

Ready(o) == entry[o].state = "idle" /\ Due(o, entry[o], tick.at)

(* Positions the loop has yet to reach: what was added during the tick is last. *)
Ahead == {i \in DOMAIN order : order[i] \notin tick.seen /\ Ready(order[i])}

Visits(pc) ==
  LET i == Min(Ahead)
      o == order[i]
  IN  /\ tick.pc = "scan"
      /\ Ahead # {}
      /\ tick' = [tick EXCEPT !.pc = pc, !.obj = o, !.seen = @ \cup {order[j] : j \in 1 .. i}]
      /\ UNCHANGED <<now, order, wakeAt, mode, loose, overdue, journal, edits, meddled, done>>

(* The eligibility gate says no. *)
Deny ==
  LET o == order[Min(Ahead)]
  IN  /\ Visits("scan")
      /\ entry' = [entry EXCEPT ![o].lastRun = tick.at,
                                ![o].state = IF o[1] \in OneShot THEN "complete" ELSE "idle"]
      /\ UNCHANGED <<began, slot, again>>

Rapid(id) == id \in Slotted /\ began[id] # 0 /\ now - began[id] < Gap

RunAttempt ==
  LET o == order[Min(Ahead)]
  IN  /\ Visits("attempt")
      /\ ~Rapid(o[1])
      /\ entry' = [entry EXCEPT ![o].lastRun = tick.at, ![o].state = "active"]
      /\ began' = IF o[1] \in Slotted THEN [began EXCEPT ![o[1]] = now] ELSE began
      /\ slot' = IF o[1] \in Slotted THEN [slot EXCEPT ![o] = Slot(tick.at)] ELSE slot
      /\ again' = again \cup ({<<o[1], Slot(tick.at)>>} \cap done)

(* The handler of a reflection that has begun a moment ago returns at once. *)
RefireSkipped ==
  LET o == order[Min(Ahead)]
  IN  /\ Visits("recorded")
      /\ Rapid(o[1])
      /\ entry' = [entry EXCEPT ![o].lastRun = tick.at, ![o].state = "active"]
      /\ UNCHANGED <<began, slot, again>>

(* A successful run of a reflection is journaled by its handler. *)
Succeeds(o, ok) ==
  /\ journal' = IF ok THEN [journal EXCEPT ![o[1]] = began[o[1]]] ELSE journal
  /\ done' = IF ok /\ o[1] \in Slotted THEN done \cup {<<o[1], slot[o]>>} ELSE done

AttemptSettles(ok) ==
  /\ tick.pc = "attempt"
  /\ tick' = [tick EXCEPT !.pc = "recorded"]
  /\ Succeeds(tick.obj, ok)
  /\ UNCHANGED <<now, sched, mode, loose, overdue, began, edits, meddled, slot, again>>

After(o) == IF o[1] \in OneShot THEN "complete" ELSE "idle"

(* The event was delivered. *)
AttemptEnds ==
  /\ tick.pc = "recorded"
  /\ entry' = [entry EXCEPT ![tick.obj].state = After(tick.obj)]
  /\ tick' = [tick EXCEPT !.pc = "scan", !.obj = NoObj]
  /\ UNCHANGED <<now, order, wakeAt, mode, loose, overdue, began, journal, edits, ghost>>

(* Mutant of BudgetExpires: the attempt has no budget. *)
BudgetUnset == FALSE /\ UNCHANGED vars

(* failOverdueAttempt *)
BudgetExpires ==
  /\ tick.pc = "attempt"
  /\ overdue' = [overdue EXCEPT ![tick.obj[1]] = tick.obj]
  /\ tick' = [tick EXCEPT !.pc = "overdue"]
  /\ UNCHANGED <<now, sched, mode, loose, began, journal, edits, ghost>>

(* Mutant of Detach: the task returns to the rotation with the failure. *)
DetachIdle ==
  /\ tick.pc = "overdue"
  /\ loose' = [loose EXCEPT ![tick.obj] = @ + 1]
  /\ entry' = [entry EXCEPT ![tick.obj].state = After(tick.obj)]
  /\ tick' = [tick EXCEPT !.pc = "scan", !.obj = NoObj]
  /\ UNCHANGED <<now, order, wakeAt, mode, overdue, began, journal, edits, ghost>>

Detach ==
  /\ tick.pc = "overdue"
  /\ loose' = [loose EXCEPT ![tick.obj] = @ + 1]
  /\ tick' = [tick EXCEPT !.pc = "scan", !.obj = NoObj]
  /\ UNCHANGED <<now, sched, mode, overdue, began, journal, edits, ghost>>

(* settleOverdueAttempt *)
SettleOverdue(o, ok) ==
  LET es == [entry EXCEPT ![o].state = After(o)]
  IN  /\ loose[o] > 0
      /\ loose' = [loose EXCEPT ![o] = @ - 1]
      /\ overdue' = IF overdue[o[1]] = o THEN [overdue EXCEPT ![o[1]] = NoObj] ELSE overdue
      /\ IF Current(o[1]) = o THEN entry' = es /\ RequestsWake(order, es, o)
                              ELSE UNCHANGED <<entry, wakeAt>>
      /\ Succeeds(o, ok)
      /\ UNCHANGED <<now, order, mode, tick, began, edits, meddled, slot, again>>

(* tickInFlight is cleared; the timer follows in a later microtask. *)
TickEnds ==
  /\ tick.pc = "scan"
  /\ Ahead = {}
  /\ tick' = [NoTick EXCEPT !.pc = "rearm"]
  /\ UNCHANGED <<now, sched, mode, loose, overdue, began, journal, edits, ghost>>

Rearm ==
  /\ tick.pc = "rearm"
  /\ Arms(order, entry)
  /\ tick' = NoTick
  /\ UNCHANGED <<now, order, entry, mode, loose, overdue, began, journal, edits, ghost>>

-----------------------------------------------------------------------------
Stop ==
  /\ mode = "running"
  /\ mode' = IF tick.pc \in {"none", "rearm"} THEN "stopped" ELSE "draining"
  /\ wakeAt' = Never
  /\ UNCHANGED <<now, order, entry, tick, loose, overdue, began, journal, edits, ghost>>

Drained ==
  /\ mode = "draining"
  /\ tick.pc \in {"none", "rearm"}
  /\ mode' = "stopped"
  /\ UNCHANGED <<now, sched, tick, loose, overdue, began, journal, edits, ghost>>

Advance ==
  /\ now < Horizon
  /\ now' = now + 1
  /\ UNCHANGED <<sched, mode, tick, loose, overdue, began, journal, edits, ghost>>

Change ==
  \E id \in Id : Register(id) \/ Unregister(id) \/ Sync(id) \/ Enable(id) \/ Pause(id)
                 \/ Reschedule(id) \/ UpdateConfig(id)

Tick ==
  \/ TimerFires \/ Deny \/ RunAttempt \/ RefireSkipped \/ AttemptEnds \/ BudgetExpires \/ Detach
  \/ TickEnds \/ Rearm
  \/ \E ok \in BOOLEAN : AttemptSettles(ok)

Next ==
  \/ Start \/ Stop \/ Drained \/ Advance \/ Change \/ Tick
  \/ \E o \in Obj, ok \in BOOLEAN : SettleOverdue(o, ok)

Spec == Init /\ [][Next]_vars

(* Timers fire, events are delivered and time passes.  A handler need not end: its
   budget does. *)
Fairness ==
  /\ WF_vars(TimerFires) /\ WF_vars(Deny \/ RunAttempt \/ RefireSkipped) /\ WF_vars(AttemptEnds)
  /\ WF_vars(BudgetExpires) /\ WF_vars(Detach) /\ WF_vars(TickEnds) /\ WF_vars(Rearm)
  /\ WF_vars(Advance)

FairSpec == Spec /\ Fairness

-----------------------------------------------------------------------------
(* Entries, the tick and the timer have their type, and an id is registered once. *)
TypeOK ==
  /\ now \in 1 .. Horizon
  /\ order \in Seq(Obj)
  /\ \A i, j \in DOMAIN order : order[i][1] = order[j][1] => i = j
  /\ entry \in [Obj -> [state : {"idle", "active", "paused", "complete"},
                        lastRun : Nat, when : Nat]]
  /\ wakeAt \in 1 .. Never
  /\ mode \in {"new", "running", "draining", "stopped"}
  /\ tick \in [pc : {"none", "scan", "attempt", "recorded", "overdue", "rearm"},
               at : Nat, seen : SUBSET Obj, obj : Obj \cup {NoObj}]
  /\ loose \in [Obj -> Nat]
  /\ overdue \in [Id -> Obj \cup {NoObj}]
  /\ began \in [Id -> Nat]
  /\ journal \in [Id -> Nat]
  /\ edits \in 0 .. MaxEdits
  /\ meddled \subseteq Id
  /\ slot \in [Obj -> Nat]
  /\ done \subseteq Slotted \X Nat
  /\ again \subseteq Id \X Nat

(* No task runs beside itself, also when its handler was left behind by the budget,
   unless its entry was replaced or overwritten while the handler ran
   (runAttempt, settleOverdueAttempt). *)
SingleFlight ==
  \A o, p \in Obj :
    o[1] = p[1] /\ o[1] \notin meddled /\ Flights(o) > 0 /\ Flights(p) > 0 =>
      o = p /\ Flights(o) = 1

(* Between two ticks the timer is armed, and for no later than the moment the first
   idle task is due: whatever brings a due time forward moves the timer too
   (register, updateTask, settleOverdueAttempt, armNextWake). *)
WakesInTime ==
  mode = "running" /\ tick.pc = "none" =>
    \A i \in DOMAIN order :
      wakeAt <= Max({NextDue(order[i], entry[order[i]], now), Cap(now + Floor)})

(* A slot that was run successfully is not run again, unless the reflection was
   changed while it ran, before its run was journaled (register,
   isWallClockTaskDue, syncReflectionTasks). *)
SlotOnce == \A s \in again : s[1] \in meddled

Waiting(id) ==
  LET o == Current(id)
  IN  mode = "running" /\ o # NoObj /\ entry[o].state = "idle" /\ Due(o, entry[o], now)

(* A due task gets its turn, even if every handler before it hangs for ever
   (runAttempt, failOverdueAttempt). *)
DueRuns == \A id \in Id : Waiting(id) ~> ~Waiting(id)
=============================================================================
