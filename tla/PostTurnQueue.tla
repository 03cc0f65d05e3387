--------------------------- MODULE PostTurnQueue ---------------------------
(***************************************************************************)
(* The queue of deferred post-turn actions.  Turns infer actions; an       *)
(* action is queued under its dedupe key, saved to a file before it can be *)
(* seen, folded into what already waits under the key when the handlers of *)
(* its kind keep a watermark, run by a periodic executor one at a time,    *)
(* retried, and taken from the queue when it is over.  After a crash the   *)
(* queue is read back from the file.                                       *)
(*                                                                         *)
(* Two lanes are modelled: appraisal, whose overflow is dropped, and       *)
(* maintenance reflection, which waits until the agent is idle and keeps   *)
(* every demand.  nextRunAt is the flag due and runs of one lane that are  *)
(* due start in any order.  The admission window of the maintenance lane   *)
(* always holds the entry that is due first, so it does not show here.     *)
(* An action that is already queued, or whose key is taken and keeps no    *)
(* watermark, is deduplicated: a stuttering step.                          *)
(***************************************************************************)
EXTENDS Naturals, FiniteSets

CONSTANTS
  Key,          \* dedupe keys
  Action,       \* inferred actions
  KeyOf,        \* dedupe key of an action
  InferredAt,   \* the time an action was inferred at
  Appraisal,    \* keys of the appraisal lane; the others are in maintenance
  Watermark,    \* keys whose handlers coalesce demand
  Capacity,     \* maxQueuedActions of the appraisal lane
  RunsPerTick,  \* maxRunsPerSchedulerTick of a lane
  MaxRetries,   \* maxRetries of every action
  Unreadable,   \* the file may be unreadable when the process starts
  MaxFaults,    \* bound: failing writes, crashes
  MaxDefers     \* bound: reschedules and contentions

None == "none"
Lane == {"appraisal", "maintenance"}

ASSUME QueueAssumption ==
  /\ None \notin Action \cup Key
  /\ KeyOf \in [Action -> Key]
  /\ InferredAt \in [Action -> Nat]
  /\ Appraisal \subseteq Key
  /\ Watermark \subseteq Key
  /\ Capacity \in Nat \ {0}
  /\ RunsPerTick \in [Lane -> Nat \ {0}]
  /\ MaxRetries \in Nat
  /\ Unreadable \in BOOLEAN
  /\ MaxFaults \in Nat
  /\ MaxDefers \in Nat

VARIABLES
  queue,      \* the Map in memory: an entry, or NoEntry
  disk,       \* the file
  run,        \* the run in progress and the entry object it holds
  processing, \* processQueue is under way
  ran,        \* classRunCounts of this tick
  sidecar,    \* keys in the quarantine file
  open,       \* ghost: accepted demand that is not over
  arrived,    \* ghost: actions inferred so far
  faults,     \* faults so far
  defers      \* reschedules so far

ghost == <<open, arrived>>
vars  == <<queue, disk, run, processing, ran, sidecar, open, arrived, faults, defers>>

-----------------------------------------------------------------------------
NoEntry == [action |-> None, pending |-> None, attempt |-> 0, due |-> FALSE, since |-> 0, cover |-> 0]
Empty == [k \in Key |-> NoEntry]
Idle  == [pc |-> "none", key |-> None, entry |-> NoEntry, serves |-> {}]

Entry == [action : Action, pending : Action \cup {None}, attempt : 0 .. MaxRetries + 2,
          due : BOOLEAN, since : Nat, cover : Nat]

(* createDeferredPostTurnQueueEntry *)
Created(a, due) ==
  [action |-> a, pending |-> None, attempt |-> 0, due |-> due,
   since |-> InferredAt[a], cover |-> InferredAt[a]]

LaneOf(k)  == IF k \in Appraisal THEN "appraisal" ELSE "maintenance"
Queued(q)  == {k \in Key : q[k] # NoEntry}
Least(m, n) == IF m < n THEN m ELSE n
Most(m, n) == IF m < n THEN n ELSE m
Demand(k)  == {a \in open : KeyOf[a] = k}
Runs(k)    == run.pc # "none" /\ run.key = k
Executes(k) == run.pc = "executing" /\ run.key = k

(* A write of the file: it holds what it was asked to, or what it held before. *)
Saves(q) ==
  \/ disk' = q /\ UNCHANGED faults
  \/ faults < MaxFaults /\ faults' = faults + 1 /\ UNCHANGED disk

(* normalizePersistedQueueEntry: what the file may hold. *)
Consistent(e) ==
  /\ e.since <= InferredAt[e.action]
  /\ InferredAt[e.action] <= e.cover
  /\ e.pending = None \/ InferredAt[e.pending] <= e.cover

Readable(e) == e.attempt <= MaxRetries + 1 /\ Consistent(e)

Init ==
  /\ queue = Empty
  /\ disk = Empty
  /\ run = Idle
  /\ processing = FALSE
  /\ ran = [l \in Lane |-> 0]
  /\ sidecar = {}
  /\ open = {}
  /\ arrived = {}
  /\ faults = 0
  /\ defers = 0

-----------------------------------------------------------------------------
(* queueAction *)

(* Assumption: actions are queued in the order they were inferred in. *)
Arrives(a) ==
  /\ a \notin arrived
  /\ \A b \in Action \ arrived : InferredAt[a] <= InferredAt[b]

(* What leaves with an overflow is the end of the lane by the beginning of its demand,
   then by its time to run: that of an entry that is due has come, and the new entry is
   the last of those that are equal. *)
Overflow(q, k) ==
  LET lane == Queued(q) \cap Appraisal
      last == {x \in lane : \A y \in lane : q[y].since <= q[x].since}
      late == {x \in last : ~q[x].due}
      ends == IF late # {} THEN late ELSE IF k \in last THEN {k} ELSE last
  IN  IF k \in Appraisal /\ Cardinality(lane) > Capacity THEN {{d} : d \in ends} ELSE {{}}

(* A new key: the candidate state is saved before it can be seen. *)
Enqueue(a, due) ==
  LET k    == KeyOf[a]
      with == [queue EXCEPT ![k] = Created(a, due)]
  IN  /\ Arrives(a)
      /\ queue[k] = NoEntry
      /\ \E lost \in Overflow(with, k) :
           LET left == [x \in Key |-> IF x \in lost THEN NoEntry ELSE with[x]]
           IN  /\ queue' = left
               /\ disk' = left
               /\ open' = (open \cup {a}) \ {b \in Action : KeyOf[b] \in lost}
      /\ arrived' = arrived \cup {a}
      /\ UNCHANGED <<run, processing, ran, sidecar, faults, defers>>

(* Mutant of Coalesced: demand that arrives during the run replaces its action. *)
CoalescedOverRun(e, a, due, busy) ==
  LET latest == InferredAt[a] >= e.cover
  IN  [e EXCEPT !.action = IF latest THEN a ELSE e.action,
                !.since = Least(e.since, InferredAt[a]),
                !.cover = Most(e.cover, InferredAt[a])]

(* coalesceDeferredPostTurnQueueEntry: busy, the current run must finish. *)
Coalesced(e, a, due, busy) ==
  LET latest == InferredAt[a] >= e.cover
      later  == e.pending = None \/ InferredAt[a] >= InferredAt[e.pending]
  IN  [e EXCEPT !.action = IF ~busy /\ latest THEN a ELSE e.action,
                !.pending = IF busy THEN (IF later THEN a ELSE e.pending) ELSE None,
                !.since = Least(e.since, InferredAt[a]),
                !.cover = Most(e.cover, InferredAt[a]),
                !.due = IF busy \/ e.attempt > 0 THEN e.due ELSE e.due \/ due]

(* Mutant of Coalesce: the demand is accepted whether it was saved or not. *)
CoalesceUnsaved(a, due) ==
  LET k    == KeyOf[a]
      next == [queue EXCEPT ![k] = Coalesced(queue[k], a, due,
                                             Executes(k) \/ queue[k].pending # None)]
  IN  /\ Arrives(a) /\ queue[k] # NoEntry /\ k \in Watermark
      /\ queue' = next
      /\ Saves(next)
      /\ open' = open \cup {a}
      /\ arrived' = arrived \cup {a}
      /\ UNCHANGED <<run, processing, ran, sidecar, defers>>

Coalesce(a, due) ==
  LET k    == KeyOf[a]
      next == [queue EXCEPT ![k] = Coalesced(queue[k], a, due,
                                             Executes(k) \/ queue[k].pending # None)]
  IN  /\ Arrives(a)
      /\ queue[k] # NoEntry
      /\ k \in Watermark
      /\ queue' = next
      /\ disk' = next
      /\ open' = open \cup {a}
      /\ arrived' = arrived \cup {a}
      /\ UNCHANGED <<run, processing, ran, sidecar, faults, defers>>

(* Neither is accepted when the file cannot be written: the producer sees the error. *)
EnqueueThrows(a) ==
  /\ Arrives(a)
  /\ queue[KeyOf[a]] = NoEntry \/ KeyOf[a] \in Watermark
  /\ faults < MaxFaults
  /\ faults' = faults + 1
  /\ arrived' = arrived \cup {a}
  /\ UNCHANGED <<queue, disk, run, processing, ran, sidecar, open, defers>>

(* cancel, acknowledge: refused while the entry runs. *)
Cancel(k) ==
  LET left == [queue EXCEPT ![k] = NoEntry]
  IN  /\ queue[k] # NoEntry
      /\ ~Runs(k)
      /\ queue' = left
      /\ Saves(left)
      /\ open' = open \ Demand(k)
      /\ UNCHANGED <<run, processing, ran, sidecar, arrived, defers>>

-----------------------------------------------------------------------------
(* processQueue and runNextDueAction *)

Ready(k) == queue[k] # NoEntry /\ queue[k].due /\ ran[LaneOf(k)] < RunsPerTick[LaneOf(k)]

(* Appraisal comes first. *)
First(k) == Ready(k) /\ (k \in Appraisal \/ \A x \in Appraisal : ~Ready(x))

(* Mutant of Tick: the counts of the lanes are not reset. *)
TickKeepsCounts ==
  /\ ~processing
  /\ processing' = TRUE
  /\ UNCHANGED <<queue, disk, run, ran, sidecar, ghost, faults, defers>>

Tick ==
  /\ ~processing
  /\ processing' = TRUE
  /\ ran' = [l \in Lane |-> 0]
  /\ UNCHANGED <<queue, disk, run, sidecar, ghost, faults, defers>>

TickEnds ==
  /\ processing
  /\ run.pc = "none"
  /\ \A k \in Key : ~Ready(k)
  /\ processing' = FALSE
  /\ UNCHANGED <<queue, disk, run, ran, sidecar, ghost, faults, defers>>

(* No handler is registered for the kind, or the gate says no. *)
Refuse(k) ==
  LET left == [queue EXCEPT ![k] = NoEntry]
  IN  /\ processing /\ run.pc = "none" /\ First(k)
      /\ ran' = [ran EXCEPT ![LaneOf(k)] = @ + 1]
      /\ queue' = left
      /\ Saves(left)
      /\ open' = open \ Demand(k)
      /\ UNCHANGED <<run, processing, sidecar, arrived, defers>>

Execution(k, e) ==
  [pc |-> "executing", key |-> k, entry |-> e,
   serves |-> {a \in Demand(k) : InferredAt[a] <= InferredAt[e.action]}]

(* The attempt is counted and saved before anything runs. *)
Start(k) ==
  LET e    == [queue[k] EXCEPT !.attempt = @ + 1]
      next == [queue EXCEPT ![k] = e]
  IN  /\ processing /\ run.pc = "none" /\ First(k)
      /\ ran' = [ran EXCEPT ![LaneOf(k)] = @ + 1]
      /\ queue' = next
      /\ Saves(next)
      /\ run' = IF k \in Appraisal THEN Execution(k, e)
                ELSE [pc |-> "waiting", key |-> k, entry |-> e, serves |-> {}]
      /\ UNCHANGED <<processing, sidecar, ghost, defers>>

(* The agent is idle; what was folded in meanwhile is what runs. *)
ForegroundIdle ==
  LET live == queue[run.key]
  IN  /\ run.pc = "waiting"
      /\ run' = Execution(run.key, IF live # NoEntry THEN live ELSE run.entry)
      /\ UNCHANGED <<queue, disk, processing, ran, sidecar, ghost, faults, defers>>

(* persistRunningCheckpoint: what is live, with the progress of the run. *)
Checkpointed(e) ==
  LET k    == run.key
      live == IF queue[k] # NoEntry THEN queue[k] ELSE e
  IN  [queue EXCEPT ![k] = [live EXCEPT !.action = e.action, !.attempt = e.attempt, !.due = e.due]]

(* advancePastFinishedAction: the successor takes the place of the finished action. *)
Advanced(due) ==
  LET k    == run.key
      live == queue[k]
  IN  [queue EXCEPT ![k] =
         IF live = NoEntry \/ live.pending = None THEN NoEntry
         ELSE [live EXCEPT !.action = live.pending, !.pending = None, !.attempt = 0,
                           !.due = due, !.since = InferredAt[live.pending]]]

Finishes(next) ==
  /\ run.pc = "executing"
  /\ queue' = next
  /\ Saves(next)
  /\ run' = Idle
  /\ UNCHANGED <<processing, ran, sidecar, arrived>>

(* The handlers are done, or the last attempt failed. *)
Over(due) ==
  /\ Finishes(Advanced(due))
  /\ open' = open \ run.serves
  /\ UNCHANGED defers

(* A failure that is retried after a delay. *)
Retry ==
  /\ run.pc = "executing" /\ run.entry.attempt <= MaxRetries
  /\ Finishes(Checkpointed([run.entry EXCEPT !.due = FALSE]))
  /\ UNCHANGED <<open, defers>>

(* rescheduleAt, or a contention: the attempt is given back. *)
Defer ==
  /\ run.pc = "executing"
  /\ defers < MaxDefers
  /\ defers' = defers + 1
  /\ Finishes(Checkpointed([run.entry EXCEPT !.due = FALSE,
                                             !.attempt = IF @ > 0 THEN @ - 1 ELSE 0]))
  /\ UNCHANGED open

(* The time of a delayed entry comes. *)
Elapse(k) ==
  /\ queue[k] # NoEntry /\ ~queue[k].due
  /\ queue' = [queue EXCEPT ![k].due = TRUE]
  /\ UNCHANGED <<disk, run, processing, ran, sidecar, ghost, faults, defers>>

-----------------------------------------------------------------------------
(* hydrateQueue after a crash. *)

(* A timer that has run out while the process was down is due. *)
Restart ==
  LET bad  == {k \in Queued(disk) : ~Readable(disk[k])}
      good == [k \in Key |-> IF k \in bad THEN NoEntry ELSE disk[k]]
  IN  /\ faults < MaxFaults
      /\ faults' = faults + 1
      /\ queue' = good
      /\ open' = open \ {a \in Action : KeyOf[a] \in bad}
      /\ \/ disk' = (IF bad = {} THEN disk ELSE good) /\ sidecar' = bad
         \/ disk' = disk /\ sidecar' \in {bad, sidecar}  \* one of the writes fails
      /\ run' = Idle
      /\ processing' = FALSE
      /\ UNCHANGED <<ran, arrived, defers>>

(* The file cannot be read: the queue starts empty, its demand is given up (the
   error is logged), and the file stays until the next write. *)
RestartUnread ==
  /\ Unreadable
  /\ faults < MaxFaults
  /\ faults' = faults + 1
  /\ queue' = Empty
  /\ run' = Idle
  /\ processing' = FALSE
  /\ open' = {}
  /\ UNCHANGED <<disk, ran, sidecar, arrived, defers>>

Producer ==
  \E a \in Action :
    \/ EnqueueThrows(a)
    \/ \E due \in BOOLEAN : Enqueue(a, due) \/ Coalesce(a, due)

Executor ==
  \/ Tick \/ TickEnds \/ ForegroundIdle \/ Retry \/ Defer
  \/ \E k \in Key : Refuse(k) \/ Start(k)
  \/ \E due \in BOOLEAN : Over(due)

Next ==
  \/ Producer
  \/ Executor
  \/ \E k \in Key : Cancel(k) \/ Elapse(k)
  \/ Restart \/ RestartUnread

Spec == Init /\ [][Next]_vars

(* The scheduler ticks, turns and handlers end, and time passes.  A due entry is
   reached at last, because those that become due later are sorted behind it. *)
Fairness ==
  /\ WF_vars(Tick) /\ WF_vars(TickEnds) /\ WF_vars(ForegroundIdle)
  /\ WF_vars(Retry \/ Defer \/ \E due \in BOOLEAN : Over(due))
  /\ \A k \in Key : WF_vars(Elapse(k)) /\ SF_vars(Start(k))

FairSpec == Spec /\ Fairness

-----------------------------------------------------------------------------
(* Entries have their type: no action is started more than two times beyond its
   retries, because a process that dies with it leaves the attempt in the file. *)
TypeOK ==
  /\ queue \in [Key -> Entry \cup {NoEntry}]
  /\ disk \in [Key -> Entry \cup {NoEntry}]
  /\ run \in [pc : {"none", "waiting", "executing"}, key : Key \cup {None},
              entry : Entry \cup {NoEntry}, serves : SUBSET Action]
  /\ processing \in BOOLEAN
  /\ ran \in [Lane -> Nat]
  /\ sidecar \subseteq Key
  /\ open \subseteq Action /\ arrived \subseteq Action
  /\ faults \in 0 .. MaxFaults
  /\ defers \in 0 .. MaxDefers

Covers(e, a) == e # NoEntry /\ InferredAt[e.action] >= InferredAt[a]
Follows(e, a) == e # NoEntry /\ e.pending # None /\ InferredAt[e.pending] >= InferredAt[a]

(* Demand that was accepted is going to be served: by an action of its key that has
   yet to begin, or that began after the demand had arrived, or by its successor
   (coalesceQueueAction, persistRunningCheckpoint, advancePastFinishedAction). *)
DemandKept ==
  \A a \in open :
    LET k == KeyOf[a]
    IN  \/ Covers(queue[k], a) /\ (Executes(k) => a \in run.serves)
        \/ Follows(queue[k], a)

(* The same demand is in the file, whichever writes have failed since it was
   accepted (queueAction, persistQueueEntries). *)
DurableDemand ==
  \A a \in open : Covers(disk[KeyOf[a]], a) \/ Follows(disk[KeyOf[a]], a)

(* Accepted demand is over at last: served, failed, cancelled, dropped or
   quarantined (processQueue). *)
DemandSettles == \A a \in Action : a \in open ~> a \notin open
=============================================================================
