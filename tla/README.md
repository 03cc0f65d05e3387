# Formal models of the PSFN framework

TLA+ models of parts of this repository whose correctness depends on
interleavings, crashes and leases, checked with TLC on small instances and, where
marked, proved with TLAPS for every value of the constants. Paths below are
relative to the repository's `src/`.

## 1. Inventory

PSFN runs as several processes: a **gateway** (`app/gateway/main.ts`) that owns the
channels, an **agent** per companion (`app/agent/main.ts`) that runs turns, schedules
and background work, an operator surface and user interfaces. PostgreSQL, Redis and
the session journals on disk are shared. More than one agent process may be up for
one companion (a rolling update, a crash loop), so what is called "supervisor" below
must be right with several of them over one database.

| Component | State it keeps | Operations | What is hard | What makes it correct |
|---|---|---|---|---|
| Job store `persistence/postgres/background-work-*.ts` | job rows with lease and revision, effect receipts, handoff ledger, output status, foreground leases | enqueue, claim, renew, fence, begin/commit/complete/abandon effect, settle, requeue, recover, purge, retire | statements of several supervisors interleave; recovery takes no lock; callers bring their own clock | one write per effect, one claim per session, truthful status, every job ends |
| Supervisor `core/agent/background-work/supervisor.ts` | running claims, foreground leases, tick and chained promise, heartbeat timer | tick, execute claim, effect runner, heartbeat, begin/end foreground, stop | callers run between promise reactions; stop during a pass; lost leases | no overlapping passes, no swallowed request, sweep after the last pass |
| Handoff recovery `core/agent/background-work/{handoff-recovery,tick}-runtime.ts`, `core/session/manager/background-work-handoff-recovery.ts` | three latches, retry index, abort flag | scan, drain, defer, dispose, abort | crash between record and enqueue; index at capacity; redaction during a drain; corrupt journals | no handoff is forgotten, no redacted turn is enqueued, scans end |
| Claim selection `claimNext`, `defer` | back-off, defer count and age of a job, welfare mark | discover candidates, lock, claim, preempt | candidates are read without a lock; two supervisors count the same reserve | one claim per session, a bounded reserve, no starvation |
| Turn execution, preemption, reservation `core/agent/substrate-agent*` | turn records, reservation queue, tracked background turns, active run, cancellation identities | run, preempt, reserve, cancel, record, replay | preemption against a running model call; who is aborted by a late cancel | one writer at a time, durable record before hand-off, a cancel hits its own turn |
| Speaking arbiter `core/agent/arbiter`, `persistence/postgres/speaking-arbiter-*.ts`, `app/agent/egress-reply-sender.ts` | egress lease with fencing token, episode, breaker position, social pot, the sender's fence | evaluate, draw, acquire, send, complete, expire | an expired holder that still sends; a crash between two stores | one speaker per event, no lost charge |
| Agent message pump `app/agent/gateway-message-handlers.ts`, `core/agent/companion-availability.ts` | durable queue of protected messages, availability, in-flight marks, delivery checkpoints | admit, bundle, run, deliver, acknowledge, drain | redelivery, restart between reply and acknowledgement, failing state writes | order of arrival, one reply per message, the queue empties |
| Room participation `core/participation`, `persistence/postgres/room-participation-lease-store.ts` | lease per room with watermark and caps, debounce, recent messages | observe, claim, open, close | handlers interleave at every await | a message is considered once, machines cannot keep a room alive |
| Fleet maintenance `core/scheduler/fleet-maintenance-*.ts`, its store | the baton row, demands, checkpoints, the held lease in memory | demand, acquire, renew, checkpoint, yield, release, preempt | late answers, manifest changes, several drains of a process | one process works at a time, nobody is passed over, a preemption is heard |
| Scheduler `core/scheduler/scheduler.ts` | tasks with state and due time, timer, tick in flight | register, update, tick, budget, stop | a handler that outlives its budget; changes during a run | no task beside itself, no missed wake-up, one run per slot |
| Post-turn action queue `app/startup/composition/post-turn-actions.ts` | entries with demand range, running keys, the queue file | queue, fold, overflow, run, retry, save, hydrate | a crash between run and save; demand folded into a running entry | accepted demand is ahead of its run, in memory and on disk |
| Session store, write lock `persistence/sessions` | journals, tombstones, lock directory and its tombstones | append, redact, restore; acquire, reclaim, renew, release | a lock that goes stale under a live owner, reused inodes | one writer, readers see redactions |
| Memory deletion `faculties/memory/deletion-*`, `boundary/gateway/methods/memory-deletion.ts`, `system/capabilities/confirmation-queue.ts` | durable proposals, volatile confirmations, retained resolutions | propose, show, decide, execute, recover | two processes, each may restart while the other waits | only an operator deletes; every undecided proposal is shown again |
| Human escalation `shared/escalation`, `persistence/postgres/human-escalation-store.ts`, its producers | escalation rows, attempt ring, leases | raise, claim attempt, page, settle, answer, mirror | overlapping raises, eviction under a call in flight | a truthful ledger, one page per key, an answered item is closed |
| Circuit breaker `shared/resilience/circuit-breaker.ts` | state, failures, open-until, probe slots | execute, open, probe, close | calls that end in a later phase than they began | no lost slot, the circuit recovers |
| Intake quarantine, ICP autonomy, gateway transport, caches | artifacts, budgets, connections, entries | quarantine, release; lease; I/O | expiry against release; reconnects | not modelled |

Components interact through calls in a process (turn execution → supervisor →
store), through rows (supervisors over the same tables; the operator's retirement)
and through files (turn records and tombstones read by the recovery). PROJECT.json
lists all of them with their status, and under `hazards` what can go wrong in them
where a test hardly reaches.

## 2. Plan

The durable background-work lane came first, because it carries the strongest promises
of the agent (a sink is written at most once, nothing a turn handed over is lost) over
the weakest environment (crashes, expired leases, several processes). Then one module
for each other place where work is handed from one actor to the next: who speaks
(arbiter), what is said (message pump), what runs when (scheduler, post-turn queue,
fleet baton) and what an operator has to consent to (memory deletion).

| Module | Status |
|---|---|
| `BackgroundWork`, `HandoffRecovery` | modelled, checked, safety proved (six and four theorems) |
| `ClaimPump`, `ClaimPumpContract` | modelled, safety and the safety half of the refinement proved |
| `BackgroundClaims` | modelled, checked, safety proved |
| `SpeakingArbiter`, `SpeechRecord` | modelled, checked, safety and refinement proved |
| `FleetBaton`, `PostTurnQueue`, `MemoryDeletion` | modelled, checked, safety proved |
| `Scheduler`, `ProtectedMessages` | modelled, checked, safety proved |

`HandoffRecovery`'s `accepted` is `BackgroundWork`'s `ledger`; `BackgroundClaims` refines
the choice `BackgroundWork` leaves open in `Claimable`; `ClaimPump` is the event loop that
makes `BackgroundWork`'s passes.

Next, in this order:

1. The session write lock, the room-participation gate in front of the arbiter, the turn
   reservation, human escalation, the circuit breaker.
2. The companion lane of the message pump with its durable recovery.
3. The journal chain and the tail cache of the session store.

## 3. The models

### BackgroundWork

One row per job (`job`), one receipt per job and effect (`receipt`), the handoff
ledger, the output status per turn, foreground leases (`fg`), and per supervisor its
life (`sup`), its pass (`pass`), a recovery in flight (`sweep`, `drop`) and the claims
it executes (`run`). `crossings` is a ghost: the claim tokens (owner and revision)
that crossed the write boundary of an effect.

| Code | Actions |
|---|---|
| `enqueueBatchWithReceipt`, `enqueueValidated` | `Enqueue` |
| `runTick`, `recoverExpired`, `purgeTerminal`, `claimNext` | `BeginPass`, `ReadExpired`, `RecoverExpired`, `RecoverExpiredFails`, `PurgeTerminal`, `ClaimNext`, `EndPass` |
| `executeClaim`, the effect runner, `beginEffect`, `commitEffectBoundary`, `completeEffect`, `abandonEffect` | `ExecuteClaim`, `CheckEffect`, `BeginEffectFence`, `BeginEffect`, `ReadIncumbent`, `CrossBoundary`, `CommitFence`, `CommitEffectBoundary`, `OperationReturns`, `HandlerThrows`, `CompleteEffect`, `HandlerReturns` |
| `complete`, `defer`, `failOrRetry`, `markClaim*` | `SettleClaim`, `SourceGraceEnds`, `SettlementLost` |
| `heartbeat`, `renewClaims`, `renewForeground` | `Heartbeat`, `HeartbeatFails`, `RenewForeground`, `RenewForegroundFails` |
| `beginForeground`, `endForeground` | `BeginForeground`, `InsertForeground(Fails)`, `EndForeground`, `DeleteForeground(Fails)` |
| `stop`, `requeuePreBoundaryClaims`, a crash | `BeginStop`, `RequeuePreBoundaryClaims`, `Die` |
| operator retirement | `Retire` |

A store call that one row lock or one statement makes atomic is one step.
`beginEffect`, `commitEffectBoundary` and `recoverExpired` are several: they read in
one statement and write in a later one. The advisory lock of a session is held
between those steps (`SessionLocked`); `recoverExpired` takes none, and only the rows
it has deleted are locked (`ReceiptLocked`).

Abstractions. Time is what is left of each lease; a caller's clock reading may be up
to `MaxLag` old. The heartbeat at the start of a pass and the first statement of
`recoverExpired` are one step, and no tick of time falls between its two statements.
A heartbeat that fails aborts its pass. Retention is any length. Every back-off is
`DelayTicks`. A later compaction of a session supersedes an earlier one by `CreatedAt` and, in
the same millisecond, by the order of job ids (`IdRank`). `MaxUp` is how many supervisors live
at the same time; a process that is stopping still counts. The order of candidates and welfare admission are left out of
`Claimable`: welfare only lets a job past its back-off, which is 0 in all the runs, so
they lose no behaviour to it; candidates, their locks and the welfare slots are the
subject of `BackgroundClaims`.

### HandoffRecovery

Durable facts (`recorded`, `redacted`, `malformed`, `evidence` per owner, `accepted`),
one process (`live` turns, the retry index `pending`, the three latches, `proc`), and
the recovery in flight (`phase`, `rest`, `at`, `skip`, `failed`). Ghosts: `waived`, what
this process has set aside and reported, and `stuck`, the index when the capacity latch
was set. The actions follow `run`, `recoverHistoricalBackgroundWorkHandoffs`,
`BackgroundWorkHandoffRecovery.recover` and `quarantineCorruptOwner` one await at a
time; `Redact`, `Restore`, `Malform`, `Mend`, `Degrade` and `Settle` are what others do
to records and journals, the first two under the eligibility fence.

Abstractions. The retry index is a set: its batch is as large as its capacity, so the
rotation of failed references changes nothing. A scan takes one snapshot of the
records. A structural error may surface before its record is reached. All the faults
share one budget, `MaxFaults`. Crash and next start are one step. `Refused` are turns
the store always refuses (a replay whose manifest fingerprint differs): these failures need
no budget. `HandoffsRecovered` and `EnumerationEnds` name the two states in which such a turn
stops the recovery for good (`RefusalBlocksDisposal`, `RefusalKeepsLatch`; section 4) and
hold in every behaviour that does not stay in them.

Seen while modelling, and documented in the code: a reference that is refused for
ever keeps the capacity latch closed until a restart; a redacted turn that a drain
dropped and that is restored later waits for the next start.

### ClaimPump and ClaimPumpContract

The event loop of one supervisor: `tickPromise`, `chainedTickPromise`, the body of
`runTick`, `stop`, foreground leases and the timer they share with claims. Store calls
are awaits that return or throw; promise reactions (`ClearTick`, `ChainedFires`) are
steps, because other callers run before them. `owed` is a ghost: a request came while a
pass was in flight.

`ClaimPumpContract` is what the pump promises: passes do not overlap, a request
during a pass is followed by a pass that begins after it, nothing begins once the
pump is closed. `ClaimPump` implements it under the mapping `passing` =
`tickPromise # "none"`, `closed` = `stopping` (property `KeepsContract`).

### BackgroundClaims

The transaction of `claimNext`: the candidates it reads without a lock (`Discover`), the
session locks it tries one by one (`TryCandidate`), the update that repeats the
conditions, its commit (`Commit`), and around it the pass with its chained request
(`EndPass`, `SchedulerTick`), `Enqueue`, `Complete`, `Preempt`, `Crash` and
`RecoverExpired`. A job row carries its back-off (`delay`), its preemptions (`defers`),
the age of the first one (`age`) and whether it runs in a welfare slot; `touched` is the
order of `updated_at_ms`, by which one job per session is chosen.

Abstractions. Time passes between claim transactions only: they are short beside the
back-off. Any running claim that is not a welfare claim may be preempted at any moment.
Compactions never take the welfare path and are left to `BackgroundWork`. Ages count
until the threshold, since nothing looks further.

### SpeakingArbiter and SpeechRecord

A *drive* is one handling of one event by one companion: reserve, appraise, the gates of
`grantReply` (breaker read and persisted in two transactions, fairness, the draw from the
social pot), `acquireEgressLease`, the sender's fence, generation, send, completion. Rows
are `resv`, `leases` (a sequence per event; the index is the fencing token), `breaker` and
`spoke`; `mem` holds the local variables of a drive, in particular the clock reading
`grantReply` makes once and uses throughout; `fences` is the sender's map, which dies with
the process. `spoken` is a ghost: the drives whose reply reached the room. `SweepLeases` and
`SweepReservations` are the two statements of `sweepExpired`, which takes no channel lock, so
that anything may come between them; nothing in the program calls it, only its port offers
it. `Crash` ends all drives of a companion.

`SpeechRecord` is what the store promises to everybody else: the speaker of an event is
written once and never changed. `SpeakingArbiter` implements it with the speaker of the
delivered lease as the mapping (`KeepsSpeechRecord`).

Abstractions. One channel with one open episode. `MaxStall` bounds the time the gates of
one reply take: their calls are ordinary database calls, while generation and sending,
which are outside the bound, may outlast the lease. A send may reach the room although the
call rejects. Closing an episode and human activity have no caller in the program; shadow
mode, endogenous candidates and the operator's override are left out.

### FleetBaton

One baton row and the demands of a shared database; per instance (a process of a companion)
its coordinator (`coord`: the lease it believes to hold and the local mark of a chat turn);
and the drains (`runWithFleetMaintenanceBaton`). An instance may have several: the biography
stages (`app/agent/scheduler-runtime.ts:333`), sleeptime and episode synthesis
(`scheduler-lanes.ts:444`, `:713`) start theirs over one coordinator, and they overlap. The
store knows the instance only and gives a second drain the lease of the first (`Replay`); the
first release gives it back for both; and taking up or dropping a lease wipes the mark for
all of them (`MarkForgotten`). Each store call is one transaction; the answer reaches the
coordinator in a step of its own (`granted`, `renewed`, `committed`, `told`), because
deadlines and marks are compared with what has arrived. A restarted companion is another
instance, possibly with another manifest.

Ghosts: `passed` (completions of others while a companion waits), `freed` (tokens whose lease
was given back), `asked`, `due` and `deaf` (a checkpoint that began after a request to yield
was answered to go on). `OneAuthority` is about processes and excepts a drain whose lease a
sibling gave back; `PreemptionHeardInTime` excepts a request that a sibling wiped (section 4).
`Lag` allows old clock readings; the run has `Lag` 0.

### PostTurnQueue

The map of queued actions (`queue`), the file (`disk`), the run in progress and the entry
object it holds (`run`), the tick's counts per lane (`ran`), the quarantine file
(`sidecar`). Producers queue, fold into a waiting or a running entry (`Coalesce`), or
overflow; the executor starts, waits for the foreground, executes, retries, defers or
finishes; every save may fail; `Restart` hydrates from the file and `RestartUnread` starts
empty when the file cannot be read, which gives up the old demand as the code does.

Abstractions. Two of the four lanes stand for all: one drops overflow, one defers.
`nextRunAt` is a flag `due` that time sets. Actions arrive in the order in which they were
inferred, which is how turns of one agent follow one another. Start is strongly fair per
key, because due entries are sorted by `nextRunAt` and those that become due later line up
behind.

### Scheduler

An entry object is an id with a registration number, since the code keeps references to
entries that were removed or replaced; `order` is the Map of tasks, and the standing tasks
are registered in any order at the start. `tick` is the tick in flight and the attempt it
awaits; `loose` counts handlers that outlived their budget; `overdue`, `wakeAt` and `mode`
are the fields of the same name. Changes (`Change`) are registration, removal, state and
interval changes by operators, the sandbox and the synchronisation of reflections, at most
`MaxEdits` of them. `meddled` is a ghost: ids changed while a handler of theirs ran;
`SingleFlight` and `SlotOnce` except them (section 4).

Abstractions. Time saturates at `Horizon`. Slots are equidistant, with the stagger
`Offset`: time zones and daylight saving are calendar arithmetic of the platform. Timers,
the budget and time are fair; handlers are not, they may run for ever.

### ProtectedMessages

Availability (`current`, `act`, and `ahead` for a durable row that is a revision ahead of
the process after a lost answer), the serialised transitions and admissions (`tail`), the
durable queue, the drain with its batch and its retry timer, the pump with its bundle and
the parts of the reply left to send, the marks in flight, the records of delivered
messages and the checkpoints of replies that were delivered in part. A crash loses
everything but the durable queue and availability row. `arrived` and `begun` are ghosts for
`InOrder`: first arrivals and first turns as one process knows them. After a restart the
rows are all that is left of the order of arrival, so `arrived` becomes the queue. It may
differ from what the gateway sent: a message that waited in the pump when the protection
began, and that the gateway delivers again, has its row behind those that came after it.

A text goes to Discord in chunks, and a send that fails may have put some of them into the
channel (`SendFails`; `said` is the ghost that knows); the checkpoint counts whole texts, so
`TextNotRepeated` is about texts that were out entirely. The notice of a failure may fail as
well and is then only audited (`Untold`). An admission may fail (`AdmissionFails`): the
rejection reaches nobody, and the message is lost unless its row was written all the same.

Abstractions. One process, one channel. Chained drains are the flag `owed`. `Forget` is the
two-minute window after which records of a delivery disappear; `TextNotRepeated` excepts those
messages. `AckAfterDelivery` excepts messages the gateway delivered more than once, `InOrder`
messages whose admission failed, and `Answered` those too, messages given up without a notice
(`untold`) and a companion whose state write has failed (section 4). The voice route, passive
observation and the companion lane are left out.

### MemoryDeletion

Two processes. The agent: `status`, `by` and `stale` of its database, its life and the
proposals a starting agent still has to propose. The gateway: the proposal it is handling
(`ask`: snapshot from the agent, confirmation, alert, mark), the confirmations (`entry`,
`pending`, `history`) and the decisions it is handling (`call`). Calls go in both
directions and may be lost on the way out or back. `asked` and `refused` are ghosts: the
decisions operators made, and whether a start was turned away.

Abstractions. All proposals are about one memory; what is deleted is the status of its
proposal. Confirmations of this kind are renewed when they expire, so time plays no part.
Calls in flight have failed before a new agent is there; an agent that loses the gateway
restarts. Nothing makes the companion propose or an operator decide. Anybody in `Resolver` may
try to decide; who is not an operator is turned away before anything changes
(`confirmation-queue.ts:662`), so the same checks of the executor and of the denial
(`memory-deletion.ts:158`, `:236`) never refuse. The commit guard before a denial is recorded
(`beforeTerminalized`) cannot throw for these confirmations: its one observer looks for a
prepared shard grant of the confirmation (`approval-boundary.ts:301`), which a request
without `shardGrant` never has, and returns.

## 4. Runs

| Run | Instance | Shows |
|---|---|---|
| `memory` | 2 supervisors, 1 memory job, 2 attempts, 2 departures | `TypeOK`, `EffectCrossedOnce`, `SucceededIsApplied`, `OutputIsTruthful` |
| `compaction` | 1 supervisor, 2 compactions of a session in one millisecond, 1 foreground lease, lag 1 | `CompactionYields` |
| `settles` | 2 supervisors one after the other, the first may crash or stop, 2 attempts, the program's expiry limit of 3 | `JobsSettle` |
| `handoff` | 3 turns of 2 owners, one of them always refused, capacity 1, 2 faults | `HandoffTypeOK`, `NothingForgotten`, `LatchHeldUntilDrained`, `RedactionFenced`, `HandoffsRecovered`, `EnumerationEnds` |
| `pump` | 2 slots, 2 foreground leases | `SweepAfterLastPass`, `HeartbeatCoversLeases`, `KeepsContract`, `StopEnds` |
| `claims` | 2 supervisors with 2 slots, 4 jobs of 3 sessions, reserve of 1, 1 crash | `OneClaimPerSession`, `OvershootBounded` |
| `arbiter` | 2 companions, 3 drives of one event, 1 crash | `DeliveredWasSpoken`, `AnswersOnce`, `KeepsSpeechRecord` |
| `baton` | 2 companions, 3 instances, 2 manifests, 2 drains in one instance, chat turns there, 3 drains begun, 1 fault | `OneAuthority`, `PassedOnce`, `PreemptionHeardInTime` |
| `postturn` | 3 keys in 2 lanes, 4 actions, lane capacity 1, 1 retry, 2 faults | `DemandKept`, `DurableDemand`, `DemandSettles` |
| `scheduler` | an interval task, a slotted one and a one-shot, 1 change, horizon 5 | `SingleFlight`, `SlotOnce`, `WakesInTime`, `DueRuns` |
| `messages` | 2 messages, the first delivered twice, 1 protecting activity, 1 fault of each kind | `TextNotRepeated`, `NoMarkLeft`, `InOrder`, `AckAfterDelivery`, `Answered` |
| `deletion` | 2 proposals, 2 operators and 1 other resolver, 2 decisions at a time, 1 proposal repeated, 1 fault | `HistoryIsTrue`, `DecidedByOperator`, `Resurfaces` |

The type invariant is checked by `memory` and `handoff`; in the other modules it documents
the shape of the state.

Bounds and why they are enough.

* Background work. The receipt protocol is about one effect, one job and the claims that
  compete for it, so two supervisors and one job show its interleavings; `MaxRev`
  (revisions at which a job is no longer claimed) leaves room for two claims and the
  recovery, requeue or retirement between them. One session suffices: sessions share
  nothing but the supervisor's slots. `MaxDepartures` bounds crashes and stops. In `settles`
  the lease lasts one tick, so that a claim expires, is recovered, waits and is claimed again
  until the limit of three is reached; `MaxRev` of 13 never cuts that off. `MaxUp` is 1 there,
  for the reason given first under "Disagreements". Jobs with
  several effects and more supervisors are covered by the theorems of section 5.
* Handoffs. A retry index of one is full after one failure, so the capacity latch, a live
  turn that finds no room and a drain beside them occur. The refused turn fails for ever
  without spending a fault, beside a turn of its own owner and one of another owner, whose
  journal may be corrupt; two faults are a corruption, an outage or a restart, two of them.
* Claims. To pass the reserve twice takes three welfare claims at once, hence three
  sessions; the fourth job shares a session with the first. A job is past the threshold
  after one preemption, so the age of the first one plays no part in this instance.
* Arbiter. Two drives of one companion and one of another on one event are what a
  redelivered event gives; leases of one tick lapse while a reply is generated. The clock
  ends before a sender's fence can lapse.
* Baton. Two companions of which one restarts with another manifest and has two drains in its
  first process; leases of two ticks can be renewed once and expire. The two drains are
  symmetric.
* Post-turn queue. A folding key and two keys that compete for one place; two faults are a
  failed save and a crash after it.
* Scheduler. Two periods fit the horizon, so a slot can be run, re-registered and run
  again, and a late run is close enough to the next slot to be skipped. The one change
  replaces an entry (`Sync`), adds one or alters one; with two changes, a gap of 1 and a
  horizon of 4 the three invariants and `DueRuns` hold as well (771 000 states).
* Messages. One message twice and one after it: redelivery, resumption and overtaking. A
  bundle of two takes a third message that keeps the pump busy: with three messages of one
  author, the second delivered twice, and without restarts and failing state writes, the
  invariants hold as well (4.1 million states, without liveness); the theorems of section 5
  cover bundles of any size.
* Deletion. Four confirmations are as many as this instance ever needs, so none is missing
  when a proposal is surfaced.

The symmetry of supervisors is used in safety runs only. Deadlock is checked for `pump`
and `handoff`; elsewhere the instance may come to rest once its work, its clock or its
bounds are used up.

Fairness. `BackgroundWork`: time passes, a deployed supervisor starts and its scheduler
tick keeps its passes going (`core/agent/background-work/scheduler-task.ts`), an awaited
call of a worker returns or throws, and `recoverExpired`, if it is again and again
possible, does not fail for ever. Nothing is assumed of heartbeats, producers,
operators, or of when a shutdown begins; one that has begun ends the process. `HandoffRecovery`: ticks come, a recovery and a live enqueue go
on, an append that made a journal unreadable ends, a stopped process is started
again. `ClaimPump`: store calls return, promise reactions run, the shutdown timer fires;
a pass that keeps finding jobs need not end. `PostTurnQueue`: the executor's tick comes,
handlers end, time passes, a due entry is reached. `Scheduler`: timers fire and time
passes, handlers need not return. `ProtectedMessages`: activities end, awaited calls
return or throw, the retry timer fires. `MemoryDeletion`: an agent that is down is started,
calls are answered or fail; nobody has to propose or decide. All fault budgets are finite,
so a fault that may come for ever is not covered by the liveness properties.

### Disagreements met while modelling

Places where the code does something else than a comment, a test or a document says. Where a
property of section 4 is concerned, the model takes the step and the property names the
exception; where a bound keeps the step out, the item says so. No run is kept for these.

* `recoverExpired` selects the expired rows in a CTE and updates them by id alone
  (`persistence/postgres/background-work-store.ts:1739`). A row that an operator retires in
  between runs again, although `background-work-operator.ts:15` calls retirement terminal.
  The same write brings a job back whose last attempt has just failed on another supervisor;
  if its next claim crosses a boundary and expires, the attempt beyond `max_attempts` fails
  the table's CHECK and with it this and every later recovery, so that jobs need not settle.
  `memory` takes these steps; `settles` lets processes follow one another (`MaxUp` 1), where
  nobody writes a row a recovery has read, and `JobsSettle` is stated for such deployments.
* Collected enqueue errors are thrown before corrupt owners are disposed of
  (`handoff-recovery-runtime.ts:145`). One handoff that is always refused and one corrupt
  owner make every tick read the whole history, against `tick-runtime.ts:11`: the exception
  `RefusalBlocksDisposal` in `EnumerationEnds`, which `handoff` reaches.
* The welfare reserve is counted without a common lock (`background-work-store.ts:918`), so
  two supervisors can overshoot "`reserveSlots` globally bounded welfare slots"
  (`store-port.ts:38`) by one; `OvershootBounded` is what holds. An aged job whose back-off
  has run out is claimed without protection (`:784`), so two jobs of one session can be
  preempted for ever, against `scheduler-config/background-work.ts:28`.
* A reply is sent without another look at the lease (`egress-lease-phase.ts:634`): when
  generation outlasts it, two companions answer one event. The sender's fence is a map of
  the process (`egress-reply-sender.ts:337`): a crash between send and completion lets the
  event be answered again. `speaking-arbiter-store-port.ts:11,22` says neither happens. A
  crash between draw and lease leaks the charge (`:32`), and two companions may take the
  single half-open probe, since the breaker is read and written in two transactions
  (`egress-lease-phase.ts:487`).
* A second chat turn can clear the mark of the first while the answer of a renewal is late
  (`fleet-maintenance-coordinator.ts:323`): hence "in time" in `PreemptionHeardInTime`.
  Overlapping drains of one process are given the same lease and the first release frees it
  for both (`fleet-maintenance-store.ts:198`): the other goes on while another companion takes
  the baton, against "exactly one companion in the fleet runs one at a time"
  (`scheduler-runtime.ts:299`). Without the exception for `freed` leases `OneAuthority` fails
  in the instance of `baton`. A drain that takes the lease up clears the mark of a chat turn
  for its siblings (`fleet-maintenance-coordinator.ts:258`).
* Overflow of a `drop_oldest_queued` lane drops the newest entries
  (`post-turn-actions.ts:1057`; `docs/runtime/chat-turn-lifecycle.md:381`).
* Enabling a task, or removing and registering it, overwrites `active`
  (`scheduler.ts:472`), so that it can run beside a handler the budget left behind (`:283`);
  the synchronisation of reflections can run a slot twice
  (`reflection-template-runtime.ts:1701`); a pause that comes during a run is lost (`:777`).
  Hence `meddled`.
* A duplicate of a message in flight returns normally to the drain, which acknowledges the
  row before its reply is delivered (`gateway-message-handlers.ts:1591`); the checkpoint of
  a delivery lives two minutes while its row lives on (`:89`); an activity whose end cannot
  be written keeps the companion unavailable (`companion-availability.ts:141`). A text whose
  later chunk cannot be sent is sent again from its first chunk (`discord/adapter.ts:491`,
  `discord-reply-delivery.ts:55`). A failing `hasPending` or `enqueue` loses the message: the
  handler's rejection is nobody's (`gateway-message-handlers.ts:1563`).
* A modification denies a proposal durably and is kept as a failed `modify`, which
  `reconcileRetainedResolution` accepts as nothing (`memory-deletion.ts:240`), so the agent's
  start fails: the exception in `Resurfaces`. A proposal repeated while its approval is
  executed gets a second confirmation (`confirmation-queue.ts:742`).

## 5. Proofs

For all values of the constants that satisfy the named assumptions:

| Theorem | Statement | Argument |
|---|---|---|
| **BackgroundWorkProofs** | | |
| `TypeCorrect` | `Spec => []TypeOK` | one lemma per action; the CHECK on attempts needs the guards of recovery and settlement |
| `AtMostOnce` | `Spec => []EffectCrossedOnce` | `EffectInv`, below |
| `SessionsAreSerial` | `Spec => []OneRunningPerSession` (defined beside the proof; the run for concurrent claims is `claims`) | inductive with the type invariant: only `ClaimNext` makes a row run |
| `ForegroundFirst` | `Spec => CompactionYields` | a worker that is promoting holds its session's lock and found no live lease; while it does none can appear or be renewed |
| `SuccessIsWhole` | `Spec => []SucceededIsApplied` | `RecordInv`, below |
| `StatusIsTrue` | `Spec => []OutputIsTruthful` | `RecordInv`: nothing is said of a turn before it is accepted, and a purged job cannot be accepted again |
| **BackgroundClaimsProofs**, of `HandoffRecovery` | | |
| `HandoffTypes` | `HandoffSpec => []HandoffTypeOK` | the index has room before it grows |
| `NoHandoffForgotten` | `HandoffSpec => []NothingForgotten` | during a scan, what is recorded is accepted, live, indexed, set aside, skipped or still to do |
| `LatchIsHeld` | `HandoffSpec => LatchHeldUntilDrained` | during a drain without errors, what was stuck and is still indexed is still in the batch, in hand, accepted or set aside |
| `DrainRespectsRedaction` | `HandoffSpec => RedactionFenced` | the turn under the fence is not redacted |
| **BackgroundClaimsProofs**, of `ClaimPump` | | |
| `PumpTypes` | `PumpSpec => []PumpTypeOK` | a claim that is asked for has a slot |
| `NoPassAfterSweep` | `PumpSpec => []SweepAfterLastPass` | `PumpInv`, below |
| `LeasesAreRenewed` | `PumpSpec => []HeartbeatCoversLeases` | inductive with the types: each user of the timer clears it only when the other has none |
| `PumpKeepsContract` | `PumpSpec => Contract!Init /\ [][Contract!Next]_(Contract!pump)` | step by step: what is owed is chained, a chained pass waits for one in flight |
| **BackgroundClaimsProofs**, of `BackgroundClaims` | | |
| `ClaimsAreSerial` | `Spec => []OneClaimPerSession` | `ClaimsInv`: the locks exclude each other, and a transaction that has updated its row holds its session's |
| `ReserveOvershoot` | `Spec => []OvershootBounded` | `ClaimsInv`: slots taken and slots about to be committed are counted together |
| **SpeakingArbiterProofs** | | |
| `ArbiterTypes` | `Spec => []TypeOK` | the unique index on held leases is `HeldAlone` |
| `RecordIsTrue` | `Spec => []DeliveredWasSpoken` | `FateIsTrue`: who reports a delivery made it, in this drive or an earlier one |
| `ReplyIsSentOnce` | `Spec => []AnswersOnce` | `Timing` and `Fenced`, below |
| `OneSpeakerOnRecord` | `Spec => KeepsSpeechRecord` | the completed lease of an event is a function of the table that no step rewrites |
| **FleetBatonProofs** | | |
| `OneProcessWorks` | `Spec => []OneAuthority` | `LeaseIsRow`, `TokensAreOwn`: who counts on a lease nobody gave back has the row for at least as long, and a token belongs to one process |
| `NobodyPassesTwice` | `Spec => []PassedOnce` | `TurnsKept`, below |
| `RequestsAreHeard` | `Spec => []PreemptionHeardInTime` | `RequestIsKept`, `AnswerTells`: a request is in the row, in the holder's memory or in the answer under way |
| **PostTurnQueueProofs** | | |
| `DemandIsKept` | `Spec => []DemandKept` | `QueueInv`, below |
| `DemandIsDurable` | `Spec => []DurableDemand` | every write is of a queue that keeps the demand, and what a failed write leaves in the file covered more |
| **MemoryDeletionProofs** | | |
| `HistoryHolds` | `Spec => []HistoryIsTrue` | `UnderWay`, below |
| `ConsentOnRecord` | `Spec => []DecidedByOperator` | `UnderWay`: a decision under way was made, about the proposal of its confirmation |
| **SchedulerProofs** | | |
| `TasksRunAlone` | `Spec => []SingleFlight` | `FlightsHeld`, `RecordedQuiet`, below |
| `SlotsRunOnce` | `Spec => []SlotOnce` | `SlotsSpent`: the registered entry remembers every slot that was run |
| `TimerInTime` | `Spec => []WakesInTime` | what is due next moves no closer as time passes; whatever brings it forward moves the timer |
| `SchedulerTypes` | `Spec => []TypeOK` | removing an id leaves the others in place, so an id is registered once |
| **ProtectedMessagesProofs** | | |
| `NoMarkStays` | `Spec => []NoMarkLeft` | `MarksInv`, below |
| `TextStaysOut` | `Spec => []TextNotRepeated` | `SaidInv`: the process knows of every text it has sent entirely |
| `RowsOutliveDelivery` | `Spec => AckAfterDelivery` | `AckInv`: a message delivered once is in one place |
| `TurnsInOrder` | `Spec => []InOrder` | `OrderInv`: entries, rows and admissions are one line |
| `MessageTypes` | `Spec => []TypeOK` | a row is added only if there is none, and one is removed |

Hardly one of these invariants is inductive as it stands. What the strengthenings add:

* `EffectInv`: a crossing leaves a trace for as long as the effect could be crossed again.
  While the job row exists, every crossing of an effect bears the token of its receipt,
  which is then started or applied; a purged row cannot come back, since the ledger has its
  turn and a turn that was never accepted has crossed nothing; and what a recovery in flight
  has deleted is pending, so no crossing is forgotten with it.
* `RecordInv`: several claims may share the work of a job, so its success is about receipts
  that other claims have left behind. A claim at its n-th effect finds those before it
  applied as long as the row lives, and a claim that reports success is past the last one.
* `PumpInv`: nothing in `SweepAfterLastPass` says that no pass begins once `stop()` has found
  none. Added: `stop()` has closed the pump, `runTick` has a body only while its promise is
  unsettled, and a follow-up waits only for a pass that has not been cleared.
* `ClaimsInv` counts the welfare slots of rows and of uncommitted updates together. Only one
  supervisor at a time can be the first to find the reserve full by its own count; all the
  others are what the bound allows for. The proof knows nothing of the list of candidates,
  neither its order nor that its jobs exist still: the session lock and the conditions of
  the update are enough.
* `ArbiterInv`: a drive holds the token of a lease of its own; a drive under way has its
  reservation row; no reservation ends later than its time-to-live from now, nor from the
  clock reading of a drive's `grantReply`; and a fence stands for what was spoken for as long
  as the reservation may lead to another reply.
* `BatonInv`: tokens grow, so the token of a drain whose lease was taken over differs from
  the row's, and the drains of one process may share one. A request to yield is in the row, in
  the memory of the process or in the answer on its way to a drain. For fairness, whoever passed a waiting companion comes after it in the cyclic
  order that starts at the last ordinal, and the holder comes before it. A holder that
  passes on moves the start just behind itself, which is why nobody comes by twice.
* `QueueInv`: the entry of a run stays in the queue for as long as the run does, so that what
  arrives meanwhile is folded into it as a successor. This rests on the order of the
  overflow: a running entry is due, and among those that are as old and due the new entry is
  the last. No entry is newer than what has yet to arrive, and a run serves nothing newer than
  its action. Like the runs, this takes actions to be queued in the order they were inferred
  in (`Arrives`).
* `SchedInv`: a handler runs for the one entry of its id, which is active and has spent its
  slot; an attempt that is recorded and not yet started finds nothing of its task running,
  although a tick lets others in between the two; a slot that was run is not younger than
  the journal and the last beginning of its task, which is what a new registration starts
  from; and clock values that were written down lie in the past. All changes of entries are
  shown to have one shape (`ChangeShape`) before the invariant is looked at.
* `MarksInv`: a checkpoint is parked under each of its messages and no other, no two entries
  that wait or are worked for answer for the same message, an entry knows whether it
  resumes, the pump rests only when nothing waits, and the one entry the drain waits for is
  the head of its batch. Without the first two, releasing the keys of one delivery could
  release or leave the mark of another.
* `SaidInv`: a text that is out entirely is known by the record of the reply, by a checkpoint that
  has no text left, or by the pump that is sending; so no entry that waits for a turn has
  had more than a part of one.
* `AckInv`: a message the gateway delivered once is on its way in or beyond, never both, and
  while its row exists only the drain has it delivered. So the drain never finds such a
  message dropped as a duplicate before it was answered.
* `OrderInv`: what arrived before an entry, a row or an admission, was not turned away and has
  had no turn is before it in the line of entries, rows and admissions. The batch is the front of the
  queue, and a row is acknowledged only when its message has had its turn or waits for it
  in the pump. An earlier form of `InOrder` kept the order of arrival across a crash; the
  attempt to prove it led to the three messages of section 3 (`ProtectedMessages`), where
  the order of the rows differs.
* `DeletionInv`: every decision that is under way was made by an operator; what the gateway has read of a decided proposal is still so, because a
  decision is never taken back; an answer the agent has given is durable; and a confirmation
  is about one proposal for good.

Each of these was checked with TLC on the instance of its run before it was proved.

`BackgroundClaimsProofs` extends the three modules `BackgroundClaims`, `ClaimPump` and
`HandoffRecovery`; the last two therefore name their state and specification with a prefix of
their own (`PumpInit`, `PumpSpec`, `HandoffInit`, `HandoffSpec`, ...). Their specifications
are still separate, and no theorem is about two of them at a time.

Assumptions on the constants are stated in the module that declares them and are evaluated
on every run. Beyond types and positive bounds they are:

* `IdentityAssumption` (`BackgroundWork`): turn and kind identify a job, as
  `createBackgroundWorkIdentity` derives its id from them.
* `OrdinalAssumption` (`FleetBaton`): a manifest lists each companion once, as
  `requireFleetOrder` demands. Within `BatonInv` only `TurnsKept` needs it.
* `FenceAssumption` (`SpeakingArbiter`): a reservation and the gates of one more reply end
  before a fence does. Nothing in the code enforces it; the defaults (2 minutes for a
  reservation, 1 for a lease, 30 for a fence) leave 29 minutes for the gates. Within
  `ArbiterInv` only `Fenced` and `AnswersOnce` need it.
* `Supervisors # {}` (`BackgroundClaims`): the bound of the overshoot is one less than their
  number.
* `ResolverAssumption` (`MemoryDeletion`): operators are among those who may try to decide.
* `NumberAssumption` (`MemoryDeletion`): proposals and confirmations are numbered from 1; 0
  marks a confirmation not used yet.
* `SchedulerAssumption` (`Scheduler`): a task has one kind of schedule, the standing tasks are
  finitely many, a slot's offset lies within its period, and the shortest delay of the timer
  is no longer than the longest.

Only model-checked, because the prover cannot reach it: liveness under fairness
(`JobsSettle`, `HandoffsRecovered`, `EnumerationEnds`, `StopEnds`, `DemandSettles`, `DueRuns`,
`Answered`, `Resurfaces`) and the fairness half of `KeepsContract`. Every other property of a
run is a theorem.

## 6. Not modelled

`components` in PROJECT.json lists every part with its status. Three groups are left out.

* Protocols like the modelled ones that are still to come: the session write lock, the
  room-participation gate, the turn reservation, human escalation, the circuit breaker,
  intake quarantine, ICP autonomy, the companion and voice lanes of the pump.
* The session journal, its hash chain and the tail cache: only what the handoff recovery
  reads of them is modelled.
* Most of the repository by volume: prompts, model calls, the faculties that turn text into
  text, configuration parsing, formatting, transport I/O, user interfaces, the satellite
  hub, evaluation and shakedown harnesses. They hold no state that several actors change,
  and a model of them would repeat their code. The models therefore cover a small share of
  the repository's lines, and those lines are where hand-overs, leases and crashes meet.

## 7. Running

    tlc -config BackgroundWorkMemory.cfg MCBackgroundWork
    tlc -config HandoffRecovery.cfg MCHandoffRecovery
    tlc -config SpeakingArbiter.cfg MCSpeakingArbiter
    tlc -config MemoryDeletion.cfg MemoryDeletion
    tlapm BackgroundWorkProofs.tla

Each run takes between a few seconds and about three minutes. Definitions that begin with a
comment `Mutant of X` are deliberately wrong versions of `X`: with one of them in its place
TLC reports a violation of the property PROJECT.json names, which shows that the property
can fail.
