------------------------- MODULE BackgroundWorkProofs -------------------------
(* The background-work lane for every number of supervisors, jobs, effects,    *)
(* retries, crashes, purges and replays: its types, the at-most-once write     *)
(* boundary, the truth of what it records, one running claim per session, and  *)
(* foreground turns before compactions.                                        *)
EXTENDS BackgroundWork, TLAPS

Raised == (Errors \cup {"done", "busy", "unknown"})

\* A worker that settles has something to settle with.
SettleHasReason ==
    \A o \in Owner, j \in Job : run[o][j].pc = "settle" => run[o][j].err \in Raised

TInv == TypeOK /\ SettleHasReason

\* The parts of TInv, one per variable.
JobOK == /\ job \in [Job -> JobRow]
         /\ \A j \in Job : job[j].st = "running" <=> job[j].owner # NoOwner
ReceiptOK == receipt \in [Job -> [Effect -> Receipt]]
LedgerOK == ledger \subseteq Turn
OutputOK == output \in [Turn -> {"none", "applied", "failed", "outcome_unknown"}]
FgOK == fg \in [Lease -> ForegroundLease]
SupOK == sup \in [Owner -> {"down", "up", "stopping", "dead"}]
PassOK == pass \in [Owner -> {"idle", "dropping", "sweeping", "claiming"}]
SweepOK == /\ sweep \in [Owner -> [lag : Lags, class : [Job -> {"no", "pre", "last", "crossed"}]]]
           /\ drop \in [Owner -> SUBSET (Job \X Effect)]
RunOK == run \in [Owner -> [Job -> Run]] /\ SettleHasReason
CrossingsOK == crossings \in [Job -> [Effect -> SUBSET Token]]

LocalOK == FgOK /\ SupOK /\ PassOK /\ SweepOK
StoreOK == JobOK /\ ReceiptOK /\ LedgerOK /\ OutputOK

-----------------------------------------------------------------------------
(* What the row writers return. *)

\* A row that leaves running is a row of the table without an owner.
LEMMA UnleasedRow ==
    ASSUME NEW row \in JobRow, NEW st \in JobState \ {"running"}, NEW delay \in Int,
           NEW attempts \in 0 .. MaxAttempts, NEW expiries \in Nat
    PROVE  /\ Unleased(row, st, delay, attempts, expiries) \in JobRow
           /\ Unleased(row, st, delay, attempts, expiries).st = st
           /\ Unleased(row, st, delay, attempts, expiries).owner = NoOwner
BY DEF Unleased, JobRow

\* So is one that is released with its counters as they were.
LEMMA ReleasedRow ==
    ASSUME NEW row \in JobRow, NEW st \in JobState \ {"running"}, NEW delay \in Int
    PROVE  /\ Released(row, st, delay) \in JobRow
           /\ Released(row, st, delay).st = st
           /\ Released(row, st, delay).owner = NoOwner
<1> DEFINE attempts == row.attempts
           expiries == row.expiries
<1>1. attempts \in 0 .. MaxAttempts /\ expiries \in Nat
  BY DEF JobRow
<1>2. Released(row, st, delay) = Unleased(row, st, delay, attempts, expiries)
  BY DEF Released
<1> HIDE DEF attempts, expiries
<1> QED
  BY <1>1, <1>2, UnleasedRow

\* RecoveredRow is a row of the table when the attempt count stays in bounds.
LEMMA RecoveredRowType ==
    ASSUME TypeOK, NEW j \in Job, NEW class \in {"pre", "last", "crossed"},
           RecoveredRow(j, class).attempts <= MaxAttempts
    PROVE  /\ RecoveredRow(j, class) \in JobRow
           /\ RecoveredRow(j, class).st \in {"failed", "retry_wait"}
           /\ RecoveredRow(j, class).owner = NoOwner
<1> DEFINE st == IF class = "pre" THEN "retry_wait" ELSE "failed"
           attempts == job[j].attempts + (IF class = "crossed" THEN 1 ELSE 0)
           expiries == job[j].expiries + 1
<1>1. job[j] \in JobRow
  BY DEF TypeOK
<1>2. RecoveredRow(j, class) = Unleased(job[j], st, 0, attempts, expiries)
  BY DEF RecoveredRow
<1>3. st \in {"failed", "retry_wait"} /\ st \in JobState \ {"running"}
  BY DEF JobState, Runnable, Terminal
<1>4. attempts \in Nat /\ expiries \in Nat
  BY <1>1 DEF JobRow
<1>5. attempts <= MaxAttempts
  BY <1>2 DEF Unleased
<1>6. attempts \in 0 .. MaxAttempts /\ 0 \in Int
  BY <1>4, <1>5, BoundsAssumption
<1> HIDE DEF st, attempts, expiries
<1> QED
  BY <1>1, <1>2, <1>3, <1>4, <1>6, UnleasedRow

\* So is SettledRow, for every way an execution can end.
LEMMA SettledRowType ==
    ASSUME TypeOK, NEW j \in Job, NEW err \in Raised, NEW delay \in Int,
           SettledRow(j, err, delay).attempts <= MaxAttempts
    PROVE  /\ SettledRow(j, err, delay) \in JobRow
           /\ SettledRow(j, err, delay).st \in Runnable \cup Terminal
           /\ SettledRow(j, err, delay).owner = NoOwner
<1>1. job[j] \in JobRow
  BY DEF TypeOK
<1>2. \A st \in Runnable \cup Terminal : st \in JobState \ {"running"}
  BY DEF JobState, Runnable, Terminal
<1>3. CASE err \in {"handler_failed", "other"}
  <2> DEFINE st == IF FailOrRetryFinal(j) THEN "failed" ELSE "retry_wait"
             d  == IF FailOrRetryFinal(j) THEN 0 ELSE delay
             attempts == job[j].attempts + 1
             expiries == job[j].expiries
  <2>1. SettledRow(j, err, delay) = Unleased(job[j], st, d, attempts, expiries)
    BY <1>3 DEF SettledRow
  <2>2. st \in Runnable \cup Terminal /\ d \in Int
    BY DEF Runnable, Terminal
  <2>3. attempts \in Nat /\ expiries \in Nat
    BY <1>1 DEF JobRow
  <2>4. attempts <= MaxAttempts
    BY <2>1 DEF Unleased
  <2>5. attempts \in 0 .. MaxAttempts
    BY <2>3, <2>4, BoundsAssumption
  <2> HIDE DEF st, d, attempts, expiries
  <2> QED
    BY <1>1, <1>2, <2>1, <2>2, <2>3, <2>5, UnleasedRow
<1>4. CASE err \notin {"handler_failed", "other"}
  <2>1. \/ SettledRow(j, err, delay) = Released(job[j], "succeeded", 0)
        \/ SettledRow(j, err, delay) = Released(job[j], "deferred", delay)
        \/ SettledRow(j, err, delay) = Released(job[j], "stale_discarded", 0)
        \/ SettledRow(j, err, delay) = Released(job[j], "failed", 0)
    <3>1. CASE err = "done"
      BY <3>1 DEF SettledRow
    <3>2. CASE err \in {"busy", "preempted", "source_not_ready"}
      BY <3>2 DEF SettledRow
    <3>3. CASE err = "stale"
      BY <3>3 DEF SettledRow
    <3>4. CASE err \in {"permanent", "unknown", "malformed"}
      BY <3>4 DEF SettledRow
    <3> QED
      BY <1>4, <3>1, <3>2, <3>3, <3>4 DEF Raised, Errors
  <2>2. 0 \in Int
    OBVIOUS
  <2>3. PICK st \in Runnable \cup Terminal, d \in Int :
           SettledRow(j, err, delay) = Released(job[j], st, d)
    BY <2>1, <2>2, Zenon DEF Runnable, Terminal
  <2> QED
    BY <1>1, <1>2, <2>3, ReleasedRow
<1> QED
  BY <1>3, <1>4

-----------------------------------------------------------------------------
(* The worker's program counter. *)

\* The invariant, part by part: the store, the processes, the executions.
LEMMA PartsOfTInv ==
    TInv <=> StoreOK /\ LocalOK /\ RunOK /\ CrossingsOK
BY DEF TInv, TypeOK, StoreOK, LocalOK, JobOK, ReceiptOK, LedgerOK, OutputOK, FgOK,
       SupOK, PassOK, SweepOK, RunOK, CrossingsOK

\* An execution that is replaced by a well-typed one keeps the map well typed.
LEMMA SetRunOK ==
    ASSUME RunOK, NEW o \in Owner, NEW j \in Job, NEW r \in Run,
           r.pc = "settle" => r.err \in Raised, SetRun(o, j, r)
    PROVE  RunOK'
BY DEF RunOK, SetRun, SettleHasReason

Pcs == {"idle", "claimed", "ready", "checked", "opening", "reading", "open",
        "crossing", "promoting", "crossed", "operated", "settle"}

\* A worker that moves on without raising keeps its record well typed.
LEMMA MovesOK ==
    ASSUME RunOK, NEW o \in Owner, NEW j \in Job, NEW pc \in Pcs \ {"settle"},
           Moves(o, j, pc)
    PROVE  RunOK'
<1> DEFINE r == [run[o][j] EXCEPT !.pc = pc]
<1>1. run[o][j] \in Run
  BY DEF RunOK
<1>2. r \in Run /\ r.pc = pc
  BY <1>1 DEF Run, Pcs
<1>3. SetRun(o, j, r)
  BY DEF Moves
<1> HIDE DEF r
<1> QED
  BY <1>2, <1>3, SetRunOK

\* A worker that raises an error has a reason to settle with.
LEMMA RaisesOK ==
    ASSUME RunOK, NEW o \in Owner, NEW j \in Job, NEW err \in Raised, Raises(o, j, err)
    PROVE  RunOK'
<1> DEFINE r == [run[o][j] EXCEPT !.pc = "settle", !.err = err]
<1>1. run[o][j] \in Run
  BY DEF RunOK
<1>2. r \in Run /\ r.err = err
  BY <1>1 DEF Run, Raised
<1>3. SetRun(o, j, r)
  BY DEF Raises
<1> HIDE DEF r
<1> QED
  BY <1>2, <1>3, SetRunOK

\* A worker that drops its claim is idle.
LEMMA LeavesOK ==
    ASSUME RunOK, NEW o \in Owner, NEW j \in Job, Leaves(o, j)
    PROVE  RunOK'
<1>1. Idle \in Run /\ Idle.pc # "settle"
  BY DEF Idle, Run
<1>2. SetRun(o, j, Idle)
  BY DEF Leaves
<1> QED
  BY <1>1, <1>2, SetRunOK

\* The worker goes on to its next effect.
LEMMA NextEffectOK ==
    ASSUME RunOK, NEW o \in Owner, NEW j \in Job,
           SetRun(o, j, [run[o][j] EXCEPT !.pc = "ready", !.eff = run[o][j].eff + 1])
    PROVE  RunOK'
<1> DEFINE n == run[o][j].eff + 1
           r == [run[o][j] EXCEPT !.pc = "ready", !.eff = n]
<1>1. run[o][j] \in Run
  BY DEF RunOK
<1>2. n \in Nat
  BY <1>1 DEF Run
<1>3. SetRun(o, j, r)
  OBVIOUS
<1> HIDE DEF n
<1>4. r \in Run /\ r.pc = "ready"
  BY <1>1, <1>2 DEF Run
<1> HIDE DEF r
<1> QED
  BY <1>3, <1>4, SetRunOK

-----------------------------------------------------------------------------
(* The steps of a worker keep TInv. *)

\* A claim token is an owner and a revision.
LEMMA TokenType ==
    ASSUME RunOK, NEW o \in Owner, NEW j \in Job
    PROVE  TokenOf(o, j) \in Token
BY DEF RunOK, Run, TokenOf, Token

\* A receipt written under the claim token keeps the table well typed.
LEMMA SetReceiptOK ==
    ASSUME ReceiptOK, RunOK, NEW o \in Owner, NEW j \in Job,
           NEW st \in {"pending", "started", "applied"}, SetReceipt(o, j, st)
    PROVE  ReceiptOK'
<1> DEFINE r == [st |-> st, token |-> TokenOf(o, j)]
<1>1. r \in Receipt
  BY TokenType DEF Receipt
<1>2. receipt' = [receipt EXCEPT ![j][run[o][j].eff] = r]
  BY DEF SetReceipt
<1> HIDE DEF r
<1> QED
  BY <1>1, <1>2 DEF ReceiptOK

\* So does abandonEffect.
LEMMA AbandonOK ==
    ASSUME ReceiptOK, NEW o \in Owner, NEW j \in Job, NEW lag \in Lags,
           AbandonEffect(o, j, lag)
    PROVE  ReceiptOK'
<1>1. NoReceipt \in Receipt
  BY DEF NoReceipt, Receipt, NoToken, Token
<1> QED
  BY <1>1 DEF AbandonEffect, ReceiptOK

\* Every step of executeClaim, its effect runner and its settlement.
LEMMA WorkKeepsTInv ==
    ASSUME TInv, NEW o \in Owner, NEW j \in Job, Work(o, j)
    PROVE  TInv'
<1>0. StoreOK /\ LocalOK /\ RunOK /\ CrossingsOK
  BY PartsOfTInv
<1> USE <1>0
<1> DEFINE e == run[o][j].eff
<1>a. SUFFICES StoreOK' /\ LocalOK' /\ RunOK' /\ CrossingsOK'
  BY DEF TInv, TypeOK, StoreOK, LocalOK, JobOK, ReceiptOK, LedgerOK, OutputOK, FgOK,
       SupOK, PassOK, SweepOK, RunOK, CrossingsOK
<1>1. CASE ExecuteClaim(o, j)
  <2>1. RunOK'
    BY <1>1, MovesOK, RaisesOK DEF ExecuteClaim, Pcs, Raised, Errors
  <2> QED
    BY <1>1, <2>1 DEF ExecuteClaim, store, StoreOK, LocalOK, CrossingsOK, JobOK,
       ReceiptOK, LedgerOK, OutputOK, FgOK, SupOK, PassOK, SweepOK
<1>2. CASE BeginEffect(o, j)
  <2>1. RunOK'
    BY <1>2, MovesOK, RaisesOK DEF BeginEffect, Pcs, Raised, Errors
  <2>2. ReceiptOK'
    BY <1>2, SetReceiptOK DEF BeginEffect, StoreOK, ReceiptOK
  <2> QED
    BY <1>2, <2>1, <2>2 DEF BeginEffect, StoreOK, LocalOK, CrossingsOK, JobOK,
       LedgerOK, OutputOK, FgOK, SupOK, PassOK, SweepOK
<1>3. CASE ReadIncumbent(o, j)
  <2>1. RunOK'
    BY <1>3, MovesOK, RaisesOK, NextEffectOK DEF ReadIncumbent, Pcs, Raised, Errors
  <2>2. ReceiptOK'
    BY <1>3, SetReceiptOK DEF ReadIncumbent, StoreOK, ReceiptOK
  <2> QED
    BY <1>3, <2>1, <2>2 DEF ReadIncumbent, StoreOK, LocalOK, CrossingsOK, JobOK,
       LedgerOK, OutputOK, FgOK, SupOK, PassOK, SweepOK
<1>4. CASE CommitEffectBoundary(o, j)
  <2>1. RunOK'
    BY <1>4, MovesOK, LeavesOK DEF CommitEffectBoundary, Pcs
  <2>2. ReceiptOK'
    BY <1>4, SetReceiptOK DEF CommitEffectBoundary, StoreOK, ReceiptOK
  <2>3. CrossingsOK'
    BY <1>4, TokenType DEF CommitEffectBoundary, CrossingsOK
  <2> QED
    BY <1>4, <2>1, <2>2, <2>3 DEF CommitEffectBoundary, StoreOK, LocalOK, JobOK,
       LedgerOK, OutputOK, FgOK, SupOK, PassOK, SweepOK
<1>5. CASE OperationReturns(o, j) \/ HandlerReturns(o, j) \/ SourceGraceEnds(o, j)
           \/ SettlementLost(o, j)
  <2>1. RunOK'
    BY <1>5, MovesOK, RaisesOK, LeavesOK
    DEF OperationReturns, HandlerReturns, SourceGraceEnds, SettlementLost, Pcs, Raised, Errors
  <2> QED
    BY <1>5, <2>1 DEF OperationReturns, HandlerReturns, SourceGraceEnds, SettlementLost,
       store, StoreOK, LocalOK, CrossingsOK, JobOK,
       ReceiptOK, LedgerOK, OutputOK, FgOK, SupOK, PassOK, SweepOK
<1>6. ASSUME NEW lag \in Lags, CheckEffect(o, j, lag) \/ BeginEffectFence(o, j, lag)
      PROVE  StoreOK' /\ LocalOK' /\ RunOK' /\ CrossingsOK'
  <2>1. RunOK'
    BY <1>6, MovesOK, RaisesOK, LeavesOK DEF CheckEffect, BeginEffectFence, Pcs, Raised, Errors
  <2> QED
    BY <1>6, <2>1 DEF CheckEffect, BeginEffectFence,
       store, StoreOK, LocalOK, CrossingsOK, JobOK,
       ReceiptOK, LedgerOK, OutputOK, FgOK, SupOK, PassOK, SweepOK
<1>7. ASSUME NEW lag \in Lags, CrossBoundary(o, j, lag) \/ CommitFence(o, j, lag)
      PROVE  StoreOK' /\ LocalOK' /\ RunOK' /\ CrossingsOK'
  <2>1. RunOK'
    BY <1>7, MovesOK, RaisesOK, LeavesOK DEF CrossBoundary, CommitFence, Pcs, Raised, Errors
  <2>2. ReceiptOK'
    BY <1>7, AbandonOK DEF CrossBoundary, CommitFence, StoreOK, ReceiptOK
  <2> QED
    BY <1>7, <2>1, <2>2 DEF CrossBoundary, CommitFence, StoreOK, LocalOK, CrossingsOK,
       JobOK, LedgerOK, OutputOK, FgOK, SupOK, PassOK, SweepOK
<1>8. ASSUME NEW lag \in Lags, NEW err \in Errors, HandlerThrows(o, j, err, lag)
      PROVE  StoreOK' /\ LocalOK' /\ RunOK' /\ CrossingsOK'
  <2>1. RunOK'
    BY <1>8, RaisesOK DEF HandlerThrows, Raised
  <2>2. ReceiptOK'
    BY <1>8, AbandonOK DEF HandlerThrows, StoreOK, ReceiptOK
  <2> QED
    BY <1>8, <2>1, <2>2 DEF HandlerThrows, StoreOK, LocalOK, CrossingsOK,
       JobOK, LedgerOK, OutputOK, FgOK, SupOK, PassOK, SweepOK
<1>9. ASSUME NEW lag \in Lags, CompleteEffect(o, j, lag)
      PROVE  StoreOK' /\ LocalOK' /\ RunOK' /\ CrossingsOK'
  <2>1. RunOK'
    BY <1>9, RaisesOK, LeavesOK, NextEffectOK DEF CompleteEffect, Raised, Errors
  <2>2. ReceiptOK'
    BY <1>9, SetReceiptOK DEF CompleteEffect, StoreOK, ReceiptOK
  <2>3. OutputOK'
    BY <1>9 DEF CompleteEffect, StoreOK, OutputOK
  <2> QED
    BY <1>9, <2>1, <2>2, <2>3 DEF CompleteEffect, StoreOK, LocalOK, CrossingsOK,
       JobOK, LedgerOK, FgOK, SupOK, PassOK, SweepOK
<1>10. ASSUME NEW lag \in Lags, SettleClaim(o, j, lag)
       PROVE  StoreOK' /\ LocalOK' /\ RunOK' /\ CrossingsOK'
  <2> DEFINE err == run[o][j].err
             row == SettledRow(j, err, DelayTicks - lag)
  <2>1. RunOK'
    BY <1>10, LeavesOK DEF SettleClaim
  <2>2. err \in Raised /\ DelayTicks - lag \in Int
    BY <1>10, BoundsAssumption DEF SettleClaim, RunOK, SettleHasReason, Lags
  <2>3. job' = job \/ (job' = [job EXCEPT ![j] = row] /\ row.attempts <= MaxAttempts)
    BY <1>10 DEF SettleClaim
  <2>4. row.attempts <= MaxAttempts =>
           row \in JobRow /\ row.st \in Runnable \cup Terminal /\ row.owner = NoOwner
    BY <2>2, SettledRowType DEF TInv
  <2>5. JobOK'
    BY <2>3, <2>4 DEF StoreOK, JobOK, Runnable, Terminal
  <2>6. OutputOK'
    BY <1>10 DEF SettleClaim, SettledStatus, FirstStatus, StoreOK, OutputOK
  <2> QED
    BY <1>10, <2>1, <2>5, <2>6 DEF SettleClaim, StoreOK, LocalOK, CrossingsOK,
       ReceiptOK, LedgerOK, FgOK, SupOK, PassOK, SweepOK
<1> QED
  BY <1>1, <1>2, <1>3, <1>4, <1>5, <1>6, <1>7, <1>8, <1>9, <1>10 DEF Work

-----------------------------------------------------------------------------
(* The steps of the store's other callers keep TInv. *)

\* The rows that admission and purge write are rows of the table.
LEMMA RowsOK ==
    ASSUME TInv, NEW j \in Job
    PROVE  /\ job[j] \in JobRow
           /\ AbsentRow \in JobRow /\ AbsentRow.st = "absent" /\ AbsentRow.owner = NoOwner
           /\ EnqueuedRow(j) \in JobRow
           /\ EnqueuedRow(j).st \in {"queued", "stale_discarded"}
           /\ EnqueuedRow(j).owner = NoOwner
<1>1. job[j] \in JobRow
  BY DEF TInv, TypeOK
<1>2. AbsentRow \in JobRow /\ AbsentRow.st = "absent" /\ AbsentRow.owner = NoOwner
  BY BoundsAssumption DEF AbsentRow, JobRow, JobState
<1>3. /\ [AbsentRow EXCEPT !.st = "stale_discarded", !.rev = 2] \in JobRow
      /\ [AbsentRow EXCEPT !.st = "queued", !.rev = 1] \in JobRow
  BY <1>2 DEF JobRow, JobState, Runnable, Terminal
<1> QED
  BY <1>1, <1>2, <1>3 DEF EnqueuedRow, AbsentRow

\* A deleted receipt is a receipt slot again.
LEMMA NoReceiptType == NoReceipt \in Receipt
BY DEF NoReceipt, Receipt, NoToken, Token

\* Admission and the operator's retirement.
LEMMA StoreKeepsTInv ==
    ASSUME TInv, Store
    PROVE  TInv'
<1>0. StoreOK /\ LocalOK /\ RunOK /\ CrossingsOK
  BY PartsOfTInv
<1> USE <1>0
<1>a. SUFFICES StoreOK' /\ LocalOK' /\ RunOK' /\ CrossingsOK'
  BY DEF TInv, TypeOK, StoreOK, LocalOK, JobOK, ReceiptOK, LedgerOK, OutputOK, FgOK,
       SupOK, PassOK, SweepOK, RunOK, CrossingsOK
<1>1. ASSUME NEW t \in Turn, Enqueue(t)
      PROVE  StoreOK' /\ LocalOK' /\ RunOK' /\ CrossingsOK'
  <2>1. ASSUME NEW k \in Job
        PROVE  /\ job'[k] \in JobRow
               /\ job'[k].st = "running" <=> job'[k].owner # NoOwner
    <3>1. CASE job'[k] = EnqueuedRow(k)
      BY <3>1, RowsOK
    <3>2. CASE job'[k] = Released(job[k], "stale_discarded", 0)
      <4>1. PICK st \in JobState \ {"running"}, d \in Int : job'[k] = Released(job[k], st, d)
        BY <3>2 DEF JobState, Runnable, Terminal
      <4> QED
        BY <4>1, RowsOK, ReleasedRow
    <3>3. CASE job'[k] = job[k]
      BY <3>3 DEF StoreOK, JobOK
    <3> QED
      BY <1>1, <3>1, <3>2, <3>3 DEF Enqueue
  <2>2. JobOK'
    BY <1>1, <2>1 DEF Enqueue, JobOK
  <2>3. LedgerOK'
    BY <1>1 DEF Enqueue, StoreOK, LedgerOK
  <2> QED
    BY <1>1, <2>2, <2>3 DEF Enqueue, StoreOK, LocalOK, RunOK, SettleHasReason, CrossingsOK,
       ReceiptOK, OutputOK, FgOK, SupOK, PassOK, SweepOK
<1>2. ASSUME NEW j \in Job, NEW lag \in Lags, Retire(j, lag)
      PROVE  StoreOK' /\ LocalOK' /\ RunOK' /\ CrossingsOK'
  <2>1. PICK st \in JobState \ {"running"}, d \in Int :
           job' = [job EXCEPT ![j] = Released(job[j], st, d)]
    <3>1. 0 \in Int /\ "stale_discarded" \in JobState \ {"running"}
      BY DEF JobState, Terminal
    <3> QED
      BY <1>2, <3>1, Zenon DEF Retire
  <2>2. JobOK'
    BY <2>1, RowsOK, ReleasedRow DEF StoreOK, JobOK
  <2> QED
    BY <1>2, <2>2 DEF Retire, StoreOK, LocalOK, RunOK, SettleHasReason, CrossingsOK,
       ReceiptOK, LedgerOK, OutputOK, FgOK, SupOK, PassOK, SweepOK
<1> QED
  BY <1>1, <1>2 DEF Store

\* The life of a foreground lease.
LEMMA ForegroundKeepsTInv ==
    ASSUME TInv, Foreground
    PROVE  TInv'
<1>0. StoreOK /\ LocalOK /\ RunOK /\ CrossingsOK
  BY PartsOfTInv
<1>1. FgOK
  BY <1>0 DEF LocalOK
<1>2. ASSUME NEW lag \in Lags PROVE LeaseTicks - lag \in Int
  BY BoundsAssumption DEF Lags
<1>3. UnusedLease \in ForegroundLease
  BY DEF UnusedLease, ForegroundLease
<1>4. FgOK'
  <2>1. ASSUME NEW o \in Owner, NEW l \in Lease, BeginForeground(o, l) PROVE FgOK'
    BY <1>1, <1>3, <2>1 DEF BeginForeground, SetLease, FgOK, ForegroundLease
  <2>2. ASSUME NEW l \in Lease, NEW lag \in Lags, InsertForeground(l, lag) PROVE FgOK'
    BY <1>1, <1>2, <2>2 DEF InsertForeground, SetLease, FgOK, ForegroundLease
  <2>3. ASSUME NEW l \in Lease,
               InsertForegroundFails(l) \/ EndForeground(l) \/ DeleteForegroundFails(l)
        PROVE  FgOK'
    BY <1>1, <2>3 DEF InsertForegroundFails, EndForeground, DeleteForegroundFails, SetLease,
       FgOK, ForegroundLease
  <2>4. ASSUME NEW o \in Owner, NEW lag \in Lags, RenewForeground(o, lag) PROVE FgOK'
    <3> DEFINE n == LeaseTicks - lag
    <3>1. n \in Int /\ 0 \in Int
      BY <1>2
    <3>2. ASSUME NEW l \in Lease
          PROVE  \/ fg'[l] = fg[l]
                 \/ \E st \in {"active", "lost"}, left \in Int :
                        fg'[l] = [fg[l] EXCEPT !.st = st, !.left = left]
      <4> DEFINE st == IF fg[l].row /\ fg[l].left + lag > 0 THEN "active" ELSE "lost"
                 left == IF fg[l].row THEN n ELSE 0
      <4>1. fg'[l] = fg[l] \/ fg'[l] = [fg[l] EXCEPT !.st = st, !.left = left]
        BY <2>4 DEF RenewForeground
      <4>2. st \in {"active", "lost"} /\ left \in Int
        BY <3>1
      <4> HIDE DEF st, left
      <4> QED
        BY <4>1, <4>2
    <3> HIDE DEF n
    <3>3. ASSUME NEW l \in Lease PROVE fg'[l] \in ForegroundLease
      BY <1>1, <3>2 DEF FgOK, ForegroundLease
    <3> QED
      BY <2>4, <3>3 DEF RenewForeground, FgOK
  <2>5. ASSUME NEW o \in Owner, RenewForegroundFails(o) PROVE FgOK'
    BY <1>1, <2>5 DEF RenewForegroundFails, FgOK, ForegroundLease
  <2>6. ASSUME NEW l \in Lease, NEW lag \in Lags, DeleteForeground(l, lag) PROVE FgOK'
    <3>1. ASSUME NEW k \in Lease PROVE fg'[k] \in ForegroundLease
      <4>1. \/ fg'[k] = fg[k]
            \/ fg'[k] = [fg[k] EXCEPT !.row = FALSE, !.left = 0]
            \/ fg'[k] = [fg[k] EXCEPT !.st = "gone", !.row = FALSE, !.left = 0]
        BY <2>6 DEF DeleteForeground
      <4>2. fg[k] \in ForegroundLease
        BY <1>1 DEF FgOK
      <4>3. ASSUME NEW left \in Int
            PROVE  /\ [fg[k] EXCEPT !.row = FALSE, !.left = left] \in ForegroundLease
                   /\ [fg[k] EXCEPT !.st = "gone", !.row = FALSE, !.left = left]
                        \in ForegroundLease
        BY <4>2 DEF ForegroundLease
      <4>4. 0 \in Int
        OBVIOUS
      <4> QED
        BY <4>1, <4>2, <4>3, <4>4, Zenon
    <3> QED
      BY <2>6, <3>1 DEF DeleteForeground, FgOK
  <2> QED
    BY <2>1, <2>2, <2>3, <2>4, <2>5, <2>6 DEF Foreground
<1>5. UNCHANGED <<store, sup, pass, sweep, drop, run, crossings>>
  BY DEF Foreground, BeginForeground, InsertForeground, InsertForegroundFails,
     EndForeground, DeleteForegroundFails, RenewForeground, RenewForegroundFails,
     DeleteForeground
<1> QED
  BY <1>0, <1>4, <1>5 DEF TInv, TypeOK, store, StoreOK, LocalOK, JobOK, ReceiptOK, LedgerOK,
     OutputOK, FgOK, SupOK, PassOK, SweepOK, RunOK, SettleHasReason, CrossingsOK

\* The passing of time only lowers what is left.
LEMMA TickKeepsTInv ==
    ASSUME TInv, Tick
    PROVE  TInv'
<1>0. StoreOK /\ LocalOK /\ RunOK /\ CrossingsOK
  BY PartsOfTInv
<1>1. ASSUME NEW left \in Int PROVE Down(left) \in Int
  BY BoundsAssumption DEF Down
<1>2. JobOK'
  <2> SUFFICES ASSUME NEW j \in Job
               PROVE  /\ job'[j] \in JobRow
                      /\ job'[j].st = "running" <=> job'[j].owner # NoOwner
    BY DEF Tick, JobOK
  <2> DEFINE a == Down(job[j].leaseLeft)
             b == Down(job[j].availLeft)
  <2>1. job[j] \in JobRow /\ (job[j].st = "running" <=> job[j].owner # NoOwner)
    BY <1>0 DEF StoreOK, JobOK
  <2>2. a \in Int /\ b \in Int
    BY <1>1, <2>1 DEF JobRow
  <2>3. \/ job'[j] = [job[j] EXCEPT !.leaseLeft = a]
        \/ job'[j] = [job[j] EXCEPT !.availLeft = b]
        \/ job'[j] = job[j]
    BY DEF Tick
  <2> HIDE DEF a, b
  <2> QED
    BY <2>1, <2>2, <2>3 DEF JobRow
<1>3. FgOK'
  BY <1>0, <1>1 DEF Tick, LocalOK, FgOK, ForegroundLease
<1> QED
  BY <1>0, <1>2, <1>3 DEF Tick, TInv, TypeOK, StoreOK, LocalOK, JobOK, ReceiptOK, LedgerOK,
     OutputOK, FgOK, SupOK, PassOK, SweepOK, RunOK, SettleHasReason, CrossingsOK

\* The end of recoverExpired, however it ends, forgets what it read.
LEMMA EndSweepOK ==
    ASSUME SweepOK, NEW o \in Owner, EndSweep(o)
    PROVE  SweepOK'
<1>1. 0 \in Lags
  BY BoundsAssumption DEF Lags
<1> QED
  BY <1>1 DEF SweepOK, EndSweep, NoSweep

\* renewClaims moves lease ends and fences, and nothing else.
LEMMA HeartbeatOK ==
    ASSUME TInv, NEW o \in Owner, NEW lag \in Lags
    PROVE  /\ job' = JobsRenewed(o, lag) => JobOK'
           /\ run' = RunsFenced(o) => RunOK'
<1>0. JobOK /\ RunOK
  BY PartsOfTInv DEF StoreOK
<1>1. SUFFICES ASSUME job' = JobsRenewed(o, lag) PROVE JobOK'
  <2>1. ASSUME run' = RunsFenced(o) PROVE RunOK'
    <3>1. ASSUME NEW j \in Job
          PROVE  /\ run'[o][j] \in Run
                 /\ run'[o][j].pc = run[o][j].pc /\ run'[o][j].err = run[o][j].err
      <4>1. run[o][j] \in Run
        BY <1>0 DEF RunOK
      <4>2. run'[o][j] = run[o][j] \/ run'[o][j] = [run[o][j] EXCEPT !.fence = "lost"]
        BY <1>0, <2>1 DEF RunsFenced, RunOK
      <4> QED
        BY <4>1, <4>2 DEF Run
    <3>2. run' \in [Owner -> [Job -> Run]]
      BY <1>0, <2>1, <3>1 DEF RunsFenced, RunOK
    <3>3. SettleHasReason'
      BY <1>0, <2>1, <3>1 DEF RunsFenced, RunOK, SettleHasReason
    <3> QED
      BY <3>2, <3>3 DEF RunOK
  <2> QED
    BY <2>1
<1> DEFINE n == LeaseTicks - lag
<1>2. n \in Int
  BY BoundsAssumption DEF Lags
<1>3. job' = [j \in Job |-> IF Renewed(o, j) THEN [job[j] EXCEPT !.leaseLeft = n] ELSE job[j]]
  BY <1>1 DEF JobsRenewed
<1> HIDE DEF n
<1> QED
  BY <1>0, <1>2, <1>3 DEF JobOK, JobRow

\* claimNext makes its caller the owner of a running row.
LEMMA ClaimNextKeepsTInv ==
    ASSUME TInv, NEW o \in Owner, NEW j \in Job, NEW lag \in Lags, ClaimNext(o, j, lag)
    PROVE  TInv'
<1>0. StoreOK /\ LocalOK /\ RunOK /\ CrossingsOK
  BY PartsOfTInv
<1> DEFINE left == LeaseTicks - lag
           rev == job[j].rev + 1
<1>1. job[j] \in JobRow
  BY <1>0 DEF StoreOK, JobOK
<1>2. left \in Int /\ rev \in Nat
  BY <1>1, BoundsAssumption DEF Lags, JobRow
<1>3. JobOK'
  <2>1. job' = [job EXCEPT ![j] = LeasedRow(o, j, left)]
    BY DEF ClaimNext
  <2> HIDE DEF left
  <2>2. LeasedRow(o, j, left) \in JobRow
    BY <1>1, <1>2 DEF LeasedRow, JobRow, JobState
  <2>3. LeasedRow(o, j, left).st = "running" /\ LeasedRow(o, j, left).owner # NoOwner
    BY JobsAssumption DEF LeasedRow
  <2> QED
    BY <1>0, <2>1, <2>2, <2>3 DEF StoreOK, JobOK
<1>4. RunOK'
  <2> DEFINE r == [Idle EXCEPT !.pc = "claimed", !.rev = rev]
  <2>1. SetRun(o, j, r)
    BY DEF ClaimNext
  <2> HIDE DEF rev
  <2>2. r \in Run /\ r.pc # "settle"
    BY <1>2 DEF Idle, Run
  <2> HIDE DEF r
  <2> QED
    BY <1>0, <2>1, <2>2, SetRunOK
<1>5. FgOK'
  <2>1. ASSUME NEW l \in Lease PROVE fg'[l] \in ForegroundLease
    <3>1. fg[l] \in ForegroundLease
      BY <1>0 DEF LocalOK, FgOK
    <3>2. fg'[l] = fg[l] \/ fg'[l] = [fg[l] EXCEPT !.row = FALSE, !.left = 0]
      BY DEF ClaimNext
    <3>3. ASSUME NEW d \in Int
          PROVE  [fg[l] EXCEPT !.row = FALSE, !.left = d] \in ForegroundLease
      BY <3>1 DEF ForegroundLease
    <3>4. 0 \in Int
      OBVIOUS
    <3> QED
      BY <3>1, <3>2, <3>3, <3>4, Zenon
  <2> QED
    BY <2>1 DEF ClaimNext, FgOK
<1> QED
  BY <1>0, <1>3, <1>4, <1>5 DEF ClaimNext, TInv, TypeOK, StoreOK, LocalOK, JobOK, ReceiptOK,
     LedgerOK, OutputOK, FgOK, SupOK, PassOK, SweepOK, RunOK, CrossingsOK

\* Every step of a supervisor's life, its heartbeats and its claim passes.
LEMMA SuperviseKeepsTInv ==
    ASSUME TInv, NEW o \in Owner, Supervise(o)
    PROVE  TInv'
<1>0. StoreOK /\ LocalOK /\ RunOK /\ CrossingsOK
  BY PartsOfTInv
<1> USE <1>0
<1> DEFINE Goal == StoreOK' /\ LocalOK' /\ RunOK' /\ CrossingsOK'
<1>a. SUFFICES Goal
  BY DEF TInv, TypeOK, StoreOK, LocalOK, JobOK, ReceiptOK, LedgerOK, OutputOK, FgOK,
       SupOK, PassOK, SweepOK, RunOK, CrossingsOK
<1>1. CASE Start(o)
  BY <1>1 DEF Start, StoreOK, LocalOK, RunOK, SettleHasReason, CrossingsOK, JobOK, ReceiptOK,
     LedgerOK, OutputOK, FgOK, SupOK, PassOK, SweepOK
<1>2. CASE BeginStop(o)
  <2>1. ASSUME NEW j \in Job
        PROVE  /\ run'[o][j] \in Run
               /\ run'[o][j].pc = run[o][j].pc /\ run'[o][j].err = run[o][j].err
    <3>1. run[o][j] \in Run
      BY DEF RunOK
    <3>2. run'[o][j] = run[o][j] \/ run'[o][j] = [run[o][j] EXCEPT !.fence = "stopped"]
      BY <1>2 DEF BeginStop, RunOK
    <3> QED
      BY <3>1, <3>2 DEF Run
  <2>2. RunOK'
    BY <1>2, <2>1 DEF BeginStop, RunOK, SettleHasReason
  <2> QED
    BY <1>2, <2>2 DEF BeginStop, StoreOK, LocalOK, CrossingsOK, JobOK, ReceiptOK,
       LedgerOK, OutputOK, FgOK, SupOK, PassOK, SweepOK
<1>3. CASE Die(o)
  <2>1. RunOK'
    BY <1>3 DEF Die, RunOK, SettleHasReason, Idle, Run
  <2>2. FgOK'
    BY <1>3 DEF Die, LocalOK, FgOK, ForegroundLease
  <2>3. SweepOK'
    BY <1>3, EndSweepOK DEF Die, LocalOK
  <2> QED
    BY <1>3, <2>1, <2>2, <2>3 DEF Die, StoreOK, LocalOK, CrossingsOK, JobOK, ReceiptOK,
       LedgerOK, OutputOK, SupOK, PassOK
<1>4. CASE RequeuePreBoundaryClaims(o)
  <2>1. JobOK'
    <3>1. ASSUME NEW j \in Job
          PROVE  /\ job'[j] \in JobRow
                 /\ job'[j].st = "running" <=> job'[j].owner # NoOwner
      <4>1. CASE job'[j] = job[j]
        BY <4>1 DEF StoreOK, JobOK
      <4>2. CASE job'[j] = Released(job[j], "queued", 0)
        <5>1. 0 \in Int /\ "queued" \in JobState \ {"running"} /\ job[j] \in JobRow
          BY DEF JobState, Runnable, StoreOK, JobOK
        <5>2. PICK st \in JobState \ {"running"}, d \in Int : job'[j] = Released(job[j], st, d)
          BY <4>2, <5>1, Zenon
        <5> QED
          BY <5>1, <5>2, ReleasedRow
      <4> QED
        BY <1>4, <4>1, <4>2 DEF RequeuePreBoundaryClaims
    <3> QED
      BY <1>4, <3>1 DEF RequeuePreBoundaryClaims, JobOK
  <2>2. ReceiptOK'
    BY <1>4, NoReceiptType DEF RequeuePreBoundaryClaims, StoreOK, ReceiptOK
  <2> QED
    BY <1>4, <2>1, <2>2 DEF RequeuePreBoundaryClaims, StoreOK, LocalOK, RunOK,
       SettleHasReason, CrossingsOK, LedgerOK, OutputOK, FgOK, SupOK, PassOK, SweepOK
<1>5. CASE PurgeTerminal(o)
  <2>1. PICK j \in Job :
           /\ job' = [job EXCEPT ![j] = AbsentRow]
           /\ receipt' = [receipt EXCEPT ![j] = [e \in Effect |-> NoReceipt]]
    BY <1>5 DEF PurgeTerminal
  <2>2. JobOK'
    BY <2>1, RowsOK DEF StoreOK, JobOK
  <2>3. ReceiptOK'
    BY <2>1, NoReceiptType DEF StoreOK, ReceiptOK
  <2> QED
    BY <1>5, <2>2, <2>3 DEF PurgeTerminal, StoreOK, LocalOK, RunOK,
       SettleHasReason, CrossingsOK, LedgerOK, OutputOK, FgOK, SupOK, PassOK, SweepOK
<1>6. CASE HeartbeatFails(o)
  <2>1. ASSUME NEW j \in Job
        PROVE  /\ run'[o][j] \in Run
               /\ run'[o][j].pc = run[o][j].pc /\ run'[o][j].err = run[o][j].err
    <3>1. run[o][j] \in Run
      BY DEF RunOK
    <3>2. run'[o][j] = run[o][j] \/ run'[o][j] = [run[o][j] EXCEPT !.fence = "lost"]
      BY <1>6 DEF HeartbeatFails, RunOK
    <3> QED
      BY <3>1, <3>2 DEF Run
  <2>2. RunOK'
    BY <1>6, <2>1 DEF HeartbeatFails, RunOK, SettleHasReason
  <2> QED
    BY <1>6, <2>2 DEF HeartbeatFails, StoreOK, LocalOK, CrossingsOK, JobOK, ReceiptOK,
       LedgerOK, OutputOK, FgOK, SupOK, PassOK, SweepOK
<1>7. CASE RecoverExpired(o)
  <2>1. JobOK'
    <3>1. ASSUME NEW j \in Job
          PROVE  /\ job'[j] \in JobRow
                 /\ job'[j].st = "running" <=> job'[j].owner # NoOwner
      <4>1. CASE job'[j] = job[j]
        BY <4>1 DEF StoreOK, JobOK
      <4>2. CASE /\ job'[j] = RecoveredRow(j, sweep[o].class[j]) /\ sweep[o].class[j] # "no"
                 /\ RecoveredRow(j, sweep[o].class[j]).attempts <= MaxAttempts
        <5>1. sweep[o].class[j] \in {"pre", "last", "crossed"}
          BY <4>2 DEF LocalOK, SweepOK
        <5> QED
          BY <4>2, <5>1, RecoveredRowType DEF TInv
      <4> QED
        BY <1>7, <4>1, <4>2 DEF RecoverExpired
    <3> QED
      BY <1>7, <3>1 DEF RecoverExpired, JobOK
  <2>2. ReceiptOK'
    BY <1>7, NoReceiptType DEF RecoverExpired, StoreOK, ReceiptOK
  <2>3. OutputOK'
    <3>1. \A t \in Turn, class \in {"no", "pre", "last", "crossed"} :
             FirstStatus(output[t], RecoveredStatus(class))
               \in {"none", "applied", "failed", "outcome_unknown"}
      BY DEF StoreOK, OutputOK, FirstStatus, RecoveredStatus
    <3>2. \A t \in Turn : output'[t] \in {"none", "applied", "failed", "outcome_unknown"}
      BY <1>7, <3>1 DEF RecoverExpired, StoreOK, OutputOK, FirstStatus, RecoveredStatus
    <3> QED
      BY <1>7, <3>2 DEF RecoverExpired, OutputOK
  <2>4. SweepOK' /\ PassOK'
    BY <1>7, EndSweepOK DEF RecoverExpired, LocalOK, PassOK
  <2> QED
    BY <1>7, <2>1, <2>2, <2>3, <2>4 DEF RecoverExpired, StoreOK, LocalOK, RunOK,
       SettleHasReason, CrossingsOK, LedgerOK, FgOK, SupOK
<1>8. CASE RecoverExpiredFails(o)
  <2>1. SweepOK' /\ PassOK'
    BY <1>8, EndSweepOK DEF RecoverExpiredFails, LocalOK, PassOK
  <2> QED
    BY <1>8, <2>1 DEF RecoverExpiredFails, store, StoreOK, LocalOK, RunOK, SettleHasReason,
       CrossingsOK, JobOK, ReceiptOK, LedgerOK, OutputOK, FgOK, SupOK
<1>9. CASE EndPass(o)
  BY <1>9 DEF EndPass, StoreOK, LocalOK, RunOK, SettleHasReason, CrossingsOK, JobOK, ReceiptOK,
     LedgerOK, OutputOK, FgOK, SupOK, PassOK, SweepOK
<1>10. ASSUME NEW lag \in Lags, Heartbeat(o, lag) PROVE Goal
  <2>1. JobOK' /\ RunOK'
    BY <1>10, HeartbeatOK DEF Heartbeat
  <2> QED
    BY <1>10, <2>1 DEF Heartbeat, StoreOK, LocalOK, CrossingsOK, ReceiptOK,
       LedgerOK, OutputOK, FgOK, SupOK, PassOK, SweepOK
<1>11. ASSUME NEW lag \in Lags, BeginPass(o, lag) PROVE Goal
  <2>1. JobOK' /\ RunOK'
    BY <1>11, HeartbeatOK DEF BeginPass
  <2> DEFINE Gone == {j \in Job : job[j].st = "running" /\ Expired(j, lag) /\ ~Renewed(o, j)}
             Pending == {p \in Gone \X Effect : receipt[p[1]][p[2]].st = "pending"}
  <2>a. /\ sweep' = [sweep EXCEPT ![o] = [NoSweep EXCEPT !.lag = lag]]
        /\ drop' = [drop EXCEPT ![o] = Pending]
        /\ pass' = [pass EXCEPT ![o] = "dropping"]
    BY <1>11 DEF BeginPass
  <2>b. Pending \in SUBSET (Job \X Effect)
    OBVIOUS
  <2> HIDE DEF Pending
  <2>2. SweepOK' /\ PassOK'
    BY <2>a, <2>b DEF NoSweep, LocalOK, SweepOK, PassOK
  <2> QED
    BY <1>11, <2>1, <2>2 DEF BeginPass, StoreOK, LocalOK, CrossingsOK, ReceiptOK,
       LedgerOK, OutputOK, FgOK, SupOK
<1>12. ASSUME NEW j \in Job, NEW lag \in Lags, ClaimNext(o, j, lag) PROVE Goal
  <2>1. TInv'
    BY <1>12, ClaimNextKeepsTInv
  <2> QED
    BY <2>1 DEF TInv, TypeOK, StoreOK, LocalOK, JobOK, ReceiptOK, LedgerOK, OutputOK, FgOK,
       SupOK, PassOK, SweepOK, RunOK, CrossingsOK
<1>13. CASE ReadExpired(o)
  <2> DEFINE read == [j \in Job |-> Classified(j, sweep[o].lag)]
  <2>1. read \in [Job -> {"no", "pre", "last", "crossed"}] /\ 0 \in Lags
    BY BoundsAssumption DEF Classified, Lags
  <2>2. sweep' = [sweep EXCEPT ![o] = [lag |-> 0, class |-> read]] /\ drop' = drop
    BY <1>13 DEF ReadExpired
  <2> HIDE DEF read
  <2>3. SweepOK'
    BY <2>1, <2>2 DEF LocalOK, SweepOK
  <2>4. PassOK'
    BY <1>13 DEF ReadExpired, LocalOK, PassOK
  <2> QED
    BY <1>13, <2>3, <2>4 DEF ReadExpired, store, StoreOK, LocalOK, RunOK, SettleHasReason,
       CrossingsOK, JobOK, ReceiptOK, LedgerOK, OutputOK, FgOK, SupOK
<1> QED
  BY <1>1, <1>2, <1>3, <1>4, <1>5, <1>6, <1>7, <1>8, <1>9, <1>10, <1>11, <1>12, <1>13
  DEF Supervise

-----------------------------------------------------------------------------
\* The empty store with no process is well typed.
LEMMA InitTInv == Init => TInv
<1> SUFFICES ASSUME Init PROVE TInv
  OBVIOUS
<1>1. AbsentRow \in JobRow /\ AbsentRow.st = "absent" /\ AbsentRow.owner = NoOwner
  BY BoundsAssumption DEF AbsentRow, JobRow, JobState
<1>2. Idle \in Run /\ Idle.pc = "idle" /\ UnusedLease \in ForegroundLease
  BY DEF Idle, Run, UnusedLease, ForegroundLease
<1>3. StoreOK
  BY <1>1, NoReceiptType DEF Init, StoreOK, JobOK, ReceiptOK, LedgerOK, OutputOK
<1>4. LocalOK
  BY <1>2, BoundsAssumption DEF Init, LocalOK, FgOK, SupOK, PassOK, SweepOK, NoSweep, Lags
<1>5. RunOK /\ CrossingsOK
  BY <1>2 DEF Init, RunOK, SettleHasReason, CrossingsOK
<1> QED
  BY <1>3, <1>4, <1>5, PartsOfTInv

\* Every step of the lane keeps it well typed.
LEMMA NextTInv == TInv /\ [Next]_vars => TInv'
<1> SUFFICES ASSUME TInv, [Next]_vars PROVE TInv'
  OBVIOUS
<1>1. CASE UNCHANGED vars
  BY <1>1 DEF vars, TInv, TypeOK, SettleHasReason
<1>2. CASE Next
  BY <1>2, StoreKeepsTInv, ForegroundKeepsTInv, TickKeepsTInv, SuperviseKeepsTInv,
     WorkKeepsTInv DEF Next
<1> QED
  BY <1>1, <1>2

\* Every reachable state of the lane is well typed, whatever the number of
\* supervisors, jobs, effects, retries, crashes and foreground turns.
THEOREM TypeCorrect == Spec => []TypeOK
<1>1. TInv => TypeOK
  BY DEF TInv
<1> QED
  BY <1>1, InitTInv, NextTInv, PTL DEF Spec

-----------------------------------------------------------------------------
(* At most one claim crosses the write boundary of an effect.                  *)
(*                                                                             *)
(* EffectCrossedOnce is not inductive: nothing in it says that the receipt     *)
(* remembers the crossing.  EffectInv says so: a job that is still in the      *)
(* table has crossed exactly under the token of a started or applied receipt,  *)
(* and a job that was purged cannot come back, since its turn is in the        *)
(* ledger.                                                                     *)

\* A row in the table was put there by a turn that the ledger accepted.
RowsAccepted == \A j \in Job : job[j].st # "absent" => TurnOf[j] \in ledger

\* The rows of a turn that was never accepted have crossed nothing.
NothingBeforeAcceptance ==
    \A j \in Job : TurnOf[j] \notin ledger => \A e \in Effect : crossings[j][e] = {}

\* A purge takes the receipts with the row.
ReceiptsHaveRows ==
    \A j \in Job : job[j].st = "absent" => \A e \in Effect : receipt[j][e] = NoReceipt

\* What an uncommitted recoverExpired has deleted is still pending underneath.
DroppedArePending ==
    \A o \in Owner, j \in Job, e \in Effect :
        <<j, e>> \in drop[o] => receipt[j][e].st = "pending"

\* No receipt is deleted by two of them.
DropsAreExclusive ==
    \A o, q \in Owner, j \in Job, e \in Effect :
        <<j, e>> \in drop[o] /\ <<j, e>> \in drop[q] => o = q

\* As long as the row is there, its receipt knows of every crossing.
ReceiptKnowsCrossing ==
    \A j \in Job, e \in Effect :
        job[j].st # "absent" =>
          IF receipt[j][e].st \in {"started", "applied"}
          THEN crossings[j][e] \subseteq {receipt[j][e].token}
          ELSE crossings[j][e] = {}

CrossingInv ==
    /\ RowsAccepted /\ NothingBeforeAcceptance /\ ReceiptsHaveRows
    /\ DroppedArePending /\ DropsAreExclusive /\ ReceiptKnowsCrossing /\ EffectCrossedOnce

EffectInv == TInv /\ CrossingInv

-----------------------------------------------------------------------------
(* Two shapes of step. *)

\* A step that leaves receipts, ledger and crossings alone, and neither adds
\* nor removes a row, keeps the invariant.
LEMMA QuietStep ==
    ASSUME CrossingInv, UNCHANGED <<receipt, ledger, crossings>>,
           \A o \in Owner : drop'[o] \subseteq drop[o],
           \A j \in Job : job'[j].st = "absent" <=> job[j].st = "absent"
    PROVE  CrossingInv'
BY DEF CrossingInv, RowsAccepted, NothingBeforeAcceptance, ReceiptsHaveRows,
   DroppedArePending, DropsAreExclusive, ReceiptKnowsCrossing, EffectCrossedOnce

\* So does a step that rewrites one receipt nobody has locked, when the new one
\* knows of the crossings there are.
LEMMA ReceiptStep ==
    ASSUME TInv, CrossingInv, NEW j \in Job, NEW e, NEW r,
           receipt' = [receipt EXCEPT ![j][e] = r],
           e \in Effect => /\ job[j].st # "absent" /\ ~ReceiptLocked(j, e)
                          /\ IF r.st \in {"started", "applied"}
                             THEN crossings[j][e] \subseteq {r.token}
                             ELSE crossings[j][e] = {},
           UNCHANGED <<job, ledger, drop, crossings>>
    PROVE  CrossingInv'
<1>0. receipt \in [Job -> [Effect -> Receipt]]
  BY DEF TInv, TypeOK
<1>1. \A k \in Job, f \in Effect : (k # j \/ f # e) => receipt'[k][f] = receipt[k][f]
  BY <1>0
<1>2. e \in Effect => receipt'[j][e] = r
  BY <1>0
<1>3. RowsAccepted' /\ NothingBeforeAcceptance' /\ EffectCrossedOnce'
  BY DEF CrossingInv, RowsAccepted, NothingBeforeAcceptance, EffectCrossedOnce
<1>4. ReceiptsHaveRows'
  BY <1>1 DEF CrossingInv, ReceiptsHaveRows
<1>5. DroppedArePending' /\ DropsAreExclusive'
  BY <1>1 DEF CrossingInv, DroppedArePending, DropsAreExclusive, ReceiptLocked
<1>6. ReceiptKnowsCrossing'
  BY <1>1, <1>2 DEF CrossingInv, ReceiptKnowsCrossing
<1> QED
  BY <1>3, <1>4, <1>5, <1>6 DEF CrossingInv

\* An abandoned receipt was pending, so nothing had crossed.
LEMMA AbandonStep ==
    ASSUME TInv, CrossingInv, NEW o \in Owner, NEW j \in Job, NEW lag \in Lags,
           AbandonEffect(o, j, lag), UNCHANGED <<job, ledger, drop, crossings>>
    PROVE  CrossingInv'
<1> DEFINE e == run[o][j].eff
<1>1. CASE receipt' = receipt
  BY <1>1, QuietStep
<1>2. CASE /\ receipt' = [receipt EXCEPT ![j][e] = NoReceipt]
           /\ receipt[j][e].st = "pending" /\ ~ReceiptLocked(j, e) /\ OwnsClaim(o, j)
  <2>1. job[j].st # "absent" /\ NoReceipt.st = "none"
    BY <1>2 DEF OwnsClaim, NoReceipt
  <2>2. e \in Effect => crossings[j][e] = {}
    BY <1>2, <2>1 DEF CrossingInv, ReceiptKnowsCrossing
  <2> HIDE DEF e
  <2> QED
    BY <1>2, <2>1, <2>2, ReceiptStep
<1> QED
  BY <1>1, <1>2 DEF AbandonEffect

-----------------------------------------------------------------------------
(* The worker's steps. *)

\* A settlement never removes the row it writes.
LEMMA SettleStays ==
    ASSUME TInv, CrossingInv, NEW o \in Owner, NEW j \in Job, NEW lag \in Lags,
           SettleClaim(o, j, lag)
    PROVE  CrossingInv'
<1> DEFINE err == run[o][j].err
           row == SettledRow(j, err, DelayTicks - lag)
<1>1. err \in Raised /\ DelayTicks - lag \in Int
  BY BoundsAssumption DEF SettleClaim, TInv, SettleHasReason, Lags
<1>2. row.attempts <= MaxAttempts => row.st # "absent"
  BY <1>1, SettledRowType DEF TInv, Runnable, Terminal
<1>3. \/ job' = job
      \/ /\ job' = [job EXCEPT ![j] = row] /\ row.attempts <= MaxAttempts
         /\ job[j].st = "running"
  BY DEF SettleClaim, OwnsClaim
<1> HIDE DEF row
<1>4. \A k \in Job : job'[k].st = "absent" <=> job[k].st = "absent"
  BY <1>2, <1>3 DEF TInv, TypeOK
<1> QED
  BY <1>4, QuietStep DEF SettleClaim

\* The crossing itself: it is the first, or the one the receipt knows.
LEMMA CommitStep ==
    ASSUME TInv, CrossingInv, NEW o \in Owner, NEW j \in Job, CommitEffectBoundary(o, j)
    PROVE  CrossingInv'
<1> DEFINE e == run[o][j].eff
           tok == TokenOf(o, j)
<1>0. /\ receipt \in [Job -> [Effect -> Receipt]]
      /\ crossings \in [Job -> [Effect -> SUBSET Token]]
  BY DEF TInv, TypeOK
<1>1. CASE UNCHANGED <<receipt, crossings>>
  BY <1>1, QuietStep DEF CommitEffectBoundary
<1>2. CASE ~UNCHANGED <<receipt, crossings>>
  <2>1. /\ receipt[j][e].st # "none" /\ receipt[j][e].token = tok
        /\ ~ReceiptLocked(j, e)
        /\ UNCHANGED <<job, ledger, drop>>
        /\ crossings' = [crossings EXCEPT ![j][e] = @ \cup {tok}]
    BY <1>2 DEF CommitEffectBoundary, OwnsReceipt
  <2>2. PICK st \in {"started", "applied"} :
           receipt' = [receipt EXCEPT ![j][e] = [st |-> st, token |-> tok]]
    BY <1>2 DEF CommitEffectBoundary, SetReceipt
  <2> HIDE DEF e, tok
  <2>3. \A k \in Job, f \in Effect : (k # j \/ f # e) =>
           receipt'[k][f] = receipt[k][f] /\ crossings'[k][f] = crossings[k][f]
    BY <1>0, <2>1, <2>2
  <2>4. CASE e \notin Effect
    <3>1. receipt' = receipt /\ crossings' = crossings
      BY <1>0, <2>1, <2>2, <2>4
    <3> QED
      BY <2>1, <3>1, QuietStep
  <2>5. CASE e \in Effect
    <3>1. job[j].st # "absent" /\ TurnOf[j] \in ledger
      BY <2>1, <2>5 DEF CrossingInv, ReceiptsHaveRows, RowsAccepted, NoReceipt
    <3>2. crossings[j][e] \subseteq {tok}
      BY <2>1, <2>5, <3>1 DEF CrossingInv, ReceiptKnowsCrossing
    <3>3. crossings'[j][e] = {tok}
      BY <1>0, <2>1, <2>5, <3>2
    <3>4. receipt'[j][e].st \in {"started", "applied"} /\ receipt'[j][e].token = tok
      BY <1>0, <2>2, <2>5
    <3>5. RowsAccepted' /\ NothingBeforeAcceptance' /\ ReceiptsHaveRows'
      BY <2>1, <2>3, <3>1 DEF CrossingInv, RowsAccepted, NothingBeforeAcceptance,
         ReceiptsHaveRows
    <3>6. DroppedArePending' /\ DropsAreExclusive'
      BY <2>1, <2>3 DEF CrossingInv, DroppedArePending, DropsAreExclusive, ReceiptLocked
    <3>7. ReceiptKnowsCrossing'
      BY <2>1, <2>3, <3>3, <3>4 DEF CrossingInv, ReceiptKnowsCrossing
    <3>8. EffectCrossedOnce'
      BY <2>3, <3>3 DEF CrossingInv, EffectCrossedOnce
    <3> QED
      BY <3>5, <3>6, <3>7, <3>8 DEF CrossingInv
  <2> QED
    BY <2>4, <2>5
<1> QED
  BY <1>1, <1>2

\* Every step of executeClaim, its effect runner and its settlement.
LEMMA WorkKeepsCrossingInv ==
    ASSUME TInv, CrossingInv, NEW o \in Owner, NEW j \in Job, Work(o, j)
    PROVE  CrossingInv'
<1> DEFINE e == run[o][j].eff
           tok == TokenOf(o, j)
           own == [st |-> "pending", token |-> tok]
           done == [st |-> "applied", token |-> tok]
<1>a. own.st = "pending" /\ done.st = "applied" /\ done.token = tok
  OBVIOUS
<1>1. CASE \/ ExecuteClaim(o, j) \/ OperationReturns(o, j) \/ HandlerReturns(o, j)
           \/ SourceGraceEnds(o, j) \/ SettlementLost(o, j)
  BY <1>1, QuietStep DEF ExecuteClaim, OperationReturns, HandlerReturns, SourceGraceEnds,
     SettlementLost, store
<1>2. CASE BeginEffect(o, j)
  <2>1. CASE receipt' = receipt
    BY <1>2, <2>1, QuietStep DEF BeginEffect
  <2>2. CASE /\ job[j].st # "absent" /\ receipt[j][e].st = "none"
             /\ receipt' = [receipt EXCEPT ![j][e] = own]
    <3>1. e \in Effect => crossings[j][e] = {}
      BY <2>2 DEF CrossingInv, ReceiptKnowsCrossing
    <3>2. ~ReceiptLocked(j, e) /\ UNCHANGED <<job, ledger, drop, crossings>>
      BY <1>2 DEF BeginEffect
    <3> HIDE DEF e, own
    <3> QED
      BY <1>a, <2>2, <3>1, <3>2, ReceiptStep
  <2> QED
    BY <1>2, <2>1, <2>2 DEF BeginEffect, SetReceipt
<1>3. CASE ReadIncumbent(o, j)
  <2>1. CASE receipt' = receipt
    BY <1>3, <2>1, QuietStep DEF ReadIncumbent
  <2>2. CASE receipt[j][e].st = "pending" /\ receipt' = [receipt EXCEPT ![j][e] = own]
    <3>1. e \in Effect => job[j].st # "absent" /\ crossings[j][e] = {}
      BY <2>2 DEF CrossingInv, ReceiptKnowsCrossing, ReceiptsHaveRows, NoReceipt
    <3>2. ~ReceiptLocked(j, e) /\ UNCHANGED <<job, ledger, drop, crossings>>
      BY <1>3 DEF ReadIncumbent
    <3> HIDE DEF e, own
    <3> QED
      BY <1>a, <2>2, <3>1, <3>2, ReceiptStep
  <2> QED
    BY <1>3, <2>1, <2>2 DEF ReadIncumbent, SetReceipt
<1>4. CASE CommitEffectBoundary(o, j)
  BY <1>4, CommitStep
<1>5. ASSUME NEW lag \in Lags, CheckEffect(o, j, lag) \/ BeginEffectFence(o, j, lag)
      PROVE  CrossingInv'
  BY <1>5, QuietStep DEF CheckEffect, BeginEffectFence, store
<1>6. ASSUME NEW lag \in Lags, CrossBoundary(o, j, lag) \/ CommitFence(o, j, lag)
      PROVE  CrossingInv'
  <2>1. UNCHANGED <<job, ledger, drop, crossings>>
    BY <1>6 DEF CrossBoundary, CommitFence
  <2>2. receipt' = receipt \/ AbandonEffect(o, j, lag)
    BY <1>6 DEF CrossBoundary, CommitFence
  <2> QED
    BY <2>1, <2>2, QuietStep, AbandonStep
<1>7. ASSUME NEW lag \in Lags, NEW err \in Errors, HandlerThrows(o, j, err, lag)
      PROVE  CrossingInv'
  <2>1. UNCHANGED <<job, ledger, drop, crossings>>
    BY <1>7 DEF HandlerThrows
  <2>2. receipt' = receipt \/ AbandonEffect(o, j, lag)
    BY <1>7 DEF HandlerThrows
  <2> QED
    BY <2>1, <2>2, QuietStep, AbandonStep
<1>8. ASSUME NEW lag \in Lags, CompleteEffect(o, j, lag) PROVE CrossingInv'
  <2>1. UNCHANGED <<job, ledger, drop, crossings>>
    BY <1>8 DEF CompleteEffect
  <2>2. CASE receipt' = receipt
    BY <2>1, <2>2, QuietStep
  <2>3. CASE /\ receipt' = [receipt EXCEPT ![j][e] = done]
             /\ OwnsClaim(o, j) /\ OwnsReceipt(o, j) /\ ~ReceiptLocked(j, e)
             /\ receipt[j][e].st \in {"pending", "started"}
    <3>1. job[j].st # "absent" /\ receipt[j][e].token = tok
      BY <2>3 DEF OwnsClaim, OwnsReceipt
    <3>2. e \in Effect => crossings[j][e] \subseteq {tok}
      BY <2>3, <3>1 DEF CrossingInv, ReceiptKnowsCrossing
    <3> HIDE DEF e, tok, done
    <3> QED
      BY <1>a, <2>1, <2>3, <3>1, <3>2, ReceiptStep
  <2> QED
    BY <1>8, <2>2, <2>3 DEF CompleteEffect, SetReceipt
<1>9. ASSUME NEW lag \in Lags, SettleClaim(o, j, lag) PROVE CrossingInv'
  BY <1>9, SettleStays
<1> QED
  BY <1>1, <1>2, <1>3, <1>4, <1>5, <1>6, <1>7, <1>8, <1>9 DEF Work

-----------------------------------------------------------------------------
(* The steps of the store's other callers. *)

\* Rows come only with the acceptance of their turn, and cross nothing before.
LEMMA EnqueueStep ==
    ASSUME TInv, CrossingInv, NEW t \in Turn, Enqueue(t)
    PROVE  CrossingInv'
<1>0. UNCHANGED <<receipt, drop, crossings>> /\ ledger' = ledger \cup {t} /\ t \notin ledger
  BY DEF Enqueue
<1>1. ASSUME NEW k \in Job, job[k].st # "absent" PROVE job'[k].st # "absent"
  <2>1. job'[k] = job[k] \/ job'[k] = Released(job[k], "stale_discarded", 0)
    BY <1>1 DEF Enqueue
  <2> QED
    BY <1>1, <2>1 DEF Released, Unleased
<1>2. ASSUME NEW k \in Job, job[k].st = "absent", job'[k].st # "absent" PROVE TurnOf[k] = t
  <2>1. ~SupersededBy(k, t)
    BY <1>2 DEF SupersededBy, Runnable
  <2> QED
    BY <1>2, <2>1 DEF Enqueue
<1>3. /\ RowsAccepted' /\ NothingBeforeAcceptance' /\ EffectCrossedOnce'
      /\ DroppedArePending' /\ DropsAreExclusive'
  BY <1>0, <1>1, <1>2 DEF CrossingInv, RowsAccepted, NothingBeforeAcceptance,
     EffectCrossedOnce, DroppedArePending, DropsAreExclusive
<1>4. ReceiptsHaveRows'
  BY <1>0, <1>1 DEF CrossingInv, ReceiptsHaveRows
<1>5. ReceiptKnowsCrossing'
  <2> SUFFICES ASSUME NEW k \in Job, NEW e \in Effect, job'[k].st # "absent"
               PROVE  IF receipt[k][e].st \in {"started", "applied"}
                      THEN crossings[k][e] \subseteq {receipt[k][e].token}
                      ELSE crossings[k][e] = {}
    BY <1>0 DEF ReceiptKnowsCrossing
  <2>1. CASE job[k].st # "absent"
    BY <2>1 DEF CrossingInv, ReceiptKnowsCrossing
  <2>2. CASE job[k].st = "absent"
    BY <1>0, <1>2, <2>2 DEF CrossingInv, NothingBeforeAcceptance
  <2> QED
    BY <2>1, <2>2
<1> QED
  BY <1>3, <1>4, <1>5 DEF CrossingInv

\* A purge forgets the receipts and keeps the ledger.
LEMMA PurgeStep ==
    ASSUME TInv, CrossingInv, NEW o \in Owner, PurgeTerminal(o)
    PROVE  CrossingInv'
<1>0. /\ receipt \in [Job -> [Effect -> Receipt]] /\ job \in [Job -> JobRow]
      /\ UNCHANGED <<ledger, drop, crossings>>
  BY DEF TInv, TypeOK, PurgeTerminal
<1>1. PICK j \in Job :
         /\ \A e \in Effect : ~ReceiptLocked(j, e)
         /\ job' = [job EXCEPT ![j] = AbsentRow]
         /\ receipt' = [receipt EXCEPT ![j] = [e \in Effect |-> NoReceipt]]
  BY DEF PurgeTerminal
<1>2. job'[j].st = "absent" /\ \A e \in Effect : receipt'[j][e] = NoReceipt
  BY <1>0, <1>1 DEF AbsentRow
<1>3. \A k \in Job : k # j => job'[k] = job[k] /\ receipt'[k] = receipt[k]
  BY <1>0, <1>1
<1>4. RowsAccepted' /\ NothingBeforeAcceptance' /\ ReceiptsHaveRows' /\ EffectCrossedOnce'
  BY <1>0, <1>2, <1>3 DEF CrossingInv, RowsAccepted, NothingBeforeAcceptance,
     ReceiptsHaveRows, EffectCrossedOnce
<1>5. DroppedArePending' /\ DropsAreExclusive'
  <2>1. \A p \in Owner, e \in Effect : <<j, e>> \notin drop[p]
    BY <1>1 DEF ReceiptLocked
  <2> QED
    BY <1>0, <1>3, <2>1 DEF CrossingInv, DroppedArePending, DropsAreExclusive
<1>6. ReceiptKnowsCrossing'
  BY <1>0, <1>2, <1>3 DEF CrossingInv, ReceiptKnowsCrossing
<1> QED
  BY <1>4, <1>5, <1>6 DEF CrossingInv

\* The shutdown sweep takes back only what crossed nothing.
LEMMA RequeueStep ==
    ASSUME TInv, CrossingInv, NEW o \in Owner, RequeuePreBoundaryClaims(o)
    PROVE  CrossingInv'
<1>0. UNCHANGED <<ledger, drop, crossings>>
  BY DEF RequeuePreBoundaryClaims
<1>1. ASSUME NEW j \in Job
      PROVE  \/ job'[j] = job[j] /\ receipt'[j] = receipt[j]
             \/ /\ job[j].st # "absent" /\ job'[j].st # "absent" /\ PreBoundary(j)
                /\ \A e \in Effect : ~ReceiptLocked(j, e) /\ receipt'[j][e] = NoReceipt
  BY DEF RequeuePreBoundaryClaims, Released, Unleased
<1>2. RowsAccepted' /\ NothingBeforeAcceptance' /\ ReceiptsHaveRows' /\ EffectCrossedOnce'
  BY <1>0, <1>1 DEF CrossingInv, RowsAccepted, NothingBeforeAcceptance,
     ReceiptsHaveRows, EffectCrossedOnce
<1>3. DroppedArePending' /\ DropsAreExclusive'
  BY <1>0, <1>1 DEF CrossingInv, DroppedArePending, DropsAreExclusive, ReceiptLocked
<1>4. ReceiptKnowsCrossing'
  BY <1>0, <1>1 DEF CrossingInv, ReceiptKnowsCrossing, PreBoundary, NoReceipt
<1> QED
  BY <1>2, <1>3, <1>4 DEF CrossingInv

\* recoverExpired deletes pending receipts only, and never a row.
LEMMA RecoverStep ==
    ASSUME TInv, CrossingInv, NEW o \in Owner, RecoverExpired(o)
    PROVE  CrossingInv'
<1>0. UNCHANGED <<ledger, crossings>> /\ drop' = [drop EXCEPT ![o] = {}]
      /\ drop \in [Owner -> SUBSET (Job \X Effect)]
  BY DEF RecoverExpired, EndSweep, TInv, TypeOK
<1>1. ASSUME NEW j \in Job PROVE job'[j].st = "absent" <=> job[j].st = "absent"
  <2>1. \/ job'[j] = job[j]
        \/ job[j].st # "absent" /\ job'[j] = RecoveredRow(j, sweep[o].class[j])
    BY DEF RecoverExpired
  <2> QED
    BY <2>1 DEF RecoveredRow, Unleased
<1>2. ASSUME NEW j \in Job, NEW e \in Effect
      PROVE  \/ receipt'[j][e] = receipt[j][e] /\ <<j, e>> \notin drop[o]
             \/ /\ <<j, e>> \in drop[o] /\ receipt[j][e].st = "pending"
                /\ receipt'[j][e] = NoReceipt
  BY DEF RecoverExpired, CrossingInv, DroppedArePending
<1>3. RowsAccepted' /\ NothingBeforeAcceptance' /\ EffectCrossedOnce'
  BY <1>0, <1>1 DEF CrossingInv, RowsAccepted, NothingBeforeAcceptance, EffectCrossedOnce
<1>4. ReceiptsHaveRows'
  BY <1>1, <1>2 DEF CrossingInv, ReceiptsHaveRows
<1>5. ReceiptKnowsCrossing'
  BY <1>0, <1>1, <1>2 DEF CrossingInv, ReceiptKnowsCrossing, NoReceipt
<1>6. DroppedArePending' /\ DropsAreExclusive'
  BY <1>0, <1>2 DEF CrossingInv, DroppedArePending, DropsAreExclusive
<1> QED
  BY <1>3, <1>4, <1>5, <1>6 DEF CrossingInv

\* The read of recoverExpired waits for every receipt that another one has
\* deleted, and marks pending receipts only.
LEMMA BeginPassStep ==
    ASSUME TInv, CrossingInv, NEW o \in Owner, NEW lag \in Lags, BeginPass(o, lag)
    PROVE  CrossingInv'
<1>0. /\ UNCHANGED <<receipt, ledger, crossings>>
      /\ drop \in [Owner -> SUBSET (Job \X Effect)] /\ job \in [Job -> JobRow]
  BY DEF BeginPass, TInv, TypeOK
<1>1. \A j \in Job : job'[j].st = job[j].st
  BY <1>0 DEF BeginPass, JobsRenewed, JobRow
<1> DEFINE Gone == {j \in Job : job[j].st = "running" /\ Expired(j, lag) /\ ~Renewed(o, j)}
           P == {p \in Gone \X Effect : receipt[p[1]][p[2]].st = "pending"}
<1>a. drop' = [drop EXCEPT ![o] = P] /\ \A p \in P : ~ReceiptLocked(p[1], p[2])
  BY Zenon DEF BeginPass
<1>b. \A j \in Job, e \in Effect : <<j, e>> \in P => receipt[j][e].st = "pending"
  OBVIOUS
<1> HIDE DEF P
<1>2. \A j \in Job, e \in Effect : <<j, e>> \in P =>
         receipt[j][e].st = "pending" /\ ~ReceiptLocked(j, e)
  <2> SUFFICES ASSUME NEW j \in Job, NEW e \in Effect, <<j, e>> \in P
               PROVE  ~ReceiptLocked(j, e)
    BY <1>b
  <2>1. ~ReceiptLocked(<<j, e>>[1], <<j, e>>[2])
    BY <1>a
  <2> QED
    BY <2>1
<1>3. RowsAccepted' /\ NothingBeforeAcceptance' /\ ReceiptsHaveRows' /\ EffectCrossedOnce'
  BY <1>0, <1>1 DEF CrossingInv, RowsAccepted, NothingBeforeAcceptance, ReceiptsHaveRows,
     EffectCrossedOnce
<1>4. ReceiptKnowsCrossing'
  BY <1>0, <1>1 DEF CrossingInv, ReceiptKnowsCrossing
<1>5. DroppedArePending' /\ DropsAreExclusive'
  BY <1>0, <1>a, <1>2 DEF CrossingInv, DroppedArePending, DropsAreExclusive, ReceiptLocked
<1> QED
  BY <1>3, <1>4, <1>5 DEF CrossingInv

\* Every step of a supervisor's life, its heartbeats and its claim passes.
LEMMA SuperviseKeepsCrossingInv ==
    ASSUME TInv, CrossingInv, NEW o \in Owner, Supervise(o)
    PROVE  CrossingInv'
<1>0. job \in [Job -> JobRow] /\ drop \in [Owner -> SUBSET (Job \X Effect)]
  BY DEF TInv, TypeOK
<1>1. CASE Start(o) \/ BeginStop(o) \/ HeartbeatFails(o) \/ ReadExpired(o) \/ EndPass(o)
  BY <1>1, QuietStep DEF Start, BeginStop, HeartbeatFails, ReadExpired, EndPass, store
<1>2. CASE Die(o) \/ RecoverExpiredFails(o)
  <2>1. UNCHANGED <<job, receipt, ledger, crossings>> /\ drop' = [drop EXCEPT ![o] = {}]
    BY <1>2 DEF Die, RecoverExpiredFails, EndSweep, store
  <2> QED
    BY <1>0, <2>1, QuietStep
<1>3. ASSUME NEW lag \in Lags, Heartbeat(o, lag) PROVE CrossingInv'
  <2>1. \A j \in Job : job'[j].st = job[j].st
    BY <1>0, <1>3 DEF Heartbeat, JobsRenewed, JobRow
  <2> QED
    BY <1>3, <2>1, QuietStep DEF Heartbeat
<1>4. ASSUME NEW j \in Job, NEW lag \in Lags, ClaimNext(o, j, lag) PROVE CrossingInv'
  <2>1. job[j].st # "absent"
    BY <1>4 DEF ClaimNext, Claimable, Runnable
  <2>2. job' = [job EXCEPT ![j] = LeasedRow(o, j, LeaseTicks - lag)]
    BY <1>4 DEF ClaimNext
  <2>3. LeasedRow(o, j, LeaseTicks - lag).st = "running"
    BY DEF LeasedRow
  <2>4. \A k \in Job : job'[k].st = "absent" <=> job[k].st = "absent"
    BY <1>0, <2>1, <2>2, <2>3
  <2> QED
    BY <1>4, <2>4, QuietStep DEF ClaimNext
<1> QED
  BY <1>1, <1>2, <1>3, <1>4, RequeueStep, PurgeStep, RecoverStep, BeginPassStep DEF Supervise

\* Every step of the lane keeps the receipts' memory of the crossings.
LEMMA NextCrossingInv == TInv /\ CrossingInv /\ [Next]_vars => CrossingInv'
<1> SUFFICES ASSUME TInv, CrossingInv, [Next]_vars PROVE CrossingInv'
  OBVIOUS
<1>0. job \in [Job -> JobRow]
  BY DEF TInv, TypeOK
<1>1. CASE UNCHANGED vars
  BY <1>1, QuietStep DEF vars
<1>2. ASSUME NEW j \in Job, NEW lag \in Lags, Retire(j, lag) PROVE CrossingInv'
  <2>1. job[j].st # "absent"
    BY <1>2 DEF Retire, Runnable
  <2>2. Released(job[j], "stale_discarded", 0).st = "stale_discarded"
    BY DEF Released, Unleased
  <2>3. \A k \in Job : job'[k].st = "absent" <=> job[k].st = "absent"
    BY <1>0, <1>2, <2>1, <2>2 DEF Retire
  <2> QED
    BY <1>2, <2>3, QuietStep DEF Retire
<1>3. CASE Foreground
  <2>1. UNCHANGED <<job, receipt, ledger, drop, crossings>>
    BY <1>3 DEF Foreground, BeginForeground, RenewForeground, RenewForegroundFails,
       InsertForeground, DeleteForeground, InsertForegroundFails, EndForeground,
       DeleteForegroundFails, store
  <2> QED
    BY <2>1, QuietStep
<1>4. CASE Tick
  <2>1. \A j \in Job : job'[j].st = job[j].st
    BY <1>0, <1>4 DEF Tick, JobRow
  <2> QED
    BY <1>4, <2>1, QuietStep DEF Tick
<1> QED
  BY <1>1, <1>2, <1>3, <1>4, EnqueueStep, SuperviseKeepsCrossingInv, WorkKeepsCrossingInv
  DEF Next, Store

-----------------------------------------------------------------------------
LEMMA InitCrossing == Init => CrossingInv
BY DEF Init, AbsentRow, CrossingInv, RowsAccepted, NothingBeforeAcceptance, ReceiptsHaveRows,
   DroppedArePending, DropsAreExclusive, ReceiptKnowsCrossing, EffectCrossedOnce

\* At most one claim ever crosses the write boundary of an effect: no sink is
\* written by two executions of a job, over any number of supervisors, crashes,
\* lease expiries, retries, shutdown requeues, purges and replayed enqueues.
THEOREM AtMostOnce == Spec => []EffectCrossedOnce
<1>1. Init => EffectInv
  BY InitTInv, InitCrossing DEF EffectInv
<1>2. EffectInv /\ [Next]_vars => EffectInv'
  BY NextTInv, NextCrossingInv DEF EffectInv
<1>3. EffectInv => EffectCrossedOnce
  BY DEF EffectInv, CrossingInv
<1> QED
  BY <1>1, <1>2, <1>3, PTL DEF Spec

-----------------------------------------------------------------------------
(* One running claim per session. *)

\* claimNext alone makes a row running.
LEMMA OnlyClaimNextRuns ==
    ASSUME TInv, [Next]_vars,
           ~ \E o \in Owner, j \in Job, lag \in Lags : ClaimNext(o, j, lag)
    PROVE  \A j \in Job : job'[j].st = "running" => job[j].st = "running"
<1> DEFINE Goal == \A j \in Job : job'[j].st = "running" => job[j].st = "running"
<1>0. job \in [Job -> JobRow]
  BY DEF TInv, TypeOK
<1>a. \A j \in Job : Released(job[j], "stale_discarded", 0).st = "stale_discarded"
  BY DEF Released, Unleased
<1>1. CASE UNCHANGED vars
  BY <1>1 DEF vars
<1>2. CASE Store
  <2>1. ASSUME NEW t \in Turn, Enqueue(t) PROVE Goal
    <3>1. \A j \in Job : EnqueuedRow(j).st \in {"stale_discarded", "queued"}
      BY DEF EnqueuedRow, AbsentRow
    <3>2. \A j \in Job : \/ job'[j] = EnqueuedRow(j) \/ job'[j] = job[j]
                         \/ job'[j] = Released(job[j], "stale_discarded", 0)
      BY <2>1 DEF Enqueue
    <3> QED
      BY <3>1, <3>2, <1>a
  <2>2. ASSUME NEW j \in Job, NEW lag \in Lags, Retire(j, lag) PROVE Goal
    BY <2>2, <1>0, <1>a DEF Retire
  <2> QED
    BY <1>2, <2>1, <2>2 DEF Store
<1>3. CASE Foreground
  <2>1. job' = job
    BY <1>3 DEF Foreground, BeginForeground, RenewForeground, RenewForegroundFails,
       InsertForeground, DeleteForeground, InsertForegroundFails, EndForeground,
       DeleteForegroundFails, store
  <2> QED
    BY <2>1
<1>4. CASE Tick
  BY <1>0, <1>4 DEF Tick, JobRow
<1>5. ASSUME NEW o \in Owner, Supervise(o) PROVE Goal
  <2>1. CASE Start(o) \/ BeginStop(o) \/ Die(o) \/ HeartbeatFails(o) \/ RecoverExpiredFails(o)
             \/ ReadExpired(o) \/ EndPass(o)
    BY <2>1 DEF ReadExpired, Start, BeginStop, Die, HeartbeatFails, RecoverExpiredFails, EndPass, store
  <2>2. CASE RequeuePreBoundaryClaims(o)
    BY <2>2 DEF RequeuePreBoundaryClaims, Released, Unleased
  <2>3. CASE PurgeTerminal(o)
    BY <2>3, <1>0 DEF PurgeTerminal, AbsentRow
  <2>4. CASE RecoverExpired(o)
    BY <2>4 DEF RecoverExpired, RecoveredRow, Unleased
  <2>5. ASSUME NEW lag \in Lags, Heartbeat(o, lag) \/ BeginPass(o, lag) PROVE Goal
    BY <2>5, <1>0 DEF Heartbeat, BeginPass, JobsRenewed, JobRow
  <2> QED
    BY <1>5, <2>1, <2>2, <2>3, <2>4, <2>5 DEF Supervise
<1>6. ASSUME NEW o \in Owner, NEW j \in Job, Work(o, j) PROVE Goal
  <2>1. CASE \E lag \in Lags : SettleClaim(o, j, lag)
    BY <2>1, <1>0 DEF SettleClaim, OwnsClaim
  <2>2. CASE ~ \E lag \in Lags : SettleClaim(o, j, lag)
    <3>1. job' = job
      BY <1>6, <2>2 DEF Work, ExecuteClaim, BeginEffect, ReadIncumbent, CommitEffectBoundary,
         OperationReturns, HandlerReturns, SourceGraceEnds, SettlementLost, CheckEffect,
         BeginEffectFence, CrossBoundary, CommitFence, CompleteEffect, HandlerThrows, store
    <3> QED
      BY <3>1
  <2> QED
    BY <2>1, <2>2
<1> QED
  BY <1>1, <1>2, <1>3, <1>4, <1>5, <1>6 DEF Next

\* One claim of a session is running at a time (claimNext: "one running job per
\* session is a durable invariant").
OneRunningPerSession ==
    \A j, k \in Job : (job[j].st = "running" /\ job[k].st = "running"
                       /\ SessionOf[j] = SessionOf[k]) => j = k

\* At most one claim of a session is running, whatever the number of
\* supervisors, crashes and recoveries (the conditions of claimNext).
THEOREM SessionsAreSerial == Spec => []OneRunningPerSession
<1> DEFINE Inv == TInv /\ OneRunningPerSession
<1>1. Init => Inv
  BY InitTInv DEF Init, AbsentRow, OneRunningPerSession
<1>2. Inv /\ [Next]_vars => Inv'
  <2> SUFFICES ASSUME TInv, OneRunningPerSession, [Next]_vars PROVE OneRunningPerSession'
    BY NextTInv
  <2>1. ASSUME NEW o \in Owner, NEW j \in Job, NEW lag \in Lags, ClaimNext(o, j, lag)
        PROVE  OneRunningPerSession'
    <3>1. \A k \in Job : k # j => job'[k] = job[k]
      BY <2>1 DEF ClaimNext, TInv, TypeOK
    <3>2. \A k \in Job : SessionOf[k] = SessionOf[j] => job[k].st # "running"
      BY <2>1 DEF ClaimNext, Claimable
    <3> QED
      BY <3>1, <3>2 DEF OneRunningPerSession
  <2>2. CASE ~ \E o \in Owner, j \in Job, lag \in Lags : ClaimNext(o, j, lag)
    BY <2>2, OnlyClaimNextRuns DEF OneRunningPerSession
  <2> QED
    BY <2>1, <2>2
<1> QED
  BY <1>1, <1>2, PTL DEF Spec

-----------------------------------------------------------------------------
(* Foreground before compaction. *)

\* A compaction between the fence and the write of commitEffectBoundary has its
\* session to itself: its lock keeps every foreground lease out.
PromotesAlone ==
    \A o \in Owner, j \in Job :
        run[o][j].pc = "promoting" /\ KindOf[j] = "auto_compaction"
          => ~ForegroundLive(SessionOf[j], 0)

\* A session gets a live lease by an insert or a renewal, and both wait for the
\* session's lock.
LEMMA LockKeepsForegroundOut ==
    ASSUME TInv, [Next]_vars, NEW s \in Session, SessionLocked(s), ~ForegroundLive(s, 0)
    PROVE  ~ForegroundLive(s, 0)'
<1> DEFINE Goal == ~ForegroundLive(s, 0)'
<1>0. fg \in [Lease -> ForegroundLease]
  BY DEF TInv, TypeOK
<1>a. ASSUME \A l \in Lease : LeaseSession[l] = s /\ fg'[l].row /\ fg'[l].left > 0
                                => fg[l].row /\ fg[l].left > 0
      PROVE  Goal
  <2> SUFFICES ASSUME NEW l \in Lease, LeaseSession[l] = s, fg'[l].row, fg'[l].left + 0 > 0
               PROVE  FALSE
    BY DEF ForegroundLive
  <2>1. fg[l].left \in Int /\ fg'[l].left \in Int
    BY <1>0, NextTInv DEF TInv, TypeOK, ForegroundLease
  <2> QED
    BY <1>a, <2>1 DEF ForegroundLive
<1>1. CASE UNCHANGED fg
  BY <1>1 DEF ForegroundLive
<1>2. ASSUME NEW l \in Lease, NEW r, fg' = [fg EXCEPT ![l] = r],
             r.row => fg[l].row, r.left = fg[l].left
      PROVE  Goal
  BY <1>0, <1>2, <1>a
<1>3. ASSUME NEW o \in Owner, NEW l \in Lease, BeginForeground(o, l) PROVE Goal
  <2>1. [UnusedLease EXCEPT !.st = "starting", !.owner = o].row = FALSE
    BY DEF UnusedLease
  <2> QED
    BY <1>0, <1>3, <1>a, <2>1 DEF BeginForeground, SetLease
<1>4. ASSUME NEW l \in Lease, NEW lag \in Lags, InsertForeground(l, lag) PROVE Goal
  <2>1. LeaseSession[l] # s
    BY <1>4 DEF InsertForeground
  <2> QED
    BY <1>0, <1>4, <1>a, <2>1 DEF InsertForeground, SetLease
<1>5. ASSUME NEW l \in Lease,
             InsertForegroundFails(l) \/ EndForeground(l) \/ DeleteForegroundFails(l)
      PROVE  Goal
  <2>1. PICK st \in {"gone", "ending"} : fg' = [fg EXCEPT ![l] = [fg[l] EXCEPT !.st = st]]
    BY <1>5 DEF InsertForegroundFails, EndForeground, DeleteForegroundFails, SetLease
  <2>2. /\ [fg[l] EXCEPT !.st = st].row = fg[l].row
        /\ [fg[l] EXCEPT !.st = st].left = fg[l].left
    BY <1>0 DEF ForegroundLease
  <2> QED
    BY <1>2, <2>1, <2>2
<1>6. ASSUME NEW l \in Lease, NEW lag \in Lags, DeleteForeground(l, lag) PROVE Goal
  <2>1. \A k \in Lease : fg'[k] = fg[k] \/ fg'[k].row = FALSE
    BY <1>0, <1>6 DEF DeleteForeground, ForegroundLease
  <2> QED
    BY <1>a, <2>1
<1>7. ASSUME NEW o \in Owner, NEW lag \in Lags, RenewForeground(o, lag) PROVE Goal
  <2>1. \A l \in Lease : LeaseSession[l] = s => fg'[l] = fg[l]
    BY <1>7 DEF RenewForeground
  <2> QED
    BY <1>a, <2>1
<1>8. ASSUME NEW o \in Owner, RenewForegroundFails(o) PROVE Goal
  <2>1. \A l \in Lease : fg'[l].row = fg[l].row /\ fg'[l].left = fg[l].left
    BY <1>0, <1>8 DEF RenewForegroundFails, ForegroundLease
  <2> QED
    BY <1>a, <2>1
<1>9. CASE Tick
  <2>1. ASSUME NEW l \in Lease, fg'[l].row, fg'[l].left > 0
        PROVE  fg[l].row /\ fg[l].left > 0
    <3>1. fg[l] \in ForegroundLease /\ MaxLag \in Nat
      BY <1>0, BoundsAssumption
    <3>2. CASE ~fg[l].row
      BY <1>9, <2>1, <3>2 DEF Tick
    <3>3. CASE fg[l].row
      <4>1. fg'[l] = [fg[l] EXCEPT !.left = Down(fg[l].left)]
        BY <1>9, <3>3 DEF Tick
      <4>2. fg'[l].left = Down(fg[l].left) /\ fg[l].left \in Int
        BY <3>1, <4>1 DEF ForegroundLease
      <4> QED
        BY <2>1, <3>1, <3>3, <4>2 DEF Down
    <3> QED
      BY <3>2, <3>3
  <2> QED
    BY <1>a, <2>1
<1>10. ASSUME NEW o \in Owner, Supervise(o) PROVE Goal
  <2>1. CASE Die(o)
    <3>1. \A l \in Lease : fg'[l].row = fg[l].row /\ fg'[l].left = fg[l].left
      BY <1>0, <2>1 DEF Die, ForegroundLease
    <3> QED
      BY <1>a, <3>1
  <2>2. ASSUME NEW j \in Job, NEW lag \in Lags, ClaimNext(o, j, lag) PROVE Goal
    <3>1. \A l \in Lease : fg'[l] = fg[l] \/ fg'[l].row = FALSE
      BY <1>0, <2>2 DEF ClaimNext, ForegroundLease
    <3> QED
      BY <1>a, <3>1
  <2>3. CASE /\ ~Die(o)
             /\ ~ \E j \in Job, lag \in Lags : ClaimNext(o, j, lag)
    <3>1. fg' = fg
      BY <1>10, <2>3 DEF Supervise, Start, BeginStop, RequeuePreBoundaryClaims,
         PurgeTerminal, HeartbeatFails, ReadExpired, RecoverExpired, RecoverExpiredFails, EndPass, Heartbeat,
         BeginPass
    <3> QED
      BY <1>1, <3>1
  <2> QED
    BY <2>1, <2>2, <2>3
<1>11. ASSUME NEW o \in Owner, NEW j \in Job, Work(o, j) PROVE Goal
  <2>1. fg' = fg
    BY <1>11 DEF Work, ExecuteClaim, BeginEffect, ReadIncumbent, CommitEffectBoundary,
       OperationReturns, HandlerReturns, SourceGraceEnds, SettlementLost, CheckEffect,
       BeginEffectFence, CrossBoundary, CommitFence, CompleteEffect, HandlerThrows, SettleClaim
  <2> QED
    BY <1>1, <2>1
<1>12. CASE Store
  BY <1>1, <1>12 DEF Store, Enqueue, Retire
<1>13. CASE UNCHANGED vars
  BY <1>1, <1>13 DEF vars
<1>14. CASE Foreground
  BY <1>3, <1>4, <1>5, <1>6, <1>7, <1>8, <1>14 DEF Foreground
<1> QED
  BY <1>9, <1>10, <1>11, <1>12, <1>13, <1>14 DEF Next

\* Only the fence of commitEffectBoundary brings an execution to promoting.
LEMMA OnlyFencePromotes ==
    ASSUME TInv, [Next]_vars, NEW o \in Owner, NEW j \in Job,
           run'[o][j].pc = "promoting", run[o][j].pc # "promoting"
    PROVE  \E lag \in Lags : CommitFence(o, j, lag)
<1>0. run \in [Owner -> [Job -> Run]]
  BY DEF TInv, TypeOK
<1>1. CASE UNCHANGED run
  BY <1>1
<1>2. ASSUME NEW q \in Owner, Supervise(q) PROVE FALSE
  <2>1. CASE Die(q)
    BY <1>0, <2>1 DEF Die, Idle
  <2>2. CASE BeginStop(q) \/ HeartbeatFails(q)
    <3>1. \/ run'[o][j] = run[o][j]
          \/ run'[o][j] = [run[o][j] EXCEPT !.fence = "lost"]
          \/ run'[o][j] = [run[o][j] EXCEPT !.fence = "stopped"]
      BY <1>0, <2>2 DEF BeginStop, HeartbeatFails
    <3> QED
      BY <1>0, <3>1 DEF Run
  <2>3. ASSUME NEW lag \in Lags, Heartbeat(q, lag) \/ BeginPass(q, lag) PROVE FALSE
    <3>0. run' = RunsFenced(q)
      BY <2>3 DEF Heartbeat, BeginPass
    <3>1. \/ run'[o][j] = run[o][j]
          \/ run'[o][j] = [run[o][j] EXCEPT !.fence = "lost"]
      BY <1>0, <3>0 DEF RunsFenced
    <3> QED
      BY <1>0, <3>1 DEF Run
  <2>4. ASSUME NEW k \in Job, NEW lag \in Lags, ClaimNext(q, k, lag) PROVE FALSE
    <3>1. [Idle EXCEPT !.pc = "claimed", !.rev = job[k].rev + 1].pc = "claimed"
      BY DEF Idle
    <3>2. run'[o][j] = run[o][j]
          \/ run'[o][j] = [Idle EXCEPT !.pc = "claimed", !.rev = job[k].rev + 1]
      BY <1>0, <2>4 DEF ClaimNext, SetRun
    <3> QED
      BY <3>1, <3>2
  <2>5. CASE \/ Start(q) \/ ReadExpired(q) \/ RequeuePreBoundaryClaims(q) \/ PurgeTerminal(q)
             \/ RecoverExpired(q) \/ RecoverExpiredFails(q) \/ EndPass(q)
    BY <1>1, <2>5 DEF Start, ReadExpired, RequeuePreBoundaryClaims, PurgeTerminal,
       RecoverExpired, RecoverExpiredFails, EndPass
  <2> QED
    BY <1>2, <2>1, <2>2, <2>3, <2>4, <2>5 DEF Supervise
<1>3. ASSUME NEW q \in Owner, NEW k \in Job, Work(q, k)
      PROVE  \E lag \in Lags : CommitFence(o, j, lag)
  <2>1. ASSUME NEW r, SetRun(q, k, r), r.pc # "promoting" PROVE FALSE
    BY <1>0, <2>1 DEF SetRun
  <2>2. ASSUME NEW pc, Moves(q, k, pc), pc # "promoting" PROVE FALSE
    <3>1. [run[q][k] EXCEPT !.pc = pc].pc = pc
      BY <1>0 DEF Run
    <3> QED
      BY <2>1, <2>2, <3>1 DEF Moves
  <2>3. ASSUME NEW err, Raises(q, k, err) PROVE FALSE
    <3>1. [run[q][k] EXCEPT !.pc = "settle", !.err = err].pc = "settle"
      BY <1>0 DEF Run
    <3> QED
      BY <2>1, <2>3, <3>1 DEF Raises
  <2>4. ASSUME Leaves(q, k) PROVE FALSE
    BY <2>1, <2>4 DEF Leaves, Idle
  <2>5. ASSUME NEW n, SetRun(q, k, [run[q][k] EXCEPT !.pc = "ready", !.eff = n]) PROVE FALSE
    <3>1. [run[q][k] EXCEPT !.pc = "ready", !.eff = n].pc = "ready"
      BY <1>0 DEF Run
    <3> QED
      BY <2>1, <2>5, <3>1
  <2>6. CASE \E lag \in Lags : CommitFence(q, k, lag)
    <3>1. PICK lag \in Lags : CommitFence(q, k, lag)
      BY <2>6
    <3>2. Moves(q, k, "promoting")
      BY <2>3, <2>4, <3>1 DEF CommitFence
    <3>3. q = o /\ k = j
      BY <1>0, <3>2 DEF Moves, SetRun
    <3> QED
      BY <3>1, <3>3
  <2>7. CASE ExecuteClaim(q, k) \/ OperationReturns(q, k) \/ HandlerReturns(q, k)
             \/ SourceGraceEnds(q, k) \/ SettlementLost(q, k) \/ CommitEffectBoundary(q, k)
    BY <2>2, <2>3, <2>4, <2>7 DEF ExecuteClaim, OperationReturns, HandlerReturns,
       SourceGraceEnds, SettlementLost, CommitEffectBoundary
  <2>8. CASE BeginEffect(q, k) \/ ReadIncumbent(q, k)
    BY <2>2, <2>3, <2>5, <2>8 DEF BeginEffect, ReadIncumbent
  <2>9. ASSUME NEW lag \in Lags,
               \/ CheckEffect(q, k, lag) \/ BeginEffectFence(q, k, lag)
               \/ CrossBoundary(q, k, lag) \/ SettleClaim(q, k, lag)
        PROVE  FALSE
    BY <2>2, <2>3, <2>4, <2>9 DEF CheckEffect, BeginEffectFence, CrossBoundary, SettleClaim
  <2>10. ASSUME NEW lag \in Lags, CompleteEffect(q, k, lag) PROVE FALSE
    <3>1. Leaves(q, k) \/ Raises(q, k, "other")
          \/ \E n : SetRun(q, k, [run[q][k] EXCEPT !.pc = "ready", !.eff = n])
      BY <2>10 DEF CompleteEffect
    <3> QED
      BY <2>3, <2>4, <2>5, <3>1
  <2>11. ASSUME NEW lag \in Lags, NEW err \in Errors, HandlerThrows(q, k, err, lag) PROVE FALSE
    BY <2>3, <2>11 DEF HandlerThrows
  <2> QED
    BY <1>3, <2>6, <2>7, <2>8, <2>9, <2>10, <2>11 DEF Work
<1>4. CASE UNCHANGED vars \/ Tick \/ Store
  BY <1>1, <1>4 DEF vars, Tick, Store, Enqueue, Retire
<1>5. CASE Foreground
  BY <1>1, <1>5 DEF Foreground, BeginForeground, RenewForeground, RenewForegroundFails,
     InsertForeground, DeleteForeground, InsertForegroundFails, EndForeground,
     DeleteForegroundFails
<1> QED
  BY <1>2, <1>3, <1>4, <1>5 DEF Next

\* Only the write of commitEffectBoundary crosses, and only for its own job.
LEMMA OnlyPromotingCrosses ==
    ASSUME TInv, [Next]_vars, NEW j \in Job, NEW e \in Effect,
           crossings'[j][e] # crossings[j][e]
    PROVE  \E o \in Owner : run[o][j].pc = "promoting"
<1>0. crossings \in [Job -> [Effect -> SUBSET Token]]
  BY DEF TInv, TypeOK
<1>1. ASSUME NEW o \in Owner, NEW k \in Job, Work(o, k)
      PROVE  \E q \in Owner : run[q][j].pc = "promoting"
  <2>1. CASE CommitEffectBoundary(o, k)
    <3>1. crossings' = crossings
          \/ crossings' = [crossings EXCEPT ![k][run[o][k].eff] = @ \cup {TokenOf(o, k)}]
      BY <2>1 DEF CommitEffectBoundary
    <3>2. k = j
      BY <1>0, <3>1
    <3> QED
      BY <2>1, <3>2 DEF CommitEffectBoundary
  <2>2. CASE ~CommitEffectBoundary(o, k)
    <3>1. crossings' = crossings
      BY <1>1, <2>2 DEF Work, ExecuteClaim, BeginEffect, ReadIncumbent, OperationReturns,
         HandlerReturns, SourceGraceEnds, SettlementLost, CheckEffect, BeginEffectFence,
         CrossBoundary, CommitFence, CompleteEffect, HandlerThrows, SettleClaim
    <3> QED
      BY <3>1
  <2> QED
    BY <2>1, <2>2
<1>2. ASSUME NEW o \in Owner, Supervise(o) PROVE FALSE
  BY <1>2 DEF Supervise, Start, BeginStop, Die, RequeuePreBoundaryClaims, PurgeTerminal,
     HeartbeatFails, ReadExpired, RecoverExpired, RecoverExpiredFails, EndPass, Heartbeat, BeginPass,
     ClaimNext
<1>3. CASE UNCHANGED vars \/ Tick \/ Store
  BY <1>3 DEF vars, Tick, Store, Enqueue, Retire
<1>4. CASE Foreground
  BY <1>4 DEF Foreground, BeginForeground, RenewForeground, RenewForegroundFails,
     InsertForeground, DeleteForeground, InsertForegroundFails, EndForeground,
     DeleteForegroundFails
<1> QED
  BY <1>1, <1>2, <1>3, <1>4 DEF Next

\* A compaction never crosses its write boundary while a foreground turn of its
\* session holds an unexpired lease, whatever the interleaving of beginForeground
\* and commitEffectBoundary and however late their clocks are.
THEOREM ForegroundFirst == Spec => CompactionYields
<1> DEFINE Inv == TInv /\ PromotesAlone
<1>1. Init => Inv
  BY InitTInv DEF Init, Idle, PromotesAlone
<1>2. Inv /\ [Next]_vars => Inv'
  <2> SUFFICES ASSUME TInv, PromotesAlone, [Next]_vars,
                      NEW o \in Owner, NEW j \in Job,
                      run'[o][j].pc = "promoting", KindOf[j] = "auto_compaction"
               PROVE  ~ForegroundLive(SessionOf[j], 0)'
    BY NextTInv DEF PromotesAlone
  <2>0. SessionOf[j] \in Session
    BY JobsAssumption
  <2>1. CASE run[o][j].pc = "promoting"
    <3>1. SessionLocked(SessionOf[j]) /\ ~ForegroundLive(SessionOf[j], 0)
      BY <2>1 DEF SessionLocked, PromotesAlone
    <3> DEFINE s == SessionOf[j]
    <3>2. ~ForegroundLive(s, 0)'
      <4> HIDE DEF s
      <4> QED
        BY <2>0, <3>1, LockKeepsForegroundOut DEF s
    <3> QED
      BY <3>2
  <2>2. CASE run[o][j].pc # "promoting"
    <3>1. PICK lag \in Lags : CommitFence(o, j, lag)
      BY <2>2, OnlyFencePromotes
    <3>2. fg' = fg
      BY <3>1 DEF CommitFence
    <3>3. Disposition(o, j, lag) = "owned"
      <4>1. ~Leaves(o, j)
        BY <2>2 DEF Leaves, SetRun, Idle, TInv, TypeOK
      <4>2. ~Raises(o, j, "preempted")
        <5> DEFINE r == [run[o][j] EXCEPT !.pc = "settle", !.err = "preempted"]
        <5>1. r.pc = "settle"
          BY DEF TInv, TypeOK, Run
        <5> HIDE DEF r
        <5>2. ~SetRun(o, j, r)
          BY <5>1 DEF SetRun, TInv, TypeOK
        <5> QED
          BY <5>2 DEF Raises, r
      <4> QED
        BY <3>1, <4>1, <4>2 DEF CommitFence
    <3>4. ~ForegroundLive(SessionOf[j], lag)
      BY <3>3 DEF Disposition
    <3>5. \A l \in Lease : fg[l].left \in Int
      BY DEF TInv, TypeOK, ForegroundLease
    <3>6. lag \in Nat
      BY BoundsAssumption DEF Lags
    <3> QED
      BY <3>2, <3>4, <3>5, <3>6 DEF ForegroundLive
  <2> QED
    BY <2>1, <2>2
<1>3. Inv /\ [Next]_vars =>
        [\A j \in Job : KindOf[j] = "auto_compaction" /\ ForegroundLive(SessionOf[j], 0)
           => \A e \in Effect : crossings'[j][e] = crossings[j][e]]_vars
  BY OnlyPromotingCrosses DEF PromotesAlone
<1> QED
  BY <1>1, <1>2, <1>3, PTL DEF Spec, CompactionYields

-----------------------------------------------------------------------------
(* What the lane records is true: a succeeded job has applied its effects, and *)
(* the output status of a turn agrees with the receipts of its memory job.     *)
(*                                                                             *)
(* Several claims may share the work of a job, so that its success is about    *)
(* receipts other claims have left behind: RunIsSound says that a claim at its *)
(* n-th effect finds the effects before it applied, as long as the row lives.  *)

InEffect == {"checked", "opening", "reading", "open", "crossing", "promoting", "crossed",
             "operated"}

RunIsSound(r, j, effects, row, accepted) ==
    /\ r.eff > 0
    /\ r.pc \in InEffect => r.eff <= NumEffects[j]
    /\ r.pc = "settle" /\ r.err = "done" => r.eff > NumEffects[j]
    /\ r.pc # "idle" => TurnOf[j] \in accepted
    /\ r.pc # "idle" /\ row.st # "absent" =>
         \A e \in Effect : e < r.eff => effects[e].st = "applied"

RunsAreSound ==
    \A o \in Owner, j \in Job : RunIsSound(run[o][j], j, receipt[j], job[j], ledger)

\* What a recoverExpired has read was in the table, and so its turn in the ledger.
SweptAccepted ==
    \A o \in Owner, j \in Job : sweep[o].class[j] # "no" => TurnOf[j] \in ledger

\* Nothing is said of a turn before it is accepted.
SilentBefore == \A t \in Turn : t \notin ledger => output[t] = "none"

RecordInv == RunsAreSound /\ SweptAccepted /\ SilentBefore /\ SucceededIsApplied /\ OutputIsTruthful

Applied(effects) == \E e \in Effect : effects[e].st = "applied"

\* What a step has to show of the parts it touches.
LEMMA RecordStep ==
    ASSUME TInv, CrossingInv, RecordInv, ledger \subseteq ledger',
           \A o \in Owner, j \in Job :
             \/ RunIsSound(run'[o][j], j, receipt'[j], job'[j], ledger')
             \/ /\ run'[o][j].pc = run[o][j].pc /\ run'[o][j].eff = run[o][j].eff
                /\ run'[o][j].err = run[o][j].err,
           \A j \in Job, e \in Effect :
             receipt[j][e].st = "applied" /\ job'[j].st # "absent" => receipt'[j][e].st = "applied",
           \A j \in Job :
             job'[j].st # "absent" => job[j].st # "absent" \/ TurnOf[j] \notin ledger,
           \A j \in Job : job'[j].st = "succeeded" =>
             \/ job[j].st = "succeeded"
             \/ \A e \in 1 .. NumEffects[j] : receipt'[j][e].st = "applied",
           \A j \in Job : Projects(j) /\ job'[j].st # "absent" =>
             \/ output'[TurnOf[j]] = "applied" <=> Applied(receipt'[j])
             \/ /\ job[j].st # "absent"
                /\ output'[TurnOf[j]] = "applied" <=> output[TurnOf[j]] = "applied"
                /\ Applied(receipt'[j]) <=> Applied(receipt[j]),
           \A j \in Job : Projects(j) /\ job'[j].st = "failed" =>
             job[j].st = "failed" \/ output'[TurnOf[j]] # "none",
           \A t \in Turn : output[t] # "none" => output'[t] # "none",
           \A t \in Turn : output'[t] # "none" => output[t] # "none" \/ t \in ledger',
           \A o \in Owner, j \in Job :
             sweep'[o].class[j] # "no" => sweep[o].class[j] # "no" \/ TurnOf[j] \in ledger'
    PROVE  RecordInv'
<1>0. \A j \in Job : TurnOf[j] \in Turn
  BY JobsAssumption
<1>1. RunsAreSound'
  <2> SUFFICES ASSUME NEW o \in Owner, NEW j \in Job,
                      run'[o][j].pc = run[o][j].pc, run'[o][j].eff = run[o][j].eff,
                      run'[o][j].err = run[o][j].err
               PROVE  RunIsSound(run'[o][j], j, receipt'[j], job'[j], ledger')
    BY DEF RunsAreSound
  <2>1. RunIsSound(run[o][j], j, receipt[j], job[j], ledger)
    BY DEF RecordInv, RunsAreSound
  <2> QED
    BY <2>1 DEF RunIsSound
<1>2. SweptAccepted' /\ SilentBefore'
  BY DEF RecordInv, SweptAccepted, SilentBefore
<1>3. SucceededIsApplied'
  <2> SUFFICES ASSUME NEW j \in Job, job'[j].st = "succeeded", NEW e \in 1 .. NumEffects[j]
               PROVE  receipt'[j][e].st = "applied"
    BY DEF SucceededIsApplied
  <2>1. e \in Effect
    BY JobsAssumption, BoundsAssumption DEF Effect
  <2> QED
    BY <2>1 DEF RecordInv, SucceededIsApplied
<1>4. OutputIsTruthful'
  <2> SUFFICES ASSUME NEW j \in Job, Projects(j), job'[j].st # "absent"
               PROVE  /\ output'[TurnOf[j]] = "applied" <=> Applied(receipt'[j])
                      /\ job'[j].st = "failed" => output'[TurnOf[j]] # "none"
    BY DEF OutputIsTruthful, Applied, Projects
  <2>1. job[j].st # "absent" => /\ output[TurnOf[j]] = "applied" <=> Applied(receipt[j])
                                /\ job[j].st = "failed" => output[TurnOf[j]] # "none"
    BY DEF RecordInv, OutputIsTruthful, Applied
  <2> QED
    BY <1>0, <2>1
<1> QED
  BY <1>1, <1>2, <1>3, <1>4 DEF RecordInv

\* A step of one worker that applies nothing and settles nothing.
LEMMA WorkerStep ==
    ASSUME TInv, CrossingInv, RecordInv, NEW o \in Owner, NEW j \in Job, NEW r,
           SetRun(o, j, r), RunIsSound(r, j, receipt[j], job[j], ledger),
           UNCHANGED <<job, ledger, output, sweep>>,
           \A k \in Job, e \in Effect :
             receipt'[k][e].st = "applied" <=> receipt[k][e].st = "applied"
    PROVE  RecordInv'
<1>0. run \in [Owner -> [Job -> Run]]
  BY DEF TInv, TypeOK
<1>1. /\ run'[o][j] = r
      /\ \A q \in Owner, k \in Job : q # o \/ k # j => run'[q][k] = run[q][k]
  BY <1>0 DEF SetRun
<1>2. RunIsSound(r, j, receipt'[j], job'[j], ledger')
  BY DEF RunIsSound
<1>3. \A q \in Owner, k \in Job :
        \/ RunIsSound(run'[q][k], k, receipt'[k], job'[k], ledger')
        \/ /\ run'[q][k].pc = run[q][k].pc /\ run'[q][k].eff = run[q][k].eff
           /\ run'[q][k].err = run[q][k].err
  BY <1>1, <1>2
<1>4. \A k \in Job : Applied(receipt'[k]) <=> Applied(receipt[k])
  BY DEF Applied
<1> QED
  BY <1>3, <1>4, RecordStep

\* Where a worker can go.
LEMMA Whereabouts ==
    ASSUME TInv, RecordInv, NEW o \in Owner, NEW j \in Job, run[o][j].pc # "idle"
    PROVE  /\ \A pc : pc # "settle" /\ (pc \in InEffect => run[o][j].eff <= NumEffects[j]) =>
                RunIsSound([run[o][j] EXCEPT !.pc = pc], j, receipt[j], job[j], ledger)
           /\ \A err : (err = "done" => run[o][j].eff > NumEffects[j]) =>
                RunIsSound([run[o][j] EXCEPT !.pc = "settle", !.err = err],
                           j, receipt[j], job[j], ledger)
           /\ RunIsSound(Idle, j, receipt[j], job[j], ledger)
           /\ run[o][j].pc \in InEffect => run[o][j].eff <= NumEffects[j]
<1>1. RunIsSound(run[o][j], j, receipt[j], job[j], ledger)
  BY DEF RecordInv, RunsAreSound
<1>2. run[o][j] \in Run
  BY DEF TInv, TypeOK
<1>3. RunIsSound(Idle, j, receipt[j], job[j], ledger)
  BY DEF RunIsSound, Idle, InEffect
<1>4. ASSUME NEW pc, pc # "settle", pc \in InEffect => run[o][j].eff <= NumEffects[j]
      PROVE  RunIsSound([run[o][j] EXCEPT !.pc = pc], j, receipt[j], job[j], ledger)
  <2> DEFINE r == [run[o][j] EXCEPT !.pc = pc]
  <2>1. r.pc = pc /\ r.eff = run[o][j].eff
    BY <1>2 DEF Run
  <2> HIDE DEF r
  <2>2. RunIsSound(r, j, receipt[j], job[j], ledger)
    BY <1>1, <1>4, <2>1 DEF RunIsSound
  <2> QED
    BY <2>2 DEF r
<1>5. ASSUME NEW err, err = "done" => run[o][j].eff > NumEffects[j]
      PROVE  RunIsSound([run[o][j] EXCEPT !.pc = "settle", !.err = err],
                        j, receipt[j], job[j], ledger)
  <2> DEFINE r == [run[o][j] EXCEPT !.pc = "settle", !.err = err]
  <2>1. r.pc = "settle" /\ r.eff = run[o][j].eff /\ r.err = err
    BY <1>2 DEF Run
  <2> HIDE DEF r
  <2>2. RunIsSound(r, j, receipt[j], job[j], ledger)
    BY <1>1, <1>5, <2>1 DEF RunIsSound, InEffect
  <2> QED
    BY <2>2 DEF r
<1> QED
  BY <1>1, <1>3, <1>4, <1>5 DEF RunIsSound

\* Going on, raising and leaving are sound, whatever becomes of unapplied receipts.
LEMMA WorkerMoves ==
    ASSUME TInv, CrossingInv, RecordInv, NEW o \in Owner, NEW j \in Job, run[o][j].pc # "idle",
           \/ Leaves(o, j)
           \/ \E err : (err = "done" => run[o][j].eff > NumEffects[j]) /\ Raises(o, j, err)
           \/ \E pc : /\ pc # "settle" /\ (pc \in InEffect => run[o][j].eff <= NumEffects[j])
                      /\ Moves(o, j, pc),
           UNCHANGED <<job, ledger, output, sweep>>,
           \A k \in Job, e \in Effect :
             receipt'[k][e].st = "applied" <=> receipt[k][e].st = "applied"
    PROVE  RecordInv'
<1>1. CASE Leaves(o, j)
  BY <1>1, Whereabouts, WorkerStep DEF Leaves
<1>2. ASSUME NEW err, err = "done" => run[o][j].eff > NumEffects[j], Raises(o, j, err)
      PROVE  RecordInv'
  BY <1>2, Whereabouts, WorkerStep DEF Raises
<1>3. ASSUME NEW pc, pc # "settle", pc \in InEffect => run[o][j].eff <= NumEffects[j],
             Moves(o, j, pc)
      PROVE  RecordInv'
  BY <1>3, Whereabouts, WorkerStep DEF Moves
<1> QED
  BY <1>1, <1>2, <1>3

\* One receipt is rewritten, applied if it was.
LEMMA OneReceipt ==
    ASSUME TInv, NEW j \in Job, NEW e, NEW r, receipt' = [receipt EXCEPT ![j][e] = r],
           r.st = "applied" <=> receipt[j][e].st = "applied"
    PROVE  \A k \in Job, f \in Effect :
             receipt'[k][f].st = "applied" <=> receipt[k][f].st = "applied"
<1>1. receipt \in [Job -> [Effect -> Receipt]]
  BY DEF TInv, TypeOK
<1> QED
  BY <1>1

LEMMA AbandonApplies ==
    ASSUME TInv, NEW o \in Owner, NEW j \in Job, NEW lag \in Lags, AbandonEffect(o, j, lag)
    PROVE  \A k \in Job, f \in Effect :
             receipt'[k][f].st = "applied" <=> receipt[k][f].st = "applied"
<1> DEFINE e == run[o][j].eff
<1>1. NoReceipt.st = "none"
  BY DEF NoReceipt
<1>2. \/ receipt' = receipt
      \/ receipt[j][e].st = "pending" /\ receipt' = [receipt EXCEPT ![j][e] = NoReceipt]
  BY DEF AbandonEffect
<1> HIDE DEF e
<1>3. CASE receipt[j][e].st = "pending" /\ receipt' = [receipt EXCEPT ![j][e] = NoReceipt]
  BY <1>1, <1>3, OneReceipt
<1> QED
  BY <1>2, <1>3

\* An effect that somebody has applied is passed over.
LEMMA PassedOver ==
    ASSUME TInv, CrossingInv, RecordInv, NEW o \in Owner, NEW j \in Job, run[o][j].pc # "idle",
           NEW r, r = [run[o][j] EXCEPT !.pc = "ready", !.eff = run[o][j].eff + 1],
           NEW effects, \A e \in Effect : receipt[j][e].st = "applied" => effects[e].st = "applied",
           run[o][j].eff \in Effect => effects[run[o][j].eff].st = "applied"
    PROVE  RunIsSound(r, j, effects, job[j], ledger)
<1> DEFINE n == run[o][j].eff
           next == n + 1
<1>1. RunIsSound(run[o][j], j, receipt[j], job[j], ledger)
  BY DEF RecordInv, RunsAreSound
<1>2. run[o][j] \in Run /\ n \in Nat
  BY DEF TInv, TypeOK, Run
<1>3. next \in Nat /\ next > 0 /\ \A e \in Effect : e < next => e < n \/ e = n
  BY <1>2, BoundsAssumption DEF Effect
<1> HIDE DEF next
<1>4. r.pc = "ready" /\ r.eff = next
  BY <1>2 DEF Run, next
<1> QED
  BY <1>1, <1>3, <1>4 DEF RunIsSound, InEffect

LEMMA BeginEffectRecords ==
    ASSUME TInv, CrossingInv, RecordInv, NEW o \in Owner, NEW j \in Job, BeginEffect(o, j)
    PROVE  RecordInv'
<1> DEFINE e == run[o][j].eff
           own == [st |-> "pending", token |-> TokenOf(o, j)]
<1>0. /\ run[o][j].pc = "opening" /\ run[o][j].pc # "idle" /\ run[o][j].pc \in InEffect
      /\ UNCHANGED <<job, ledger, output, sweep>>
  BY DEF BeginEffect, InEffect
<1>1. run[o][j].eff <= NumEffects[j]
  BY <1>0, Whereabouts
<1>2. CASE Raises(o, j, "other") /\ UNCHANGED receipt
  BY <1>0, <1>2, WorkerMoves
<1>3. CASE receipt[j][e].st = "none" /\ receipt' = [receipt EXCEPT ![j][e] = own] /\ Moves(o, j, "open")
  <2>1. own.st = "pending"
    OBVIOUS
  <2> HIDE DEF own, e
  <2>2. \A k \in Job, f \in Effect :
          receipt'[k][f].st = "applied" <=> receipt[k][f].st = "applied"
    BY <1>3, <2>1, OneReceipt
  <2> QED
    BY <1>0, <1>1, <1>3, <2>2, WorkerMoves
<1>4. CASE Moves(o, j, "reading") /\ UNCHANGED receipt
  BY <1>0, <1>1, <1>4, WorkerMoves
<1> QED
  BY <1>2, <1>3, <1>4 DEF BeginEffect, SetReceipt

LEMMA ReadIncumbentRecords ==
    ASSUME TInv, CrossingInv, RecordInv, NEW o \in Owner, NEW j \in Job, ReadIncumbent(o, j)
    PROVE  RecordInv'
<1> DEFINE e == run[o][j].eff
           own == [st |-> "pending", token |-> TokenOf(o, j)]
           r == [run[o][j] EXCEPT !.pc = "ready", !.eff = e + 1]
<1>0. /\ run[o][j].pc = "reading" /\ run[o][j].pc # "idle" /\ run[o][j].pc \in InEffect
      /\ UNCHANGED <<job, ledger, output, sweep>>
  BY DEF ReadIncumbent, InEffect
<1>1. run[o][j].eff <= NumEffects[j]
  BY <1>0, Whereabouts
<1>2. CASE receipt[j][e].st = "applied" /\ SetRun(o, j, r) /\ UNCHANGED receipt
  <2>1. RunIsSound(r, j, receipt[j], job[j], ledger)
    BY <1>0, <1>2, PassedOver
  <2> HIDE DEF r
  <2> QED
    BY <1>0, <1>2, <2>1, WorkerStep
<1>3. CASE receipt[j][e].st = "pending" /\ receipt' = [receipt EXCEPT ![j][e] = own] /\ Moves(o, j, "open")
  <2>1. own.st = "pending"
    OBVIOUS
  <2> HIDE DEF own, e
  <2>2. \A k \in Job, f \in Effect :
          receipt'[k][f].st = "applied" <=> receipt[k][f].st = "applied"
    BY <1>3, <2>1, OneReceipt
  <2> QED
    BY <1>0, <1>1, <1>3, <2>2, WorkerMoves
<1>4. CASE (Moves(o, j, "open") \/ Raises(o, j, "unknown")) /\ UNCHANGED receipt
  BY <1>0, <1>1, <1>4, WorkerMoves
<1> QED
  BY <1>2, <1>3, <1>4 DEF ReadIncumbent, SetReceipt

LEMMA CommitRecords ==
    ASSUME TInv, CrossingInv, RecordInv, NEW o \in Owner, NEW j \in Job,
           CommitEffectBoundary(o, j)
    PROVE  RecordInv'
<1> DEFINE e == run[o][j].eff
           st == IF receipt[j][e].st = "applied" THEN "applied" ELSE "started"
           own == [st |-> st, token |-> TokenOf(o, j)]
<1>0. /\ run[o][j].pc = "promoting" /\ run[o][j].pc # "idle" /\ run[o][j].pc \in InEffect
      /\ UNCHANGED <<job, ledger, output, sweep>>
  BY DEF CommitEffectBoundary, InEffect
<1>1. run[o][j].eff <= NumEffects[j]
  BY <1>0, Whereabouts
<1>2. CASE receipt' = [receipt EXCEPT ![j][e] = own] /\ Moves(o, j, "crossed")
  <2>1. own.st = "applied" <=> receipt[j][e].st = "applied"
    OBVIOUS
  <2> HIDE DEF own, e
  <2>2. \A k \in Job, f \in Effect :
          receipt'[k][f].st = "applied" <=> receipt[k][f].st = "applied"
    BY <1>2, <2>1, OneReceipt
  <2> QED
    BY <1>0, <1>1, <1>2, <2>2, WorkerMoves
<1>3. CASE Leaves(o, j) /\ UNCHANGED receipt
  BY <1>0, <1>3, WorkerMoves
<1> QED
  BY <1>2, <1>3 DEF CommitEffectBoundary, SetReceipt

\* completeEffect alone applies an effect, with the status of the turn.
LEMMA CompleteRecords ==
    ASSUME TInv, CrossingInv, RecordInv, NEW o \in Owner, NEW j \in Job, NEW lag \in Lags,
           CompleteEffect(o, j, lag)
    PROVE  RecordInv'
<1> DEFINE e == run[o][j].eff
           done == [st |-> "applied", token |-> TokenOf(o, j)]
           r == [run[o][j] EXCEPT !.pc = "ready", !.eff = e + 1]
<1>0. /\ run[o][j].pc = "operated" /\ run[o][j].pc # "idle" /\ run[o][j].pc \in InEffect
      /\ UNCHANGED <<job, ledger, sweep>>
  BY DEF CompleteEffect, InEffect
<1>1. CASE (Leaves(o, j) \/ Raises(o, j, "other")) /\ UNCHANGED <<receipt, output>>
  BY <1>0, <1>1, WorkerMoves
<1>2. CASE /\ OwnsClaim(o, j)
           /\ receipt' = [receipt EXCEPT ![j][e] = done]
           /\ output' = [output EXCEPT ![TurnOf[j]] = IF Projects(j) THEN "applied" ELSE @]
           /\ SetRun(o, j, r)
  <2>0. /\ receipt \in [Job -> [Effect -> Receipt]] /\ run \in [Owner -> [Job -> Run]]
        /\ output \in [Turn -> {"none", "applied", "failed", "outcome_unknown"}]
        /\ TurnOf \in [Job -> Turn]
    BY JobsAssumption DEF TInv, TypeOK
  <2>1. e \in Effect
    <3>1. e \in Nat /\ e > 0 /\ e <= NumEffects[j] /\ NumEffects[j] \in 0 .. MaxEffects
      BY <1>0, <2>0, Whereabouts, JobsAssumption DEF RecordInv, RunsAreSound, RunIsSound, Run
    <3> QED
      BY <3>1, BoundsAssumption DEF Effect
  <2>2. done.st = "applied"
    OBVIOUS
  <2> HIDE DEF done
  <2>3. /\ receipt'[j][e].st = "applied"
        /\ \A k \in Job, f \in Effect : k # j \/ f # e => receipt'[k][f] = receipt[k][f]
    BY <1>2, <2>0, <2>1, <2>2
  <2>4. RunIsSound(r, j, receipt'[j], job[j], ledger)
    BY <1>0, <2>3, PassedOver
  <2> HIDE DEF r
  <2>5. run'[o][j] = r /\ \A q \in Owner, k \in Job : q # o \/ k # j => run'[q][k] = run[q][k]
    BY <1>2, <2>0 DEF SetRun
  <2>6. \A q \in Owner, k \in Job :
          \/ RunIsSound(run'[q][k], k, receipt'[k], job'[k], ledger')
          \/ /\ run'[q][k].pc = run[q][k].pc /\ run'[q][k].eff = run[q][k].eff
             /\ run'[q][k].err = run[q][k].err
    BY <1>0, <2>4, <2>5
  <2>7. job[j].st # "absent" /\ TurnOf[j] \in ledger
    BY <1>2 DEF OwnsClaim, CrossingInv, RowsAccepted
  <2>8. /\ Projects(j) => output'[TurnOf[j]] = "applied"
        /\ ~Projects(j) => output' = output
        /\ \A t \in Turn : t # TurnOf[j] => output'[t] = output[t]
    <3>1. CASE Projects(j)
      BY <1>2, <2>0, <3>1
    <3>2. CASE ~Projects(j)
      BY <1>2, <2>0, <3>2
    <3> QED
      BY <3>1, <3>2
  <2>9. \A k \in Job : Projects(k) /\ job'[k].st # "absent" =>
          \/ output'[TurnOf[k]] = "applied" <=> Applied(receipt'[k])
          \/ /\ job[k].st # "absent"
             /\ output'[TurnOf[k]] = "applied" <=> output[TurnOf[k]] = "applied"
             /\ Applied(receipt'[k]) <=> Applied(receipt[k])
    <3> SUFFICES ASSUME NEW k \in Job, Projects(k), job'[k].st # "absent"
                 PROVE  \/ output'[TurnOf[k]] = "applied" <=> Applied(receipt'[k])
                        \/ /\ job[k].st # "absent"
                           /\ output'[TurnOf[k]] = "applied" <=> output[TurnOf[k]] = "applied"
                           /\ Applied(receipt'[k]) <=> Applied(receipt[k])
      OBVIOUS
    <3>1. CASE k = j
      BY <2>1, <2>3, <2>8, <3>1 DEF Applied
    <3>2. CASE k # j
      <4>1. Projects(j) => TurnOf[k] # TurnOf[j]
        BY <3>2, IdentityAssumption DEF Projects
      <4>2. output'[TurnOf[k]] = output[TurnOf[k]]
        BY <2>0, <2>8, <4>1
      <4>3. Applied(receipt'[k]) <=> Applied(receipt[k])
        BY <2>3, <3>2 DEF Applied
      <4> QED
        BY <1>0, <4>2, <4>3
    <3> QED
      BY <3>1, <3>2
  <2>10. \A k \in Job, f \in Effect : receipt[k][f].st = "applied" => receipt'[k][f].st = "applied"
    BY <2>3
  <2>11. \A t \in Turn : /\ output[t] # "none" => output'[t] # "none"
                         /\ output'[t] # "none" => output[t] # "none" \/ t \in ledger'
    BY <1>0, <2>7, <2>8
  <2> QED
    BY <1>0, <2>6, <2>9, <2>10, <2>11, RecordStep
<1> QED
  BY <1>1, <1>2 DEF CompleteEffect, SetReceipt

\* A settlement succeeds after the last effect, and tells when it fails.
LEMMA SettleRecords ==
    ASSUME TInv, CrossingInv, RecordInv, NEW o \in Owner, NEW j \in Job, NEW lag \in Lags,
           SettleClaim(o, j, lag)
    PROVE  RecordInv'
<1> DEFINE err == run[o][j].err
           row == SettledRow(j, err, DelayTicks - lag)
           tells == Projects(j) /\ row.st \in {"failed", "stale_discarded"}
           status == SettledStatus(j, err)
<1>0. /\ run[o][j].pc = "settle" /\ run[o][j].pc # "idle" /\ Leaves(o, j)
      /\ UNCHANGED <<receipt, ledger, sweep>>
      /\ run \in [Owner -> [Job -> Run]] /\ job \in [Job -> JobRow]
      /\ output \in [Turn -> {"none", "applied", "failed", "outcome_unknown"}]
      /\ TurnOf \in [Job -> Turn]
  BY JobsAssumption DEF SettleClaim, TInv, TypeOK
<1>1. CASE UNCHANGED <<job, output>>
  BY <1>0, <1>1, WorkerMoves
<1>2. CASE /\ OwnsClaim(o, j) /\ row.attempts <= MaxAttempts
           /\ job' = [job EXCEPT ![j] = row]
           /\ output' = IF tells THEN [output EXCEPT ![TurnOf[j]] = FirstStatus(@, status)]
                        ELSE output
  <2>1. err \in Raised /\ DelayTicks - lag \in Int
    BY <1>0, BoundsAssumption DEF TInv, SettleHasReason, Lags
  <2>2. row.st # "absent"
    BY <1>2, <2>1, SettledRowType DEF TInv, Runnable, Terminal
  <2>3. row.st = "succeeded" => err = "done"
    BY <2>1 DEF SettledRow, Released, Unleased, Raised, Errors
  <2>4. job[j].st # "absent" /\ TurnOf[j] \in ledger
    BY <1>2 DEF OwnsClaim, CrossingInv, RowsAccepted
  <2>5. err = "done" => \A e \in 1 .. NumEffects[j] : receipt'[j][e].st = "applied"
    <3> SUFFICES ASSUME err = "done", NEW e \in 1 .. NumEffects[j]
                 PROVE  receipt[j][e].st = "applied"
      BY <1>0
    <3>1. RunIsSound(run[o][j], j, receipt[j], job[j], ledger)
      BY DEF RecordInv, RunsAreSound
    <3>2. e \in Effect /\ e <= NumEffects[j] /\ NumEffects[j] \in Nat /\ e \in Nat
      BY JobsAssumption, BoundsAssumption DEF Effect
    <3>3. run[o][j].eff \in Nat
      BY <1>0 DEF Run
    <3>4. e < run[o][j].eff
      BY <1>0, <3>1, <3>2, <3>3 DEF RunIsSound
    <3> QED
      BY <1>0, <2>4, <3>1, <3>2, <3>4 DEF RunIsSound
  <2>6. status \in {"failed", "outcome_unknown"}
    BY <2>1 DEF SettledStatus
  <2>a. tells => row.st \in {"failed", "stale_discarded"}
    OBVIOUS
  <2>b. row.st = "failed" /\ Projects(j) => tells
    OBVIOUS
  <2> HIDE DEF row, status, tells
  <2>7. job'[j] = row /\ \A k \in Job : k # j => job'[k] = job[k]
    BY <1>0, <1>2
  <2>8. /\ \A t \in Turn : /\ t # TurnOf[j] => output'[t] = output[t]
                           /\ output'[t] = "applied" <=> output[t] = "applied"
                           /\ output[t] # "none" => output'[t] # "none"
        /\ tells => output'[TurnOf[j]] # "none"
    <3>1. CASE ~tells
      BY <1>2, <3>1
    <3>2. CASE tells
      <4>1. output' = [output EXCEPT ![TurnOf[j]] = FirstStatus(output[TurnOf[j]], status)]
        BY <1>2, <3>2
      <4>2. /\ output'[TurnOf[j]] = FirstStatus(output[TurnOf[j]], status)
            /\ \A t \in Turn : t # TurnOf[j] => output'[t] = output[t]
        BY <1>0, <4>1
      <4> QED
        BY <1>0, <2>6, <4>2 DEF FirstStatus
    <3> QED
      BY <3>1, <3>2
  <2>9. run'[o][j] = Idle /\ \A q \in Owner, k \in Job : q # o \/ k # j => run'[q][k] = run[q][k]
    BY <1>0 DEF Leaves, SetRun
  <2>10. RunIsSound(Idle, j, receipt'[j], job'[j], ledger')
    BY DEF RunIsSound, Idle, InEffect
  <2>11. \A q \in Owner, k \in Job :
          \/ RunIsSound(run'[q][k], k, receipt'[k], job'[k], ledger')
          \/ /\ run'[q][k].pc = run[q][k].pc /\ run'[q][k].eff = run[q][k].eff
             /\ run'[q][k].err = run[q][k].err
    BY <2>9, <2>10
  <2>12. \A k \in Job : /\ job'[k].st # "absent" => job[k].st # "absent"
                        /\ job'[k].st = "succeeded" =>
                             \/ job[k].st = "succeeded"
                             \/ \A e \in 1 .. NumEffects[k] : receipt'[k][e].st = "applied"
                        /\ Projects(k) /\ job'[k].st = "failed" =>
                             job[k].st = "failed" \/ output'[TurnOf[k]] # "none"
    BY <2>3, <2>4, <2>5, <2>7, <2>8, <2>b
  <2>13. \A k \in Job :
           /\ output'[TurnOf[k]] = "applied" <=> output[TurnOf[k]] = "applied"
           /\ Applied(receipt'[k]) <=> Applied(receipt[k])
    BY <1>0, <2>8
  <2>14. \A t \in Turn : output'[t] # "none" => output[t] # "none" \/ t \in ledger'
    BY <1>0, <2>4, <2>8
  <2> QED
    BY <1>0, <2>8, <2>11, <2>12, <2>13, <2>14, RecordStep
<1> QED
  BY <1>1, <1>2 DEF SettleClaim

LEMMA WorkRecords ==
    ASSUME TInv, CrossingInv, RecordInv, NEW o \in Owner, NEW j \in Job, Work(o, j)
    PROVE  RecordInv'
<1> DEFINE Same == \A k \in Job, f \in Effect :
                     receipt'[k][f].st = "applied" <=> receipt[k][f].st = "applied"
<1>1. CASE ExecuteClaim(o, j)
  <2>1. /\ run[o][j].pc # "idle" /\ UNCHANGED <<job, receipt, ledger, output, sweep>>
        /\ Raises(o, j, "busy") \/ Raises(o, j, "malformed") \/ Moves(o, j, "ready")
    BY <1>1 DEF ExecuteClaim, store
  <2> QED
    BY <2>1, WorkerMoves DEF InEffect
<1>2. CASE OperationReturns(o, j) \/ HandlerReturns(o, j) \/ SourceGraceEnds(o, j)
           \/ SettlementLost(o, j)
  <2>1. /\ run[o][j].pc # "idle" /\ UNCHANGED <<job, receipt, ledger, output, sweep>>
        /\ \/ run[o][j].pc \in InEffect /\ Moves(o, j, "operated")
           \/ run[o][j].eff > NumEffects[j] /\ Raises(o, j, "done")
           \/ Raises(o, j, "permanent") \/ Leaves(o, j)
    BY <1>2 DEF OperationReturns, HandlerReturns, SourceGraceEnds, SettlementLost, store, InEffect
  <2>2. run[o][j].pc \in InEffect => run[o][j].eff <= NumEffects[j]
    BY <2>1, Whereabouts
  <2> QED
    BY <2>1, <2>2, WorkerMoves
<1>3. ASSUME NEW lag \in Lags, CheckEffect(o, j, lag) \/ BeginEffectFence(o, j, lag)
      PROVE  RecordInv'
  <2>1. /\ run[o][j].pc # "idle" /\ UNCHANGED <<job, receipt, ledger, output, sweep>>
        /\ \/ Leaves(o, j) \/ Raises(o, j, "preempted")
           \/ /\ run[o][j].pc \in InEffect \/ run[o][j].eff <= NumEffects[j]
              /\ Moves(o, j, "checked") \/ Moves(o, j, "opening")
    BY <1>3 DEF CheckEffect, BeginEffectFence, store, InEffect
  <2>2. run[o][j].pc \in InEffect => run[o][j].eff <= NumEffects[j]
    BY <2>1, Whereabouts
  <2> QED
    BY <2>1, <2>2, WorkerMoves
<1>4. ASSUME NEW lag \in Lags, CrossBoundary(o, j, lag) \/ CommitFence(o, j, lag)
      PROVE  RecordInv'
  <2>1. /\ run[o][j].pc # "idle" /\ run[o][j].pc \in InEffect
        /\ UNCHANGED <<job, ledger, output, sweep>>
        /\ \/ Leaves(o, j) \/ Raises(o, j, "preempted")
           \/ Moves(o, j, "crossing") \/ Moves(o, j, "promoting")
        /\ receipt' = receipt \/ AbandonEffect(o, j, lag)
    BY <1>4 DEF CrossBoundary, CommitFence, InEffect
  <2>2. run[o][j].eff <= NumEffects[j]
    BY <2>1, Whereabouts
  <2>3. Same
    BY <2>1, AbandonApplies
  <2> QED
    BY <2>1, <2>2, <2>3, WorkerMoves
<1>5. ASSUME NEW lag \in Lags, NEW err \in Errors, HandlerThrows(o, j, err, lag)
      PROVE  RecordInv'
  <2>1. /\ run[o][j].pc # "idle" /\ err # "done" /\ Raises(o, j, err)
        /\ UNCHANGED <<job, ledger, output, sweep>>
        /\ receipt' = receipt \/ AbandonEffect(o, j, lag)
    BY <1>5 DEF HandlerThrows, Errors
  <2>2. Same
    BY <2>1, AbandonApplies
  <2> QED
    BY <2>1, <2>2, WorkerMoves
<1> QED
  BY <1>1, <1>2, <1>3, <1>4, <1>5, BeginEffectRecords, ReadIncumbentRecords, CommitRecords,
     CompleteRecords, SettleRecords DEF Work

\* A step that ends no job, applies nothing and says nothing.
LEMMA SilentStep ==
    ASSUME TInv, CrossingInv, RecordInv, UNCHANGED <<ledger, output>>,
           \A o \in Owner, j \in Job :
             \/ run'[o][j].pc = "idle" /\ run'[o][j].eff = 1
             \/ /\ run'[o][j].pc = run[o][j].pc /\ run'[o][j].eff = run[o][j].eff
                /\ run'[o][j].err = run[o][j].err,
           \A j \in Job : job'[j].st # "absent" => job[j].st # "absent",
           \A j \in Job : job'[j].st \in {"succeeded", "failed"} => job'[j].st = job[j].st,
           \A j \in Job, e \in Effect : job'[j].st # "absent" =>
             (receipt'[j][e].st = "applied" <=> receipt[j][e].st = "applied"),
           \A o \in Owner, j \in Job :
             sweep'[o].class[j] # "no" => sweep[o].class[j] # "no" \/ TurnOf[j] \in ledger
    PROVE  RecordInv'
<1>1. \A o \in Owner, j \in Job :
        \/ RunIsSound(run'[o][j], j, receipt'[j], job'[j], ledger')
        \/ /\ run'[o][j].pc = run[o][j].pc /\ run'[o][j].eff = run[o][j].eff
           /\ run'[o][j].err = run[o][j].err
  BY DEF RunIsSound, InEffect
<1>2. \A j \in Job : job'[j].st # "absent" => (Applied(receipt'[j]) <=> Applied(receipt[j]))
  BY DEF Applied
<1> QED
  BY <1>1, <1>2, RecordStep

LEMMA EnqueueRecords ==
    ASSUME TInv, CrossingInv, RecordInv, NEW t \in Turn, Enqueue(t)
    PROVE  RecordInv'
<1>0. UNCHANGED <<receipt, output, run, sweep>> /\ ledger' = ledger \cup {t} /\ t \notin ledger
  BY DEF Enqueue
<1>1. \A k \in Job : EnqueuedRow(k).st \in {"stale_discarded", "queued"}
  BY DEF EnqueuedRow, AbsentRow
<1>2. \A k \in Job :
        \/ job'[k] = job[k]
        \/ job'[k].st \in {"stale_discarded", "queued"}
           /\ ((job[k].st = "absent" /\ TurnOf[k] = t) \/ job[k].st \in Runnable)
  BY <1>1 DEF Enqueue, SupersededBy, Released, Unleased
<1>3. \A k \in Job : /\ job'[k].st # "absent" => job[k].st # "absent" \/ TurnOf[k] \notin ledger
                     /\ job'[k].st \in {"succeeded", "failed"} => job'[k].st = job[k].st
  BY <1>0, <1>2 DEF Runnable
<1>4. \A k \in Job : Projects(k) /\ job'[k].st # "absent" =>
        \/ output'[TurnOf[k]] = "applied" <=> Applied(receipt'[k])
        \/ /\ job[k].st # "absent"
           /\ output'[TurnOf[k]] = "applied" <=> output[TurnOf[k]] = "applied"
           /\ Applied(receipt'[k]) <=> Applied(receipt[k])
  <2> SUFFICES ASSUME NEW k \in Job, job'[k].st # "absent", job[k].st = "absent"
               PROVE  output[TurnOf[k]] # "applied" /\ ~Applied(receipt[k])
    BY <1>0
  <2>1. output[TurnOf[k]] = "none"
    BY <1>3, JobsAssumption DEF RecordInv, SilentBefore
  <2>2. \A e \in Effect : receipt[k][e] = NoReceipt
    BY DEF CrossingInv, ReceiptsHaveRows
  <2> QED
    BY <2>1, <2>2 DEF Applied, NoReceipt
<1>5. ledger \subseteq ledger'
  BY <1>0
<1> QED
  BY <1>0, <1>3, <1>4, <1>5, RecordStep

LEMMA ClaimRecords ==
    ASSUME TInv, CrossingInv, RecordInv, NEW o \in Owner, NEW j \in Job, NEW lag \in Lags,
           ClaimNext(o, j, lag)
    PROVE  RecordInv'
<1> DEFINE row == LeasedRow(o, j, LeaseTicks - lag)
           r == [Idle EXCEPT !.pc = "claimed", !.rev = job[j].rev + 1]
<1>0. /\ job[j].st # "absent" /\ job' = [job EXCEPT ![j] = row] /\ row.st = "running"
      /\ run' = [run EXCEPT ![o][j] = r] /\ r.pc = "claimed" /\ r.eff = 1
      /\ UNCHANGED <<receipt, ledger, output, sweep>>
      /\ run \in [Owner -> [Job -> Run]] /\ job \in [Job -> JobRow]
  BY DEF ClaimNext, Claimable, Runnable, SetRun, LeasedRow, Idle, TInv, TypeOK
<1> HIDE DEF row, r
<1>1. TurnOf[j] \in ledger
  BY <1>0 DEF CrossingInv, RowsAccepted
<1>2. \A e \in Effect : ~(e < 1)
  BY BoundsAssumption DEF Effect
<1>3. RunIsSound(r, j, receipt'[j], job'[j], ledger')
  BY <1>0, <1>1, <1>2 DEF RunIsSound, InEffect
<1>4. run'[o][j] = r /\ \A q \in Owner, k \in Job : q # o \/ k # j => run'[q][k] = run[q][k]
  BY <1>0
<1>5. \A q \in Owner, k \in Job :
        \/ RunIsSound(run'[q][k], k, receipt'[k], job'[k], ledger')
        \/ /\ run'[q][k].pc = run[q][k].pc /\ run'[q][k].eff = run[q][k].eff
           /\ run'[q][k].err = run[q][k].err
  BY <1>3, <1>4
<1>6. \A k \in Job : /\ job'[k].st # "absent" => job[k].st # "absent"
                     /\ job'[k].st \in {"succeeded", "failed"} => job'[k].st = job[k].st
  BY <1>0
<1> QED
  BY <1>0, <1>5, <1>6, RecordStep

\* recoverExpired fails no memory job without telling, and unsays nothing.
LEMMA RecoverRecords ==
    ASSUME TInv, CrossingInv, RecordInv, NEW o \in Owner, RecoverExpired(o)
    PROVE  RecordInv'
<1> DEFINE class == sweep[o].class
           Hit == {j \in Job : class[j] # "no" /\ job[j].st # "absent"}
           Told == {j \in Job : Projects(j) /\ (class[j] = "crossed"
                                                \/ (class[j] = "last" /\ j \in Hit))}
           Said(t) == RecoveredStatus(class[CHOOSE j \in Told : TurnOf[j] = t])
<1>0. /\ UNCHANGED <<ledger, run>>
      /\ job' = [j \in Job |-> IF j \in Hit THEN RecoveredRow(j, class[j]) ELSE job[j]]
      /\ output' = [t \in Turn |-> IF \E j \in Told : TurnOf[j] = t
                                   THEN FirstStatus(output[t], Said(t)) ELSE output[t]]
      /\ sweep' = [sweep EXCEPT ![o] = NoSweep]
      /\ output \in [Turn -> {"none", "applied", "failed", "outcome_unknown"}]
      /\ sweep \in [Owner -> [lag : Lags, class : [Job -> {"no", "pre", "last", "crossed"}]]]
      /\ TurnOf \in [Job -> Turn]
  BY JobsAssumption, Zenon DEF RecoverExpired, EndSweep, TInv, TypeOK
<1>1. \A t \in Turn : Said(t) \in {"failed", "outcome_unknown"}
  BY DEF RecoveredStatus
<1>2. \A j \in Told : TurnOf[j] \in ledger
  BY DEF RecordInv, SweptAccepted
<1>3. \A t \in Turn : /\ output'[t] = "applied" <=> output[t] = "applied"
                      /\ output[t] # "none" => output'[t] # "none"
                      /\ output'[t] # "none" => output[t] # "none" \/ t \in ledger'
                      /\ (\E j \in Told : TurnOf[j] = t) => output'[t] # "none"
  <2> HIDE DEF Told, Said
  <2> QED
    BY <1>0, <1>1, <1>2 DEF FirstStatus
<1>4. \A j \in Job, e \in Effect :
        receipt'[j][e].st = "applied" <=> receipt[j][e].st = "applied"
  <2>1. \A j \in Job, e \in Effect :
          receipt'[j][e] = IF <<j, e>> \in drop[o] THEN NoReceipt ELSE receipt[j][e]
    BY DEF RecoverExpired
  <2>2. \A j \in Job, e \in Effect : <<j, e>> \in drop[o] => receipt[j][e].st = "pending"
    BY DEF CrossingInv, DroppedArePending
  <2>3. NoReceipt.st = "none"
    BY DEF NoReceipt
  <2> QED
    BY <2>1, <2>2, <2>3
<1>5. \A j \in Job : \/ job'[j] = job[j]
                     \/ /\ j \in Hit
                        /\ job'[j].st = IF class[j] = "pre" THEN "retry_wait" ELSE "failed"
  <2> HIDE DEF Hit, class
  <2> QED
    BY <1>0 DEF RecoveredRow, Unleased
<1>6. \A j \in Job : /\ job'[j].st # "absent" => job[j].st # "absent"
                     /\ job'[j].st = "succeeded" => job[j].st = "succeeded"
                     /\ Projects(j) /\ job'[j].st = "failed" =>
                          job[j].st = "failed" \/ output'[TurnOf[j]] # "none"
  <2> SUFFICES ASSUME NEW j \in Job
               PROVE  /\ job'[j].st # "absent" => job[j].st # "absent"
                      /\ job'[j].st = "succeeded" => job[j].st = "succeeded"
                      /\ Projects(j) /\ job'[j].st = "failed" =>
                           job[j].st = "failed" \/ output'[TurnOf[j]] # "none"
    OBVIOUS
  <2>1. CASE job'[j] = job[j]
    BY <2>1
  <2>2. CASE j \in Hit /\ job'[j].st = IF class[j] = "pre" THEN "retry_wait" ELSE "failed"
    <3>1. class[j] \in {"pre", "last", "crossed"} /\ job[j].st # "absent"
      BY <1>0, <2>2
    <3>2. Projects(j) /\ class[j] # "pre" => j \in Told
      BY <2>2, <3>1
    <3>3. Projects(j) /\ class[j] # "pre" => output'[TurnOf[j]] # "none"
      BY <1>0, <1>3, <3>2
    <3> QED
      BY <2>2, <3>1, <3>3
  <2> QED
    BY <1>5, <2>1, <2>2
<1>7. \A q \in Owner, j \in Job : sweep'[q].class[j] # "no" => sweep[q].class[j] # "no"
  BY <1>0 DEF NoSweep
<1>8. \A j \in Job : /\ output'[TurnOf[j]] = "applied" <=> output[TurnOf[j]] = "applied"
                     /\ Applied(receipt'[j]) <=> Applied(receipt[j])
  BY <1>0, <1>3, <1>4 DEF Applied
<1>9. ledger \subseteq ledger' /\ run' = run
  BY <1>0
<1> HIDE DEF class, Hit, Told, Said
<1> QED
  BY <1>3, <1>4, <1>6, <1>7, <1>8, <1>9, RecordStep

\* Every other step of a supervisor.
LEMMA SuperviseRecords ==
    ASSUME TInv, CrossingInv, RecordInv, NEW o \in Owner, Supervise(o)
    PROVE  RecordInv'
<1>0. /\ job \in [Job -> JobRow] /\ receipt \in [Job -> [Effect -> Receipt]]
      /\ run \in [Owner -> [Job -> Run]]
      /\ sweep \in [Owner -> [lag : Lags, class : [Job -> {"no", "pre", "last", "crossed"}]]]
  BY DEF TInv, TypeOK
<1> DEFINE GoesOn == \A q \in Owner, j \in Job :
                       /\ run'[q][j].pc = run[q][j].pc /\ run'[q][j].eff = run[q][j].eff
                       /\ run'[q][j].err = run[q][j].err
<1>1. CASE Start(o) \/ EndPass(o)
  BY <1>1, SilentStep DEF Start, EndPass
<1>2. CASE BeginStop(o) \/ HeartbeatFails(o)
  <2>1. CASE BeginStop(o)
    <3>1. GoesOn
      BY <1>0, <2>1 DEF BeginStop, Run
    <3> QED
      BY <2>1, <3>1, SilentStep DEF BeginStop
  <2>2. CASE HeartbeatFails(o)
    <3>1. GoesOn
      BY <1>0, <2>2 DEF HeartbeatFails, Run
    <3> QED
      BY <2>2, <3>1, SilentStep DEF HeartbeatFails
  <2> QED
    BY <1>2, <2>1, <2>2
<1>3. CASE Die(o) \/ RecoverExpiredFails(o)
  <2>1. UNCHANGED <<job, receipt, ledger, output>> /\ sweep' = [sweep EXCEPT ![o] = NoSweep]
    BY <1>3 DEF Die, RecoverExpiredFails, EndSweep, store
  <2>2. \A q \in Owner, j \in Job : sweep'[q].class[j] # "no" => sweep[q].class[j] # "no"
    BY <1>0, <2>1 DEF NoSweep
  <2>3. \A q \in Owner, j \in Job :
          (run'[q][j].pc = "idle" /\ run'[q][j].eff = 1) \/ run'[q][j] = run[q][j]
    <3>1. Idle.pc = "idle" /\ Idle.eff = 1
      BY DEF Idle
    <3>2. run' = run \/ run' = [run EXCEPT ![o] = [j \in Job |-> Idle]]
      BY <1>3 DEF Die, RecoverExpiredFails
    <3> QED
      BY <1>0, <3>1, <3>2
  <2> QED
    BY <2>1, <2>2, <2>3, SilentStep
<1>4. ASSUME NEW lag \in Lags, Heartbeat(o, lag) \/ BeginPass(o, lag) PROVE RecordInv'
  <2>1. UNCHANGED <<receipt, ledger, output>> /\ job' = JobsRenewed(o, lag) /\ run' = RunsFenced(o)
    BY <1>4 DEF Heartbeat, BeginPass
  <2>2. \A j \in Job : job'[j].st = job[j].st
    BY <1>0, <2>1 DEF JobsRenewed, JobRow
  <2>3. GoesOn
    BY <1>0, <2>1 DEF RunsFenced, Run
  <2>4. \A q \in Owner, j \in Job : sweep'[q].class[j] # "no" => sweep[q].class[j] # "no"
    <3> DEFINE new == [NoSweep EXCEPT !.lag = lag]
    <3>1. new.class = [j \in Job |-> "no"]
      BY DEF NoSweep
    <3>2. sweep' = sweep \/ sweep' = [sweep EXCEPT ![o] = new]
      BY <1>4 DEF Heartbeat, BeginPass
    <3> HIDE DEF new
    <3> QED
      BY <1>0, <3>1, <3>2
  <2> QED
    BY <2>1, <2>2, <2>3, <2>4, SilentStep
<1>5. CASE ReadExpired(o)
  <2> DEFINE read == [j \in Job |-> Classified(j, sweep[o].lag)]
             new == [lag |-> 0, class |-> read]
  <2>1. UNCHANGED <<job, receipt, ledger, output, run>> /\ sweep' = [sweep EXCEPT ![o] = new]
    BY <1>5 DEF ReadExpired, store
  <2>2. \A j \in Job : new.class[j] # "no" => TurnOf[j] \in ledger
    BY DEF Classified, CrossingInv, RowsAccepted
  <2> HIDE DEF new
  <2>3. \A q \in Owner, j \in Job :
          sweep'[q].class[j] # "no" => sweep[q].class[j] # "no" \/ TurnOf[j] \in ledger
    BY <1>0, <2>1, <2>2
  <2> QED
    BY <2>1, <2>3, SilentStep
<1>6. CASE RequeuePreBoundaryClaims(o)
  <2>1. UNCHANGED <<ledger, output, run, sweep>>
    BY <1>6 DEF RequeuePreBoundaryClaims
  <2>2. ASSUME NEW j \in Job
        PROVE  \/ job'[j] = job[j] /\ receipt'[j] = receipt[j]
               \/ /\ job[j].st = "running" /\ job'[j].st = "queued" /\ PreBoundary(j)
                  /\ \A e \in Effect : receipt'[j][e] = NoReceipt
    BY <1>6 DEF RequeuePreBoundaryClaims, Released, Unleased
  <2>3. NoReceipt.st = "none"
    BY DEF NoReceipt
  <2>4. \A j \in Job, e \in Effect :
          receipt'[j][e].st = "applied" <=> receipt[j][e].st = "applied"
    BY <2>2, <2>3 DEF PreBoundary
  <2>5. \A j \in Job : /\ job'[j].st # "absent" => job[j].st # "absent"
                       /\ job'[j].st \in {"succeeded", "failed"} => job'[j].st = job[j].st
    BY <2>2
  <2> QED
    BY <2>1, <2>4, <2>5, SilentStep
<1>7. CASE PurgeTerminal(o)
  <2>1. PICK j \in Job :
           /\ job' = [job EXCEPT ![j] = AbsentRow]
           /\ receipt' = [receipt EXCEPT ![j] = [e \in Effect |-> NoReceipt]]
           /\ UNCHANGED <<ledger, output, run, sweep>>
    BY <1>7 DEF PurgeTerminal
  <2>2. AbsentRow.st = "absent"
    BY DEF AbsentRow
  <2>3. job'[j].st = "absent" /\ \A k \in Job : k # j => job'[k] = job[k] /\ receipt'[k] = receipt[k]
    BY <1>0, <2>1, <2>2
  <2>4. \A k \in Job : /\ job'[k].st # "absent" => job[k].st # "absent" /\ receipt'[k] = receipt[k]
                       /\ job'[k].st \in {"succeeded", "failed"} => job'[k].st = job[k].st
    BY <2>3
  <2> QED
    BY <2>1, <2>4, SilentStep
<1> QED
  BY <1>1, <1>2, <1>3, <1>4, <1>5, <1>6, <1>7, RecoverRecords, ClaimRecords DEF Supervise

LEMMA NextRecords == TInv /\ CrossingInv /\ RecordInv /\ [Next]_vars => RecordInv'
<1> SUFFICES ASSUME TInv, CrossingInv, RecordInv, [Next]_vars PROVE RecordInv'
  OBVIOUS
<1>0. job \in [Job -> JobRow]
  BY DEF TInv, TypeOK
<1>1. CASE UNCHANGED vars
  BY <1>1, SilentStep DEF vars
<1>2. ASSUME NEW j \in Job, NEW lag \in Lags, Retire(j, lag) PROVE RecordInv'
  <2>1. job[j].st # "absent" /\ Released(job[j], "stale_discarded", 0).st = "stale_discarded"
    BY <1>2 DEF Retire, Runnable, Released, Unleased
  <2>2. \A k \in Job : /\ job'[k].st # "absent" => job[k].st # "absent"
                       /\ job'[k].st \in {"succeeded", "failed"} => job'[k].st = job[k].st
    BY <1>0, <1>2, <2>1 DEF Retire
  <2> QED
    BY <1>2, <2>2, SilentStep DEF Retire
<1>3. CASE Foreground
  <2>1. UNCHANGED <<job, receipt, ledger, output, run, sweep>>
    BY <1>3 DEF Foreground, BeginForeground, RenewForeground, RenewForegroundFails,
       InsertForeground, DeleteForeground, InsertForegroundFails, EndForeground,
       DeleteForegroundFails, store
  <2> QED
    BY <2>1, SilentStep
<1>4. CASE Tick
  <2>1. \A j \in Job : job'[j].st = job[j].st
    BY <1>0, <1>4 DEF Tick, JobRow
  <2> QED
    BY <1>4, <2>1, SilentStep DEF Tick
<1> QED
  BY <1>1, <1>2, <1>3, <1>4, EnqueueRecords, SuperviseRecords, WorkRecords DEF Next, Store

LEMMA InitRecords == Init => RecordInv
<1> SUFFICES ASSUME Init PROVE RecordInv
  OBVIOUS
<1>1. \A e \in Effect : ~(e < 1)
  BY BoundsAssumption DEF Effect
<1>2. RunsAreSound
  BY <1>1 DEF Init, RunsAreSound, RunIsSound, Idle, InEffect
<1>3. SweptAccepted /\ SilentBefore /\ SucceededIsApplied /\ OutputIsTruthful
  BY DEF Init, SweptAccepted, SilentBefore, SucceededIsApplied, OutputIsTruthful, NoSweep, AbsentRow
<1> QED
  BY <1>2, <1>3 DEF RecordInv

LEMMA RecordsAreTrue == Spec => [](EffectInv /\ RecordInv)
<1>1. Init => EffectInv
  BY InitTInv, InitCrossing DEF EffectInv
<1>2. EffectInv /\ RecordInv /\ [Next]_vars => (EffectInv /\ RecordInv)'
  BY NextTInv, NextCrossingInv, NextRecords DEF EffectInv
<1> QED
  BY <1>1, <1>2, InitRecords, PTL DEF Spec

\* A job recorded as succeeded has applied every effect of its handler, however
\* many claims, crashes and recoveries it took (executeClaim, complete).
THEOREM SuccessIsWhole == Spec => []SucceededIsApplied
<1>1. RecordInv => SucceededIsApplied
  BY DEF RecordInv
<1> QED
  BY <1>1, RecordsAreTrue, PTL

\* The output status of a turn is applied exactly when its memory job has applied
\* an effect, and is there once that job has failed (completeEffect, failOrRetry,
\* markClaimTerminal, recoverExpired).
THEOREM StatusIsTrue == Spec => []OutputIsTruthful
<1>1. RecordInv => OutputIsTruthful
  BY DEF RecordInv
<1> QED
  BY <1>1, RecordsAreTrue, PTL
=============================================================================
