--------------------------- MODULE BackgroundWork ---------------------------
(***************************************************************************)
(* The durable background-work lane of the agent: the PostgreSQL job store *)
(* (persistence/postgres/background-work-store.ts) and the supervisors     *)
(* that claim its jobs and run their effects                               *)
(* (core/agent/background-work/supervisor.ts).                             *)
(*                                                                         *)
(* A store call is one step when one row lock or one statement makes it    *)
(* atomic.  beginEffect and commitEffectBoundary are not: they read the    *)
(* job row in one statement and write a receipt in a later one, under the  *)
(* session's advisory lock.  Nor is recoverExpired, which takes no lock:   *)
(* one statement deletes receipts, the next one reads the expired rows and *)
(* updates what those rows have become by the time it reaches them.  Each  *)
(* of the three is several steps here.                                     *)
(*                                                                         *)
(* Time: a lease or a back-off is the number of ticks that are left of it, *)
(* (expires_at_ms - now).  A caller reads its clock before its call        *)
(* reaches the database, so it may be up to MaxLag ticks behind: a lease   *)
(* with d ticks left is expired for a caller that lags by g when           *)
(* d + g <= 0.                                                             *)
(***************************************************************************)
EXTENDS Integers, FiniteSets

CONSTANTS
    Owner,          \* lease owners: one per supervisor process, never reused
    Job,            \* job ids
    Turn,           \* source turns, the unit of an enqueue batch
    Session,        \* logical sessions
    Lease,          \* foreground lease ids, one per foreground turn
    SessionOf,      \* [Job -> Session]
    TurnOf,         \* [Job -> Turn]
    KindOf,         \* [Job -> Kind]
    CreatedAt,      \* [Job -> Nat], created_at_ms, the supersession order
    IdRank,         \* [Job -> Nat], the order of job ids, which breaks its ties
    MaxEffects,     \* effect keys are numbered 1 .. MaxEffects
    NumEffects,     \* [Job -> 0 .. MaxEffects], the effects its handler runs in turn
    LeaseSession,   \* [Lease -> Session]
    MaxAttempts,    \* max_attempts of a job
    ExpiryLimit,    \* BACKGROUND_WORK_LEASE_EXPIRY_LIMIT
    MaxConcurrent,  \* maxConcurrentSessions of a supervisor
    LeaseTicks,     \* leaseDurationMs
    DelayTicks,     \* every back-off and deferral delay
    HandlerErrors,  \* the failures the handlers are given to raise
    MaxLag,         \* bound: how far a caller's clock reading may be behind
    MaxRev,         \* bound: revision at which a job is no longer claimed
    MaxUp,          \* bound: supervisors that live at the same time
    MaxDepartures   \* bound: supervisors that crash or stop

VARIABLES
    job,        \* agent_background_work_jobs
    receipt,    \* agent_background_work_effect_receipts
    ledger,     \* agent_background_work_handoffs: turns accepted for good
    output,     \* agent_turn_subsystem_output_status, per turn
    fg,         \* agent_background_work_foreground_leases and their holders
    sup,        \* life of each supervisor process
    pass,       \* where each supervisor is in its claim pass
    sweep,      \* the clock reading of a recoverExpired in flight, and what it read
    drop,       \* the pending receipts it has deleted but not committed
    run,        \* the claims each supervisor is executing
    crossings   \* ghost: the claim tokens that crossed an effect's boundary

store == <<job, receipt, ledger, output>>
vars  == <<job, receipt, ledger, output, fg, sup, pass, sweep, drop, run, crossings>>

Kind     == {"memory_extraction", "intention_post_turn_hooks",
             "emotion_appraisal", "auto_compaction"}
Runnable == {"queued", "deferred", "retry_wait"}
Terminal == {"succeeded", "failed", "stale_discarded"}
JobState == {"absent", "running"} \cup Runnable \cup Terminal

\* What a handler or its environment may make an execution end with.
Errors == {"malformed", "preempted", "source_not_ready", "handler_failed",
           "permanent", "stale", "other"}

Effect == 1 .. MaxEffects
NoOwner == "nobody"
Lags == 0 .. MaxLag

ASSUME BoundsAssumption ==
    /\ MaxAttempts \in Nat \ {0} /\ ExpiryLimit \in Nat \ {0}
    /\ LeaseTicks \in Nat \ {0} /\ DelayTicks \in Nat
    /\ MaxLag \in Nat /\ MaxRev \in Nat /\ MaxEffects \in Nat
    /\ MaxConcurrent \in Nat /\ MaxUp \in Nat /\ MaxDepartures \in Nat

ASSUME JobsAssumption ==
    /\ SessionOf \in [Job -> Session]
    /\ TurnOf \in [Job -> Turn]
    /\ KindOf \in [Job -> Kind]
    /\ CreatedAt \in [Job -> Nat] /\ IdRank \in [Job -> Nat]
    /\ \A j, k \in Job : IdRank[j] = IdRank[k] => j = k
    /\ NumEffects \in [Job -> 0 .. MaxEffects]
    /\ LeaseSession \in [Lease -> Session]
    /\ HandlerErrors \subseteq Errors
    /\ NoOwner \notin Owner

\* createBackgroundWorkIdentity: a job's id is made of its session, turn and kind.
ASSUME IdentityAssumption ==
    \A j, k \in Job : TurnOf[j] = TurnOf[k] /\ KindOf[j] = KindOf[k] => j = k

Token == [owner : Owner \cup {NoOwner}, rev : Nat]
JobRow == [st : JobState, owner : Owner \cup {NoOwner}, rev : Nat,
           leaseLeft : Int, availLeft : Int,
           attempts : 0 .. MaxAttempts, expiries : Nat]
Receipt == [st : {"none", "pending", "started", "applied"}, token : Token]
Run == [pc : {"idle", "claimed", "ready", "checked", "opening", "reading", "open",
              "crossing", "promoting", "crossed", "operated", "settle"},
        rev : Nat, eff : Nat, fence : {"ok", "stopped", "lost"},
        err : Errors \cup {"none", "done", "busy", "unknown"}]
ForegroundLease == [st : {"unused", "starting", "active", "lost", "ending", "gone"},
                    owner : Owner \cup {NoOwner}, row : BOOLEAN, left : Int]

NoToken   == [owner |-> NoOwner, rev |-> 0]
AbsentRow == [st |-> "absent", owner |-> NoOwner, rev |-> 0, leaseLeft |-> 0,
              availLeft |-> 0, attempts |-> 0, expiries |-> 0]
NoReceipt == [st |-> "none", token |-> NoToken]
Idle      == [pc |-> "idle", rev |-> 0, eff |-> 1, fence |-> "ok", err |-> "none"]
NoSweep   == [lag |-> 0, class |-> [j \in Job |-> "no"]]
UnusedLease == [st |-> "unused", owner |-> NoOwner, row |-> FALSE, left |-> 0]

Init ==
    /\ job       = [j \in Job |-> AbsentRow]
    /\ receipt   = [j \in Job |-> [e \in Effect |-> NoReceipt]]
    /\ ledger    = {}
    /\ output    = [t \in Turn |-> "none"]
    /\ fg        = [l \in Lease |-> UnusedLease]
    /\ sup       = [o \in Owner |-> "down"]
    /\ pass      = [o \in Owner |-> "idle"]
    /\ sweep     = [o \in Owner |-> NoSweep]
    /\ drop      = [o \in Owner |-> {}]
    /\ run       = [o \in Owner |-> [j \in Job |-> Idle]]
    /\ crossings = [j \in Job |-> [e \in Effect |-> {}]]

-----------------------------------------------------------------------------
(* Queries shared by the store's statements. *)

Expired(j, lag) == job[j].leaseLeft + lag <= 0

\* The advisory lock of a session is held by the transactions that are
\* between their fence and their receipt write.
SessionLocked(s) ==
    \E o \in Owner, j \in Job :
        SessionOf[j] = s /\ run[o][j].pc \in {"opening", "reading", "promoting"}

\* An unexpired foreground lease row of the session.
ForegroundLive(s, lag) ==
    \E l \in Lease : LeaseSession[l] = s /\ fg[l].row /\ fg[l].left + lag > 0

\* The supervisor's own foregroundCounts, raised before the row is inserted.
ForegroundLocal(o, s) ==
    \E l \in Lease : /\ LeaseSession[l] = s /\ fg[l].owner = o
                     /\ fg[l].st \in {"starting", "active", "lost"}

\* A receipt that a recoverExpired in flight has deleted is row-locked: every
\* other writer of it waits for that transaction's end.
ReceiptLocked(j, e) == \E o \in Owner : <<j, e>> \in drop[o]

TokenOf(o, j) == [owner |-> o, rev |-> run[o][j].rev]

OwnsClaim(o, j) ==
    job[j].st = "running" /\ job[j].owner = o /\ job[j].rev = run[o][j].rev

\* The receipt of the current effect bears the worker's own claim token.
OwnsReceipt(o, j) == receipt[j][run[o][j].eff].token = TokenOf(o, j)

\* The claim fence of checkClaimFence, beginEffect and commitEffectBoundary.
Disposition(o, j, lag) ==
    IF ~OwnsClaim(o, j) \/ Expired(j, lag) THEN "lease_lost"
    ELSE IF KindOf[j] = "auto_compaction" /\ ForegroundLive(SessionOf[j], lag)
    THEN "foreground_active" ELSE "owned"

Projects(j) == KindOf[j] = "memory_extraction"

\* Mutant of Released: the lease columns survive.
ReleasedKeepingOwner(row, st, delay) ==
    [row EXCEPT !.st = st, !.availLeft = delay, !.rev = row.rev + 1]

\* A row leaves running: the lease columns are cleared, the revision moves.
Unleased(row, st, delay, attempts, expiries) ==
    [st |-> st, owner |-> NoOwner, rev |-> row.rev + 1, leaseLeft |-> 0,
     availLeft |-> delay, attempts |-> attempts, expiries |-> expiries]
Released(row, st, delay) == Unleased(row, st, delay, row.attempts, row.expiries)

\* Mutant of FirstStatus: the status is upserted.
LastStatus(incumbent, status) == status

\* recordTerminalSubsystemProjection: the first status of a turn stays.
Conflicts(incumbent, status) == incumbent \notin {"none", "applied", status}
FirstStatus(incumbent, status) == IF incumbent = "none" THEN status ELSE incumbent

SetRun(o, j, r) == run' = [run EXCEPT ![o][j] = r]
Moves(o, j, pc) == SetRun(o, j, [run[o][j] EXCEPT !.pc = pc])
Raises(o, j, err) == SetRun(o, j, [run[o][j] EXCEPT !.pc = "settle", !.err = err])
Leaves(o, j) == SetRun(o, j, Idle)

\* The receipt of the worker's current effect, under its own claim token.
SetReceipt(o, j, st) ==
    receipt' = [receipt EXCEPT ![j][run[o][j].eff] = [st |-> st, token |-> TokenOf(o, j)]]

\* abandonEffect: only a pending receipt of a live claim is deleted.
AbandonEffect(o, j, lag) ==
    LET e == run[o][j].eff
        found == /\ receipt[j][e].st = "pending" /\ receipt[j][e].token = TokenOf(o, j)
                 /\ OwnsClaim(o, j) /\ ~Expired(j, lag)
    IN /\ found => ~ReceiptLocked(j, e)
       /\ receipt' = IF found THEN [receipt EXCEPT ![j][e] = NoReceipt] ELSE receipt

-----------------------------------------------------------------------------
(* Admission: enqueueBatch and recoverBatch, purge, operator retirement. *)

\* k supersedes j: it was created later, or in the same millisecond under a greater id.
Newer(k, j) == \/ CreatedAt[k] > CreatedAt[j]
               \/ CreatedAt[k] = CreatedAt[j] /\ IdRank[k] > IdRank[j]

\* Another compaction of the session is newer than j, in whatever state it is.
NewerCompaction(j) ==
    \E k \in Job : /\ k # j /\ job[k].st # "absent"
                   /\ KindOf[k] = "auto_compaction" /\ SessionOf[k] = SessionOf[j]
                   /\ Newer(k, j)

\* An enqueued compaction makes every older one that is not running stale.
SupersededBy(k, turn) ==
    /\ job[k].st \in Runnable /\ KindOf[k] = "auto_compaction"
    /\ \E j \in Job : /\ TurnOf[j] = turn /\ KindOf[j] = "auto_compaction"
                      /\ SessionOf[j] = SessionOf[k]
                      /\ Newer(j, k) /\ ~NewerCompaction(j)

EnqueuedRow(j) ==
    IF KindOf[j] = "auto_compaction" /\ NewerCompaction(j)
    THEN [AbsentRow EXCEPT !.st = "stale_discarded", !.rev = 2]
    ELSE [AbsentRow EXCEPT !.st = "queued", !.rev = 1]

\* The turn's ledger row decides: a replay of an accepted turn finds its jobs
\* (deduplicated) or finds them purged (already_accepted) and inserts nothing.
Enqueue(turn) ==
    /\ \A j \in Job : TurnOf[j] = turn => ~SessionLocked(SessionOf[j])
    /\ turn \notin ledger
    /\ ledger' = ledger \cup {turn}
    /\ job' = [k \in Job |->
                 IF TurnOf[k] = turn /\ job[k].st = "absent" THEN EnqueuedRow(k)
                 ELSE IF SupersededBy(k, turn) THEN Released(job[k], "stale_discarded", 0)
                 ELSE job[k]]
    /\ UNCHANGED <<receipt, output, fg, sup, pass, sweep, drop, run, crossings>>

\* A terminal row past its retention goes, and its receipts cascade with it.
\* The retention may be any length, so any terminal row may be the one.
PurgeTerminal(o) ==
    /\ pass[o] = "claiming"
    /\ \E j \in Job :
         /\ job[j].st \in Terminal /\ \A e \in Effect : ~ReceiptLocked(j, e)
         /\ job' = [job EXCEPT ![j] = AbsentRow]
         /\ receipt' = [receipt EXCEPT ![j] = [e \in Effect |-> NoReceipt]]
    /\ UNCHANGED <<ledger, output, fg, sup, pass, sweep, drop, run, crossings>>

\* The operator retires a job nobody holds: it writes no output status.
Retire(j, lag) ==
    /\ job[j].st \in Runnable \/ (job[j].st = "running" /\ Expired(j, lag))
    /\ job' = [job EXCEPT ![j] = Released(job[j], "stale_discarded", 0)]
    /\ UNCHANGED <<receipt, ledger, output, fg, sup, pass, sweep, drop, run, crossings>>

-----------------------------------------------------------------------------
(* Life of a supervisor process. *)

Alive(o) == sup[o] \in {"up", "stopping"}
Departed == {o \in Owner : sup[o] \in {"stopping", "dead"}}

Start(o) ==
    /\ sup[o] = "down" /\ Cardinality({p \in Owner : Alive(p)}) < MaxUp
    /\ sup' = [sup EXCEPT ![o] = "up"]
    /\ UNCHANGED <<job, receipt, ledger, output, fg, pass, sweep, drop, run, crossings>>

\* stop(): no new claims, and every claim in flight is signalled.
BeginStop(o) ==
    /\ sup[o] = "up" /\ Cardinality(Departed) < MaxDepartures
    /\ sup' = [sup EXCEPT ![o] = "stopping"]
    /\ run' = [run EXCEPT ![o] = [j \in Job |->
                 IF @[j].pc # "idle" /\ @[j].fence = "ok"
                 THEN [@[j] EXCEPT !.fence = "stopped"] ELSE @[j]]]
    /\ UNCHANGED <<job, receipt, ledger, output, fg, pass, sweep, drop, crossings>>

PreBoundary(j) == \A e \in Effect : receipt[j][e].st \notin {"started", "applied"}

\* The shutdown sweep: this owner's claims that crossed no boundary go back to
\* the queue, under the lock of each of their sessions.  It runs when the
\* claims settled or when the shutdown timeout fires, so at any moment.
RequeuePreBoundaryClaims(o) ==
    LET Back == {j \in Job : /\ job[j].st = "running" /\ job[j].owner = o
                             /\ PreBoundary(j)}
    IN /\ sup[o] = "stopping" /\ pass[o] = "idle" /\ Back # {}
       /\ \A j \in Back : /\ ~SessionLocked(SessionOf[j])
                          /\ \A e \in Effect : ~ReceiptLocked(j, e)
       /\ job' = [j \in Job |-> IF j \in Back THEN Released(job[j], "queued", 0) ELSE job[j]]
       /\ receipt' = [j \in Job |-> IF j \in Back THEN [e \in Effect |-> NoReceipt]
                                    ELSE receipt[j]]
       /\ UNCHANGED <<ledger, output, fg, sup, pass, sweep, drop, run, crossings>>

EndSweep(o) ==
    /\ sweep' = [sweep EXCEPT ![o] = NoSweep]
    /\ drop' = [drop EXCEPT ![o] = {}]

\* The process ends, by a crash or after its stop: everything local is gone.
Die(o) ==
    /\ \/ sup[o] = "up" /\ Cardinality(Departed) < MaxDepartures
       \/ sup[o] = "stopping"
    /\ sup' = [sup EXCEPT ![o] = "dead"]
    /\ run' = [run EXCEPT ![o] = [j \in Job |-> Idle]]
    /\ pass' = [pass EXCEPT ![o] = "idle"]
    /\ EndSweep(o)
    /\ fg' = [l \in Lease |-> IF fg[l].owner = o THEN [fg[l] EXCEPT !.st = "gone"]
                              ELSE fg[l]]
    /\ UNCHANGED <<job, receipt, ledger, output, crossings>>

-----------------------------------------------------------------------------
(* Heartbeat and the claim pass of a supervisor (runTick). *)

Renewed(o, j) == run[o][j].pc # "idle" /\ job[j].st = "running" /\ job[j].owner = o

\* renewClaims extends a claim even past its expiry; a claim it does not find
\* is fenced off.
JobsRenewed(o, lag) ==
    [j \in Job |-> IF Renewed(o, j) THEN [job[j] EXCEPT !.leaseLeft = LeaseTicks - lag]
                   ELSE job[j]]
RunsFenced(o) ==
    [run EXCEPT ![o] = [j \in Job |->
        IF @[j].pc # "idle" /\ ~Renewed(o, j) THEN [@[j] EXCEPT !.fence = "lost"] ELSE @[j]]]

Heartbeat(o, lag) ==
    /\ Alive(o)
    /\ \E j \in Job : run[o][j].pc # "idle"
    /\ job' = JobsRenewed(o, lag)
    /\ run' = RunsFenced(o)
    /\ UNCHANGED <<receipt, ledger, output, fg, sup, pass, sweep, drop, crossings>>

\* The renewal itself fails: every claim of the supervisor counts as lost.
HeartbeatFails(o) ==
    /\ Alive(o)
    /\ \E j \in Job : run[o][j].pc # "idle" /\ run[o][j].fence # "lost"
    /\ run' = [run EXCEPT ![o] = [j \in Job |->
                 IF @[j].pc # "idle" THEN [@[j] EXCEPT !.fence = "lost"] ELSE @[j]]]
    /\ UNCHANGED <<job, receipt, ledger, output, fg, sup, pass, sweep, drop, crossings>>

\* A pass starts with a heartbeat and the first statement of recoverExpired: the
\* pending receipts of the rows that are expired at this clock reading go.
BeginPass(o, lag) ==
    LET Gone == {j \in Job : /\ job[j].st = "running" /\ Expired(j, lag)
                             /\ ~Renewed(o, j)}
        Pending == {p \in Gone \X Effect : receipt[p[1]][p[2]].st = "pending"}
    IN /\ sup[o] = "up" /\ pass[o] = "idle"
       /\ \A p \in Pending : ~ReceiptLocked(p[1], p[2])
       /\ job' = JobsRenewed(o, lag)
       /\ run' = RunsFenced(o)
       /\ sweep' = [sweep EXCEPT ![o] = [NoSweep EXCEPT !.lag = lag]]
       /\ drop' = [drop EXCEPT ![o] = Pending]
       /\ pass' = [pass EXCEPT ![o] = "dropping"]
       /\ UNCHANGED <<receipt, ledger, output, fg, sup, crossings>>

\* What the second statement reads of a row: nothing, that its effect boundary
\* was crossed, that its expiry budget ends with this expiry, or neither.
Classified(j, lag) ==
    IF job[j].st # "running" \/ ~Expired(j, lag) THEN "no"
    ELSE IF \E e \in Effect : receipt[j][e].st = "started" THEN "crossed"
    ELSE IF job[j].expiries + 1 >= ExpiryLimit THEN "last" ELSE "pre"

\* The snapshot of the second statement, at the same clock reading.
ReadExpired(o) ==
    LET read == [j \in Job |-> Classified(j, sweep[o].lag)]
    IN /\ pass[o] = "dropping"
       /\ sweep' = [sweep EXCEPT ![o] = [lag |-> 0, class |-> read]]
       /\ pass' = [pass EXCEPT ![o] =
                     IF drop[o] = {} /\ \A j \in Job : read[j] = "no"
                     THEN "claiming" ELSE "sweeping"]
       /\ UNCHANGED <<store, fg, sup, drop, run, crossings>>

\* Mutant of RecoveredRow: an expiry costs nothing.
RecoveredUncounted(j, class) ==
    Unleased(job[j], IF class = "pre" THEN "retry_wait" ELSE "failed", 0,
             job[j].attempts + (IF class = "crossed" THEN 1 ELSE 0),
             job[j].expiries)

\* The update joins the rows it read by id alone, so it applies to the row as
\* it is by now, whatever became of it meanwhile.
RecoveredRow(j, class) ==
    Unleased(job[j], IF class = "pre" THEN "retry_wait" ELSE "failed", 0,
             job[j].attempts + (IF class = "crossed" THEN 1 ELSE 0),
             job[j].expiries + 1)

RecoveredStatus(class) == IF class = "crossed" THEN "outcome_unknown" ELSE "failed"

\* The second statement writes, and recoverExpired commits.  A terminal status
\* that contradicts the recorded one, or an attempt count past its limit, makes
\* it fail instead.
RecoverExpired(o) ==
    LET class == sweep[o].class
        Hit == {j \in Job : class[j] # "no" /\ job[j].st # "absent"}
        Told == {j \in Job : Projects(j) /\ (class[j] = "crossed"
                                             \/ (class[j] = "last" /\ j \in Hit))}
    IN /\ pass[o] = "sweeping"
       /\ \A j \in Told : class[j] = "last" => ~Conflicts(output[TurnOf[j]], "failed")
       /\ \A j \in Hit : RecoveredRow(j, class[j]).attempts <= MaxAttempts
       /\ pass' = [pass EXCEPT ![o] = "claiming"]
       /\ job' = [j \in Job |-> IF j \in Hit THEN RecoveredRow(j, class[j]) ELSE job[j]]
       /\ receipt' = [j \in Job |-> [e \in Effect |->
                        IF <<j, e>> \in drop[o] THEN NoReceipt ELSE receipt[j][e]]]
       /\ output' = [t \in Turn |->
            IF \E j \in Told : TurnOf[j] = t
            THEN FirstStatus(output[t],
                   RecoveredStatus(class[CHOOSE j \in Told : TurnOf[j] = t]))
            ELSE output[t]]
       /\ EndSweep(o)
       /\ UNCHANGED <<ledger, fg, sup, run, crossings>>

\* recoverExpired fails, for any reason of its own or of the database: its
\* transaction is rolled back and the pass ends.
RecoverExpiredFails(o) ==
    /\ pass[o] = "sweeping"
    /\ pass' = [pass EXCEPT ![o] = "idle"]
    /\ EndSweep(o)
    /\ UNCHANGED <<store, fg, sup, run, crossings>>

Busy(o) == {j \in Job : run[o][j].pc # "idle"}

\* claimNext's conditions on a row, without welfare admission.
Claimable(o, j, lag) ==
    /\ job[j].st \in Runnable /\ job[j].availLeft + lag <= 0
    /\ \A k \in Job : SessionOf[k] = SessionOf[j] => job[k].st # "running"
    /\ \A k \in Busy(o) : SessionOf[k] # SessionOf[j]
    /\ KindOf[j] = "auto_compaction" =>
         ~ForegroundLocal(o, SessionOf[j]) /\ ~ForegroundLive(SessionOf[j], lag)

LeasedRow(o, j, left) ==
    [st |-> "running", owner |-> o, rev |-> job[j].rev + 1, leaseLeft |-> left,
     availLeft |-> 0, attempts |-> job[j].attempts, expiries |-> job[j].expiries]

\* The order in which claimNext tries the candidates is left open here.  The
\* loop tests stopping before it awaits claimNext, so a claim may still land
\* after stop() began.
ClaimNext(o, j, lag) ==
    /\ Alive(o) /\ pass[o] = "claiming"
    /\ Cardinality(Busy(o)) < MaxConcurrent
    /\ Claimable(o, j, lag) /\ ~SessionLocked(SessionOf[j])
    /\ job[j].rev < MaxRev
    /\ job' = [job EXCEPT ![j] = LeasedRow(o, j, LeaseTicks - lag)]
    /\ SetRun(o, j, [Idle EXCEPT !.pc = "claimed", !.rev = job[j].rev + 1])
    /\ fg' = [l \in Lease |->
                IF LeaseSession[l] = SessionOf[j] /\ fg[l].row /\ fg[l].left + lag <= 0
                THEN [fg[l] EXCEPT !.row = FALSE, !.left = 0] ELSE fg[l]]
    /\ UNCHANGED <<receipt, ledger, output, sup, pass, sweep, drop, crossings>>

\* The pass ends when claimNext finds nothing it can lock, or there is no room.
EndPass(o) ==
    /\ pass[o] = "claiming"
    /\ \/ sup[o] = "stopping"
       \/ Cardinality(Busy(o)) >= MaxConcurrent
       \/ \E lag \in Lags : \A j \in Job :
            Claimable(o, j, lag) => SessionLocked(SessionOf[j]) \/ job[j].rev >= MaxRev
    /\ pass' = [pass EXCEPT ![o] = "idle"]
    /\ UNCHANGED <<job, receipt, ledger, output, fg, sup, sweep, drop, run, crossings>>

-----------------------------------------------------------------------------
(* Execution of one claim: executeClaim, its handler and its effect runner. *)

ExecuteClaim(o, j) ==
    /\ run[o][j].pc = "claimed"
    /\ \/ /\ KindOf[j] = "auto_compaction" /\ ForegroundLocal(o, SessionOf[j])
          /\ Raises(o, j, "busy")
       \/ /\ ~(KindOf[j] = "auto_compaction" /\ ForegroundLocal(o, SessionOf[j]))
          /\ "malformed" \in HandlerErrors
          /\ Raises(o, j, "malformed")
       \/ /\ ~(KindOf[j] = "auto_compaction" /\ ForegroundLocal(o, SessionOf[j]))
          /\ Moves(o, j, "ready")
    /\ UNCHANGED <<store, fg, sup, pass, sweep, drop, crossings>>

\* The head of effects.run, assertEffectAllowed included.  A claim that a
\* shutdown interrupts here keeps its row for the shutdown sweep.
CheckEffect(o, j, lag) ==
    /\ run[o][j].pc = "ready" /\ run[o][j].eff <= NumEffects[j]
    /\ \/ /\ sup[o] = "stopping" \/ run[o][j].fence = "lost"
                                 \/ Disposition(o, j, lag) = "lease_lost"
          /\ Leaves(o, j)
       \/ /\ sup[o] = "up" /\ run[o][j].fence # "lost"
          /\ Disposition(o, j, lag) = "foreground_active"
          /\ Raises(o, j, "preempted")
       \/ /\ sup[o] = "up" /\ run[o][j].fence # "lost"
          /\ Disposition(o, j, lag) = "owned"
          /\ Moves(o, j, "checked")
    /\ UNCHANGED <<store, fg, sup, pass, sweep, drop, crossings>>

\* beginEffect, first statement: the fence, under the session's lock.
BeginEffectFence(o, j, lag) ==
    /\ run[o][j].pc = "checked" /\ ~SessionLocked(SessionOf[j])
    /\ \/ Disposition(o, j, lag) = "lease_lost" /\ Leaves(o, j)
       \/ Disposition(o, j, lag) = "foreground_active" /\ Raises(o, j, "preempted")
       \/ Disposition(o, j, lag) = "owned" /\ Moves(o, j, "opening")
    /\ UNCHANGED <<store, fg, sup, pass, sweep, drop, crossings>>

\* beginEffect, second statement: insert the receipt, or find one there.  The
\* insert of a receipt whose job was purged violates its foreign key.
BeginEffect(o, j) ==
    LET e == run[o][j].eff
    IN /\ run[o][j].pc = "opening"
       /\ ~ReceiptLocked(j, e)
       /\ \/ /\ job[j].st = "absent"
             /\ Raises(o, j, "other") /\ UNCHANGED receipt
          \/ /\ job[j].st # "absent" /\ receipt[j][e].st = "none"
             /\ SetReceipt(o, j, "pending") /\ Moves(o, j, "open")
          \/ /\ receipt[j][e].st # "none"
             /\ Moves(o, j, "reading") /\ UNCHANGED receipt
       /\ UNCHANGED <<job, ledger, output, fg, sup, pass, sweep, drop, crossings>>

\* Mutant of ReadIncumbent: a started receipt is re-taken like a pending one.
ReadIncumbentRetakes(o, j) ==
    LET e == run[o][j].eff
        st == receipt[j][e].st
    IN /\ run[o][j].pc = "reading" /\ ~ReceiptLocked(j, e)
       /\ \/ /\ st = "applied"
             /\ SetRun(o, j, [run[o][j] EXCEPT !.pc = "ready", !.eff = e + 1])
             /\ UNCHANGED receipt
          \/ /\ st \in {"pending", "started"}
             /\ SetReceipt(o, j, st)
             /\ Moves(o, j, "open")
       /\ UNCHANGED <<job, ledger, output, fg, sup, pass, sweep, drop, crossings>>

\* Mutant of ReadIncumbent: an effect somebody started counts as applied.
ReadIncumbentSkips(o, j) ==
    LET e == run[o][j].eff
        st == receipt[j][e].st
    IN /\ run[o][j].pc = "reading" /\ ~ReceiptLocked(j, e)
       /\ \/ /\ st \in {"started", "applied"}
             /\ SetRun(o, j, [run[o][j] EXCEPT !.pc = "ready", !.eff = e + 1])
             /\ UNCHANGED receipt
          \/ /\ st = "pending"
             /\ SetReceipt(o, j, "pending") /\ Moves(o, j, "open")
       /\ UNCHANGED <<job, ledger, output, fg, sup, pass, sweep, drop, crossings>>

\* beginEffect, third statement: what the incumbent allows.  A pending one is
\* re-taken, a started one is resumed by its own claim only.
ReadIncumbent(o, j) ==
    LET e == run[o][j].eff
        st == receipt[j][e].st
    IN /\ run[o][j].pc = "reading"
       /\ ~ReceiptLocked(j, e)
       /\ \/ /\ st = "applied"
             /\ SetRun(o, j, [run[o][j] EXCEPT !.pc = "ready", !.eff = e + 1])
             /\ UNCHANGED receipt
          \/ /\ st = "pending"
             /\ SetReceipt(o, j, "pending") /\ Moves(o, j, "open")
          \/ /\ st = "started" /\ OwnsReceipt(o, j)
             /\ Moves(o, j, "open") /\ UNCHANGED receipt
          \/ /\ st = "none" \/ (st = "started" /\ ~OwnsReceipt(o, j))
             /\ Raises(o, j, "unknown") /\ UNCHANGED receipt
       /\ UNCHANGED <<job, ledger, output, fg, sup, pass, sweep, drop, crossings>>

\* crossBoundary, before its store call.
CrossBoundary(o, j, lag) ==
    /\ run[o][j].pc = "open"
    /\ \/ run[o][j].fence = "lost" /\ Leaves(o, j) /\ UNCHANGED receipt
       \/ /\ run[o][j].fence # "lost" /\ sup[o] = "stopping"
          /\ AbandonEffect(o, j, lag) /\ Leaves(o, j)
       \/ /\ run[o][j].fence # "lost" /\ sup[o] = "up"
          /\ Moves(o, j, "crossing") /\ UNCHANGED receipt
    /\ UNCHANGED <<job, ledger, output, fg, sup, pass, sweep, drop, crossings>>

\* commitEffectBoundary, first statement: the fence, under the session's lock.
CommitFence(o, j, lag) ==
    /\ run[o][j].pc = "crossing" /\ ~SessionLocked(SessionOf[j])
    /\ \/ /\ Disposition(o, j, lag) = "lease_lost"
          /\ Leaves(o, j) /\ UNCHANGED receipt
       \/ /\ Disposition(o, j, lag) = "foreground_active"
          /\ AbandonEffect(o, j, lag) /\ Raises(o, j, "preempted")
       \/ /\ Disposition(o, j, lag) = "owned"
          /\ Moves(o, j, "promoting") /\ UNCHANGED receipt
    /\ UNCHANGED <<job, ledger, output, fg, sup, pass, sweep, drop, crossings>>

\* commitEffectBoundary, second statement: pending becomes started for the
\* exact owner and revision.  From here on the handler may write its sink.
CommitEffectBoundary(o, j) ==
    LET e == run[o][j].eff
    IN /\ run[o][j].pc = "promoting"
       /\ ~ReceiptLocked(j, e)
       /\ \/ /\ receipt[j][e].st # "none" /\ OwnsReceipt(o, j)
             /\ SetReceipt(o, j, IF receipt[j][e].st = "applied" THEN "applied" ELSE "started")
             /\ crossings' = [crossings EXCEPT ![j][e] = @ \cup {TokenOf(o, j)}]
             /\ Moves(o, j, "crossed")
          \/ /\ ~(receipt[j][e].st # "none" /\ OwnsReceipt(o, j))
             /\ Leaves(o, j) /\ UNCHANGED <<receipt, crossings>>
       /\ UNCHANGED <<job, ledger, output, fg, sup, pass, sweep, drop>>

\* The operation returns, without a write or after its writes.
OperationReturns(o, j) ==
    /\ run[o][j].pc \in {"open", "crossed"}
    /\ Moves(o, j, "operated")
    /\ UNCHANGED <<store, fg, sup, pass, sweep, drop, crossings>>

\* The handler fails.  Before the boundary the runner abandons the receipt; a
\* failing abandon call replaces the error and leaves the receipt.
HandlerThrows(o, j, err, lag) ==
    /\ run[o][j].pc \in {"ready", "open", "crossed"}
    /\ err \in HandlerErrors \ {"malformed"}
    /\ \/ run[o][j].pc = "open" /\ AbandonEffect(o, j, lag)
       \/ run[o][j].pc # "open" /\ UNCHANGED receipt
       \/ run[o][j].pc = "open" /\ err = "other" /\ UNCHANGED receipt
    /\ Raises(o, j, err)
    /\ UNCHANGED <<job, ledger, output, fg, sup, pass, sweep, drop, crossings>>

\* assertLeaseOwned and completeEffect: the applied receipt and the turn's
\* output status are one transaction, under the job's row lock.  A completion
\* that fails, after assertLeaseOwned found the lease or because the database
\* does, is an ordinary failure of the handler.
CompleteEffect(o, j, lag) ==
    LET e == run[o][j].eff
        held == OwnsClaim(o, j) /\ ~Expired(j, lag)
        valid == /\ receipt[j][e].st \in {"pending", "started"} /\ OwnsReceipt(o, j)
                 /\ ~ReceiptLocked(j, e)
                 /\ Projects(j) => output[TurnOf[j]] \in {"none", "applied"}
    IN /\ run[o][j].pc = "operated"
       /\ \/ /\ run[o][j].fence = "lost" \/ ~held
             /\ Leaves(o, j) /\ UNCHANGED <<receipt, output>>
          \/ /\ run[o][j].fence # "lost"
             /\ Raises(o, j, "other") /\ UNCHANGED <<receipt, output>>
          \/ /\ run[o][j].fence # "lost" /\ held /\ valid
             /\ SetReceipt(o, j, "applied")
             /\ output' = [output EXCEPT ![TurnOf[j]] = IF Projects(j) THEN "applied" ELSE @]
             /\ SetRun(o, j, [run[o][j] EXCEPT !.pc = "ready", !.eff = @ + 1])
       /\ UNCHANGED <<job, ledger, fg, sup, pass, sweep, drop, crossings>>

HandlerReturns(o, j) ==
    /\ run[o][j].pc = "ready" /\ run[o][j].eff > NumEffects[j]
    /\ Raises(o, j, "done")
    /\ UNCHANGED <<store, fg, sup, pass, sweep, drop, crossings>>

\* An execution that unwinds with an error after its own signal fired leaves
\* its row to the shutdown sweep or to lease-expiry recovery.
LeavesRow(o, j) ==
    /\ run[o][j].err \notin {"done", "busy", "malformed"}
    /\ \/ run[o][j].fence = "lost"
       \/ run[o][j].fence = "stopped" /\ sup[o] = "stopping"

\* failOrRetry: an unresolved projecting effect or the last attempt is final.
UnresolvedProjection(j) ==
    Projects(j) /\ \E e \in Effect : receipt[j][e].st = "started"
FailOrRetryFinal(j) == UnresolvedProjection(j) \/ job[j].attempts + 1 >= MaxAttempts

\* The row a settlement writes, and the output status a terminal one records.
SettledRow(j, err, delay) ==
    CASE err = "done" -> Released(job[j], "succeeded", 0)
      [] err \in {"busy", "preempted"} -> Released(job[j], "deferred", delay)
      [] err = "source_not_ready" -> Released(job[j], "deferred", delay)
      [] err = "stale" -> Released(job[j], "stale_discarded", 0)
      [] err \in {"permanent", "unknown", "malformed"} -> Released(job[j], "failed", 0)
      [] err \in {"handler_failed", "other"} ->
           Unleased(job[j], IF FailOrRetryFinal(j) THEN "failed" ELSE "retry_wait",
                    IF FailOrRetryFinal(j) THEN 0 ELSE delay,
                    job[j].attempts + 1, job[j].expiries)

SettledStatus(j, err) ==
    CASE err = "unknown" -> "outcome_unknown"
      [] err \in {"handler_failed", "other"} /\ UnresolvedProjection(j) -> "outcome_unknown"
      [] OTHER -> "failed"

\* The compare-and-set of every settlement is on state, owner and revision, not
\* on the lease: an expired claim that nobody took may still settle.  A lost
\* compare-and-set, a terminal status that contradicts the recorded one and an
\* attempt count past its limit change nothing.
SettleClaim(o, j, lag) ==
    LET err == run[o][j].err
        row == SettledRow(j, err, DelayTicks - lag)
        tells == Projects(j) /\ row.st \in {"failed", "stale_discarded"}
        status == SettledStatus(j, err)
        writes == /\ ~LeavesRow(o, j) /\ OwnsClaim(o, j) /\ row.attempts <= MaxAttempts
                  /\ ~(tells /\ Conflicts(output[TurnOf[j]], status))
    IN /\ run[o][j].pc = "settle"
       /\ job' = IF writes THEN [job EXCEPT ![j] = row] ELSE job
       /\ output' = IF writes /\ tells
                    THEN [output EXCEPT ![TurnOf[j]] = FirstStatus(@, status)] ELSE output
       /\ Leaves(o, j)
       /\ UNCHANGED <<receipt, ledger, fg, sup, pass, sweep, drop, crossings>>

\* Past its grace period a source that is still not ready fails the job.
SourceGraceEnds(o, j) ==
    /\ run[o][j].pc = "settle" /\ run[o][j].err = "source_not_ready"
    /\ Raises(o, j, "permanent")
    /\ UNCHANGED <<store, fg, sup, pass, sweep, drop, crossings>>

\* The settlement's store call fails: the row stays with its lease.
SettlementLost(o, j) ==
    /\ run[o][j].pc = "settle"
    /\ Leaves(o, j)
    /\ UNCHANGED <<store, fg, sup, pass, sweep, drop, crossings>>

-----------------------------------------------------------------------------
(* Foreground turns: beginForeground, its insert, renewal and release. *)

SetLease(l, rec) == fg' = [fg EXCEPT ![l] = rec]

BeginForeground(o, l) ==
    /\ sup[o] = "up" /\ fg[l].st = "unused"
    /\ SetLease(l, [UnusedLease EXCEPT !.st = "starting", !.owner = o])
    /\ UNCHANGED <<store, sup, pass, sweep, drop, run, crossings>>

\* Mutant of InsertForeground: the insert takes no session lock.
InsertForegroundUnlocked(l, lag) ==
    /\ fg[l].st = "starting"
    /\ SetLease(l, [fg[l] EXCEPT !.st = "active", !.row = TRUE, !.left = LeaseTicks - lag])
    /\ UNCHANGED <<store, sup, pass, sweep, drop, run, crossings>>

InsertForeground(l, lag) ==
    /\ fg[l].st = "starting" /\ ~SessionLocked(LeaseSession[l])
    /\ SetLease(l, [fg[l] EXCEPT !.st = "active", !.row = TRUE, !.left = LeaseTicks - lag])
    /\ UNCHANGED <<store, sup, pass, sweep, drop, run, crossings>>

InsertForegroundFails(l) ==
    /\ fg[l].st = "starting"
    /\ SetLease(l, [fg[l] EXCEPT !.st = "gone"])
    /\ UNCHANGED <<store, sup, pass, sweep, drop, run, crossings>>

\* Every ready row is extended, one that has expired too; the holder of an
\* expired row, or of a row that is gone, has lost its lease for good.
RenewForeground(o, lag) ==
    LET Ready == {l \in Lease : fg[l].owner = o /\ fg[l].st = "active"}
    IN /\ Alive(o) /\ Ready # {}
       /\ \A l \in Ready : ~SessionLocked(LeaseSession[l])
       /\ fg' = [l \in Lease |->
            IF l \notin Ready THEN fg[l]
            ELSE [fg[l] EXCEPT
                    !.st = IF fg[l].row /\ fg[l].left + lag > 0 THEN "active" ELSE "lost",
                    !.left = IF fg[l].row THEN LeaseTicks - lag ELSE 0]]
       /\ UNCHANGED <<store, sup, pass, sweep, drop, run, crossings>>

RenewForegroundFails(o) ==
    LET Ready == {l \in Lease : fg[l].owner = o /\ fg[l].st = "active"}
    IN /\ Alive(o) /\ Ready # {}
       /\ fg' = [l \in Lease |-> IF l \in Ready THEN [fg[l] EXCEPT !.st = "lost"] ELSE fg[l]]
       /\ UNCHANGED <<store, sup, pass, sweep, drop, run, crossings>>

\* endForeground drops the local count first and the row after it.
EndForeground(l) ==
    /\ fg[l].st \in {"active", "lost"}
    /\ SetLease(l, [fg[l] EXCEPT !.st = "ending"])
    /\ UNCHANGED <<store, sup, pass, sweep, drop, run, crossings>>

DeleteForeground(l, lag) ==
    /\ fg[l].st = "ending" /\ ~SessionLocked(LeaseSession[l])
    /\ fg' = [k \in Lease |->
         IF k = l THEN [fg[k] EXCEPT !.st = "gone", !.row = FALSE, !.left = 0]
         ELSE IF LeaseSession[k] = LeaseSession[l] /\ fg[k].row /\ fg[k].left + lag <= 0
         THEN [fg[k] EXCEPT !.row = FALSE, !.left = 0] ELSE fg[k]]
    /\ UNCHANGED <<store, sup, pass, sweep, drop, run, crossings>>

DeleteForegroundFails(l) ==
    /\ fg[l].st = "ending"
    /\ SetLease(l, [fg[l] EXCEPT !.st = "gone"])
    /\ UNCHANGED <<store, sup, pass, sweep, drop, run, crossings>>

-----------------------------------------------------------------------------
Down(left) == IF left > 0 - MaxLag THEN left - 1 ELSE left

\* A tick of time: every lease and every back-off has one less left.  The
\* two statements of a recoverExpired begin within one tick (bound).
Tick ==
    /\ \A o \in Owner : pass[o] # "dropping"
    /\ job' = [j \in Job |->
         CASE job[j].st = "running" -> [job[j] EXCEPT !.leaseLeft = Down(@)]
           [] job[j].st \in Runnable -> [job[j] EXCEPT !.availLeft = Down(@)]
           [] OTHER -> job[j]]
    /\ fg' = [l \in Lease |-> IF fg[l].row THEN [fg[l] EXCEPT !.left = Down(@)] ELSE fg[l]]
    /\ UNCHANGED <<receipt, ledger, output, sup, pass, sweep, drop, run, crossings>>

Store == \/ \E t \in Turn : Enqueue(t)
         \/ \E j \in Job, lag \in Lags : Retire(j, lag)

Supervise(o) ==
    \/ Start(o) \/ BeginStop(o) \/ Die(o)
    \/ RequeuePreBoundaryClaims(o) \/ PurgeTerminal(o)
    \/ HeartbeatFails(o) \/ ReadExpired(o) \/ RecoverExpired(o) \/ RecoverExpiredFails(o) \/ EndPass(o)
    \/ \E lag \in Lags : Heartbeat(o, lag) \/ BeginPass(o, lag)
    \/ \E j \in Job, lag \in Lags : ClaimNext(o, j, lag)

Work(o, j) ==
    \/ ExecuteClaim(o, j) \/ BeginEffect(o, j) \/ ReadIncumbent(o, j) \/ CommitEffectBoundary(o, j)
    \/ OperationReturns(o, j) \/ HandlerReturns(o, j)
    \/ SourceGraceEnds(o, j) \/ SettlementLost(o, j)
    \/ \E lag \in Lags : \/ CheckEffect(o, j, lag) \/ BeginEffectFence(o, j, lag)
                         \/ CrossBoundary(o, j, lag) \/ CommitFence(o, j, lag)
                         \/ CompleteEffect(o, j, lag) \/ SettleClaim(o, j, lag)
    \/ \E lag \in Lags, err \in Errors : HandlerThrows(o, j, err, lag)

Foreground ==
    \/ \E o \in Owner, l \in Lease : BeginForeground(o, l)
    \/ \E o \in Owner, lag \in Lags : RenewForeground(o, lag)
    \/ \E o \in Owner : RenewForegroundFails(o)
    \/ \E l \in Lease, lag \in Lags : InsertForeground(l, lag) \/ DeleteForeground(l, lag)
    \/ \E l \in Lease : \/ InsertForegroundFails(l) \/ EndForeground(l)
                        \/ DeleteForegroundFails(l)

Next == \/ Store \/ Foreground \/ Tick
        \/ \E o \in Owner : Supervise(o)
        \/ \E o \in Owner, j \in Job : Work(o, j)

Spec == Init /\ [][Next]_vars

\* The clock runs, and the bound on Tick does not stop it for ever; a supervisor
\* that is deployed starts and stays on its scheduler's tick, so its passes begin
\* and go on; a process that is being stopped ends; a worker's promise is never left alone by the event loop; and
\* recoverExpired does not fail forever.  Nothing is assumed of heartbeats, of
\* producers or of operators.
Fairness ==
    /\ SF_vars(Tick)
    /\ []<>(\A o \in Owner : pass[o] # "dropping")
    /\ \A o \in Owner :
         /\ WF_vars(Start(o)) /\ WF_vars(Die(o) /\ sup[o] = "stopping")
         /\ WF_vars(ReadExpired(o)) /\ WF_vars(EndPass(o))
         /\ SF_vars(RecoverExpired(o))
         /\ WF_vars(\E lag \in Lags : BeginPass(o, lag))
         /\ WF_vars(\E j \in Job, lag \in Lags : ClaimNext(o, j, lag))
         /\ \A j \in Job : WF_vars(Work(o, j))

FairSpec == Spec /\ Fairness

-----------------------------------------------------------------------------
(* Properties. *)

\* Every variable keeps the shape of the table or the map it stands for, with
\* the table's CHECK constraints: a row has an owner exactly while it is running.
TypeOK ==
    /\ job \in [Job -> JobRow]
    /\ \A j \in Job : job[j].st = "running" <=> job[j].owner # NoOwner
    /\ receipt \in [Job -> [Effect -> Receipt]]
    /\ ledger \subseteq Turn
    /\ output \in [Turn -> {"none", "applied", "failed", "outcome_unknown"}]
    /\ fg \in [Lease -> ForegroundLease]
    /\ sup \in [Owner -> {"down", "up", "stopping", "dead"}]
    /\ pass \in [Owner -> {"idle", "dropping", "sweeping", "claiming"}]
    /\ sweep \in [Owner -> [lag : Lags, class : [Job -> {"no", "pre", "last", "crossed"}]]]
    /\ drop \in [Owner -> SUBSET (Job \X Effect)]
    /\ run \in [Owner -> [Job -> Run]]
    /\ crossings \in [Job -> [Effect -> SUBSET Token]]

\* At most one claim ever crosses the write boundary of an effect, over every
\* retry, lease expiry, shutdown requeue, crash, purge and replayed enqueue: no
\* sink is written by two executions (the receipt protocol of beginEffect,
\* commitEffectBoundary, abandonEffect and recoverExpired).
EffectCrossedOnce ==
    \A j \in Job, e \in Effect : \A s, t \in crossings[j][e] : s = t

\* A job that is recorded as succeeded has applied every effect of its handler,
\* although several claims may have shared the work (executeClaim, complete).
SucceededIsApplied ==
    \A j \in Job : job[j].st = "succeeded" =>
        \A e \in 1 .. NumEffects[j] : receipt[j][e].st = "applied"

\* The output status a consumer of the turn reads is the truth about its memory
\* job: applied with the receipt and only with it, and never still pending once
\* the job has succeeded or failed (completeEffect, failOrRetry,
\* markClaimTerminal, recoverExpired).
OutputIsTruthful ==
    \A j \in Job : Projects(j) /\ job[j].st # "absent" =>
        /\ output[TurnOf[j]] = "applied" <=> \E e \in Effect : receipt[j][e].st = "applied"
        /\ job[j].st = "failed" => output[TurnOf[j]] # "none"

\* Every accepted job comes to an end: as long as one supervisor follows another,
\* crashes, lost leases, lost settlements and failing handlers cannot keep a job in
\* the lane for ever, although an expired claim is leased again (the attempt and
\* lease-expiry budgets of failOrRetry and recoverExpired).
JobsSettle ==
    \A j \in Job : job[j].st \in Runnable \cup {"running"}
                     ~> job[j].st \in Terminal \cup {"absent"}

\* A compaction never crosses its write boundary while a foreground turn of its
\* session holds an unexpired lease (the lock shared by commitEffectBoundary and
\* beginForeground).
CompactionYields ==
    [][\A j \in Job : KindOf[j] = "auto_compaction" /\ ForegroundLive(SessionOf[j], 0)
         => \A e \in Effect : crossings'[j][e] = crossings[j][e]]_vars

=============================================================================
