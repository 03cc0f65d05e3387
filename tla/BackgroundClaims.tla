--------------------------- MODULE BackgroundClaims ---------------------------
(***************************************************************************)
(* Which job a claim pass takes.  BackgroundWork looks at what happens to a *)
(* job once it is claimed; this module looks at the transaction of          *)
(* claimNext itself (persistence/postgres/background-work-store.ts): the    *)
(* candidates it reads without a lock, the session locks it tries one by    *)
(* one and keeps until it ends, the update that repeats the conditions on   *)
(* what is committed by then, and the welfare slots that let a job past the *)
(* back-off of its preemptions.                                             *)
(*                                                                         *)
(* A running job is preempted whenever a foreground turn wants the model    *)
(* (primitives/llm/model-call-gate.ts), unless it was claimed for welfare.  *)
(* Time passes between claim transactions only: they are short beside the   *)
(* back-off.  The kind that excludes foreground turns is BackgroundWork's   *)
(* subject and never enters the welfare path.                               *)
(***************************************************************************)
EXTENDS Integers, Sequences, FiniteSets, SequencesExt, FiniteSetsExt

CONSTANTS
    Supervisors,     \* processes over the same table
    Jobs,            \* 1..N, in the order of created_at_ms
    Session,         \* the logical session of a job
    MaxConcurrent,   \* maxConcurrentSessions of a supervisor
    DeferThreshold,  \* welfare.deferThreshold
    AgeThreshold,    \* welfare.ageThresholdMs, in ticks
    ReserveSlots,    \* welfare.reserveSlots
    DelayTicks,      \* foregroundPreemptionDeferDelayMs, in ticks
    MaxCrashes       \* bound: fewer than the lease expiries a job survives

ASSUME ClaimsAssumption ==
    /\ Jobs \subseteq Nat \ {0} /\ IsFiniteSet(Jobs)
    /\ IsFiniteSet(Supervisors) /\ Supervisors # {}
    /\ {MaxConcurrent, DeferThreshold, AgeThreshold} \subseteq Nat \ {0}
    /\ {ReserveSlots, DelayTicks, MaxCrashes} \subseteq Nat

VARIABLES
    job,      \* the committed rows
    touched,  \* the jobs that wait, in the order of updated_at_ms
    pass,     \* claim pass of a supervisor: idle, discover, try, commit
    again,    \* chainedTickPromise: a pass was asked for during a pass
    todo,     \* candidates the transaction has not looked at yet
    locks,    \* sessions whose advisory lock the transaction holds
    crashes

rows == <<job, touched>>
tx == <<pass, again, todo, locks>>
vars == <<rows, tx, crashes>>

Sessions == {Session[j] : j \in Jobs}
Absent == [state |-> "absent", owner |-> {}, welfare |-> FALSE,
           delay |-> 0, defers |-> 0, age |-> 0]

TypeOK ==
    /\ job \in [Jobs -> [state : {"absent", "waiting", "running", "done"},
                         owner : SUBSET Supervisors, welfare : BOOLEAN,
                         delay : 0..DelayTicks, defers : 0..DeferThreshold,
                         age : 0..AgeThreshold]]
    /\ \A j \in Jobs : /\ job[j].welfare => job[j].state = "running"
                       /\ Cardinality(job[j].owner) <= 1
    /\ Range(touched) = {j \in Jobs : job[j].state = "waiting"}
    /\ IsInjective(touched)
    /\ pass \in [Supervisors -> {"idle", "discover", "try", "commit"}]
    /\ again \in [Supervisors -> BOOLEAN]
    /\ \A s \in Supervisors : todo[s] \in Seq([id : Jobs, welfare : BOOLEAN])
    /\ locks \in [Supervisors -> SUBSET Sessions]
    /\ crashes \in 0..MaxCrashes

Init ==
    /\ job = [j \in Jobs |-> Absent]
    /\ touched = <<>>
    /\ pass = [s \in Supervisors |-> "idle"]
    /\ again = [s \in Supervisors |-> FALSE]
    /\ todo = [s \in Supervisors |-> <<>>]
    /\ locks = [s \in Supervisors |-> {}]
    /\ crashes = 0

-----------------------------------------------------------------------------
Running == {j \in Jobs : job[j].state = "running"}
Mine(s) == {j \in Running : job[j].owner = {s}}
SessionRuns(x) == \E j \in Running : Session[j] = x

(* Past the welfare threshold, by the number of preemptions or by the age of
   the first one. *)
Aged(j) ==
    \/ job[j].defers >= DeferThreshold
    \/ job[j].defers > 0 /\ job[j].age >= AgeThreshold

(* Mutant of ReserveFree: a slot is free while the reserve is exactly full. *)
ReserveFreeWhenFull == Cardinality({j \in Running : job[j].welfare}) <= ReserveSlots

(* The count sees what other transactions have committed, nothing else. *)
ReserveFree == Cardinality({j \in Running : job[j].welfare}) < ReserveSlots

Normal(j) == job[j].delay = 0

Welfare(j) == Aged(j) /\ ReserveFree

(* The conditions the candidate query and the update share. *)
Claimable(c) ==
    /\ job[c.id].state = "waiting"
    /\ ~SessionRuns(Session[c.id])
    /\ IF c.welfare THEN Welfare(c.id) ELSE Normal(c.id)

(* A job that is available takes the normal path even when it has aged. *)
Admissible(j) == [id |-> j, welfare |-> ~Normal(j)]

Before(i, j) == SelectInSeq(touched, LAMBDA k : k = i) < SelectInSeq(touched, LAMBDA k : k = j)

(* One job per session, the one updated longest ago; sessions by the creation
   time of that job. *)
Candidates ==
    LET ok == {j \in Jobs : Claimable(Admissible(j))}
        first == {j \in ok : \A i \in ok \ {j} : Session[i] = Session[j] => Before(j, i)}
        ids == SetToSortSeq(first, <)
    IN  [n \in 1..Len(ids) |-> Admissible(ids[n])]

(* requestClaimPass: a request during a pass is chained after it. *)
Requested(s) ==
    /\ pass' = [pass EXCEPT ![s] = IF @ = "idle" THEN "discover" ELSE @]
    /\ again' = [again EXCEPT ![s] = pass[s] # "idle"]
    /\ UNCHANGED <<todo, locks>>

Touch(js) == touched' = touched \o SetToSortSeq(js, <)

(* COMMIT or ROLLBACK releases the session locks. *)
EndTransaction(s) ==
    /\ locks' = [locks EXCEPT ![s] = {}]
    /\ todo' = [todo EXCEPT ![s] = <<>>]

-----------------------------------------------------------------------------
(* enqueue waits for the lock of the session, then kicks its supervisor. *)
Enqueue(j, s) ==
    /\ job[j].state = "absent"
    /\ \A i \in Jobs : i < j => job[i].state # "absent"
    /\ \A t \in Supervisors : Session[j] \notin locks[t]
    /\ job' = [job EXCEPT ![j].state = "waiting"]
    /\ Touch({j})
    /\ Requested(s)
    /\ UNCHANGED crashes

(* The scheduler's tick, a backstop for the kicks. *)
SchedulerTick(s) ==
    /\ pass[s] = "idle"
    /\ \E j \in Jobs : job[j].state = "waiting"
    /\ Requested(s)
    /\ UNCHANGED <<rows, crashes>>

(* runTick's loop: a claim transaction while the supervisor has room. *)
Discover(s) ==
    /\ pass[s] = "discover"
    /\ Cardinality(Mine(s)) < MaxConcurrent
    /\ todo' = [todo EXCEPT ![s] = Candidates]
    /\ pass' = [pass EXCEPT ![s] = "try"]
    /\ UNCHANGED <<rows, again, locks, crashes>>

(* Mutant of SessionFree: the answer of the lock attempt is ignored. *)
SessionFreeAlways(s, x) == TRUE

SessionFree(s, x) == \A t \in Supervisors \ {s} : x \notin locks[t]

(* The next candidate whose session nobody else has locked; the lock stays even
   if the update finds the job changed. *)
TryCandidate(s) ==
    /\ pass[s] = "try"
    /\ todo[s] # <<>>
    /\ LET c == Head(todo[s])
           free == SessionFree(s, Session[c.id])
           won == free /\ Claimable(c)
       IN  /\ locks' = [locks EXCEPT ![s] = @ \cup (IF free THEN {Session[c.id]} ELSE {})]
           /\ todo' = [todo EXCEPT ![s] = IF won THEN <<c>> ELSE Tail(@)]
           /\ pass' = [pass EXCEPT ![s] = IF won THEN "commit" ELSE "try"]
    /\ UNCHANGED <<rows, again, crashes>>

(* The transaction of a claim becomes visible and the claim starts to run. *)
Commit(s) ==
    /\ pass[s] = "commit"
    /\ LET c == Head(todo[s])
       IN  /\ job' = [job EXCEPT ![c.id].state = "running", ![c.id].owner = {s},
                                 ![c.id].welfare = c.welfare]
           /\ touched' = Remove(touched, c.id)
    /\ EndTransaction(s)
    /\ pass' = [pass EXCEPT ![s] = "discover"]
    /\ UNCHANGED <<again, crashes>>

(* No candidate is left, or no room: the pass ends and a chained one begins. *)
EndPass(s) ==
    /\ \/ pass[s] = "try" /\ todo[s] = <<>>
       \/ pass[s] = "discover" /\ Cardinality(Mine(s)) >= MaxConcurrent
    /\ EndTransaction(s)
    /\ pass' = [pass EXCEPT ![s] = IF again[s] THEN "discover" ELSE "idle"]
    /\ again' = [again EXCEPT ![s] = FALSE]
    /\ UNCHANGED <<rows, crashes>>

(* complete: defer_count and first_deferred_at_ms start afresh. *)
Complete(s, j) ==
    /\ j \in Mine(s)
    /\ job' = [job EXCEPT ![j] = [Absent EXCEPT !.state = "done"]]
    /\ Requested(s)
    /\ UNCHANGED <<touched, crashes>>

(* A foreground turn takes the model from an unprotected call: the claim is
   deferred as foreground_active and its supervisor looks for other work. *)
Preemptable(j) == ~job[j].welfare

Deferred(j) ==
    [job[j] EXCEPT !.state = "waiting", !.owner = {}, !.welfare = FALSE,
                   !.delay = DelayTicks, !.defers = Min({@ + 1, DeferThreshold})]

Preempt(s, j) ==
    /\ j \in Mine(s)
    /\ Preemptable(j)
    /\ job' = [job EXCEPT ![j] = Deferred(j)]
    /\ Touch({j})
    /\ Requested(s)
    /\ UNCHANGED crashes

(* The process dies: its transaction is rolled back, its claims keep running in
   the table until their lease expires; a new process takes its place. *)
Crash(s) ==
    /\ crashes < MaxCrashes
    /\ crashes' = crashes + 1
    /\ job' = [j \in Jobs |-> IF j \in Mine(s) THEN [job[j] EXCEPT !.owner = {}] ELSE job[j]]
    /\ pass' = [pass EXCEPT ![s] = "idle"]
    /\ again' = [again EXCEPT ![s] = FALSE]
    /\ EndTransaction(s)
    /\ UNCHANGED touched

Orphans == {j \in Running : job[j].owner = {}}

(* recoverExpired at the start of a pass: the lease of a dead process has run
   out and its jobs are available at once. *)
Recovered(j) == [job[j] EXCEPT !.state = "waiting", !.welfare = FALSE, !.delay = 0]

RecoverExpired(s) ==
    /\ Orphans # {}
    /\ pass[s] = "idle"
    /\ job' = [j \in Jobs |-> IF j \in Orphans THEN Recovered(j) ELSE job[j]]
    /\ Touch(Orphans)
    /\ Requested(s)
    /\ UNCHANGED crashes

(* The age of the first preemption counts until the job has aged in one way or the other. *)
Ageing(j) == job[j].defers > 0 /\ ~Aged(j)

Less(n) == Max({n - 1, 0})

TimePasses ==
    /\ \A s \in Supervisors : pass[s] = "idle"
    /\ \E j \in Jobs : job[j].delay > 0 \/ Ageing(j)
    /\ job' = [j \in Jobs |->
                 [job[j] EXCEPT !.delay = Less(@),
                                !.age = IF Ageing(j) THEN @ + 1 ELSE @]]
    /\ UNCHANGED <<touched, tx, crashes>>

Pass(s) == Discover(s) \/ TryCandidate(s) \/ Commit(s) \/ EndPass(s)

Next ==
    \/ \E s \in Supervisors :
          \/ Pass(s) \/ SchedulerTick(s) \/ Crash(s) \/ RecoverExpired(s)
          \/ \E j \in Jobs : Enqueue(j, s) \/ Complete(s, j) \/ Preempt(s, j)
    \/ TimePasses

Spec == Init /\ [][Next]_vars

-----------------------------------------------------------------------------
(* What a claim transaction has updated and not yet committed. *)
Claims == {<<Session[j], "row", j>> : j \in Running}
            \cup {<<Session[Head(todo[s]).id], "transaction", s>> :
                     s \in {t \in Supervisors : pass[t] = "commit"}}

(* A session has at most one claim, counting the ones that are updated and not
   committed yet: a commit never makes a second job of it run, although
   candidates are read without a lock. *)
OneClaimPerSession == \A a, b \in Claims : a[1] = b[1] => a = b

WelfareRunning == Cardinality({j \in Running : job[j].welfare})

(* The reserve counts committed claims only, so each supervisor beyond the first
   can overshoot it by one; never more, however passes interleave. *)
OvershootBounded == WelfareRunning <= ReserveSlots + Cardinality(Supervisors) - 1
=============================================================================
