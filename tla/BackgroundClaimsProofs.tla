------------------------ MODULE BackgroundClaimsProofs ------------------------
(* The supervisors of the background work: the claim transactions of all of    *)
(* them over one table, the event loop of each (ClaimPump, from PumpInv on),   *)
(* and the recovery of handoffs (HandoffRecovery, from HInv on).               *)
(*                                                                             *)
(* Two promises of the claim transaction, for any number of supervisors, jobs  *)
(* and welfare slots: sessions are claimed one job at a time, and the welfare  *)
(* reserve is exceeded by less than the number of supervisors.                 *)
(*                                                                             *)
(* The proofs know nothing about the list of candidates a transaction reads:   *)
(* whatever is in it, the session lock and the conditions of the update are    *)
(* enough.  ClaimsInv says what a transaction that has updated its row relies  *)
(* on until it commits: it holds the lock of the session, nobody runs in the   *)
(* session, and its welfare slot is counted although the row is not yet seen.  *)
EXTENDS BackgroundClaims, ClaimPump, HandoffRecovery, FiniteSetTheorems, TLAPS

\* The session of a claim that is updated and not committed.
Updated(s) == Session[Head(todo[s]).id]

WelfareJobs == {j \in Running : job[j].welfare}
WelfareCommits == {s \in Supervisors : pass[s] = "commit" /\ Head(todo[s]).welfare}

\* Rows have their columns, and every supervisor its transaction.
Shape ==
    /\ job = [j \in Jobs |-> job[j]]
    /\ \A j \in Jobs : DOMAIN job[j] = {"state", "owner", "welfare", "delay", "defers", "age"}
    /\ pass \in [Supervisors -> {"idle", "discover", "try", "commit"}]
    /\ todo = [s \in Supervisors |-> todo[s]]
    /\ locks = [s \in Supervisors |-> locks[s]]

\* An advisory lock has one holder.
LocksExclusive == \A s, t \in Supervisors : locks[s] \cap locks[t] # {} => s = t

\* A transaction that commits has locked its session, and nothing of it runs.
CommitIsAlone ==
    \A s \in Supervisors : pass[s] = "commit" => Updated(s) \in locks[s] /\ ~SessionRuns(Updated(s))

\* One row runs per session.
RowsSerial == \A i, j \in Running : Session[i] = Session[j] => i = j

\* Slots that are taken, and slots that are about to be.
SlotsBounded ==
    Cardinality(WelfareJobs) + Cardinality(WelfareCommits)
      <= ReserveSlots + Cardinality(Supervisors) - 1

ClaimsInv == Shape /\ LocksExclusive /\ CommitIsAlone /\ RowsSerial /\ SlotsBounded

-----------------------------------------------------------------------------
(* Counting. *)

\* Running jobs and committing supervisors can be counted.
LEMMA Countable ==
    /\ IsFiniteSet(WelfareJobs) /\ Cardinality(WelfareJobs) \in Nat
    /\ IsFiniteSet(WelfareCommits) /\ Cardinality(WelfareCommits) \in Nat
    /\ Cardinality(WelfareCommits) <= Cardinality(Supervisors)
    /\ Cardinality(Supervisors) \in Nat
<1>1. WelfareJobs \subseteq Jobs /\ WelfareCommits \subseteq Supervisors
  BY DEF WelfareJobs, WelfareCommits, Running
<1>2. IsFiniteSet(Jobs) /\ IsFiniteSet(Supervisors)
  BY ClaimsAssumption
<1> QED
  BY <1>1, <1>2, FS_Subset, FS_CardinalityType

\* The same in the next state.
LEMMA CountableNext ==
    /\ IsFiniteSet(WelfareJobs') /\ Cardinality(WelfareJobs') \in Nat
    /\ IsFiniteSet(WelfareCommits') /\ Cardinality(WelfareCommits') \in Nat
    /\ Cardinality(WelfareCommits') <= Cardinality(Supervisors)
<1>1. WelfareJobs' \subseteq Jobs /\ WelfareCommits' \subseteq Supervisors
  BY DEF WelfareJobs, WelfareCommits, Running
<1>2. IsFiniteSet(Jobs) /\ IsFiniteSet(Supervisors)
  BY ClaimsAssumption
<1> QED
  BY <1>1, <1>2, FS_Subset, FS_CardinalityType

LEMMA ClaimsInit == Init => ClaimsInv
<1> SUFFICES ASSUME Init PROVE ClaimsInv
  OBVIOUS
<1>1. Shape
  BY DEF Init, Shape, Absent
<1>2. Running = {} /\ \A s \in Supervisors : pass[s] = "idle" /\ locks[s] = {}
  BY DEF Init, Running, Absent
<1>3. LocksExclusive /\ CommitIsAlone /\ RowsSerial
  BY <1>2 DEF LocksExclusive, CommitIsAlone, RowsSerial
<1>4. WelfareJobs = {} /\ WelfareCommits = {}
  BY <1>2 DEF WelfareJobs, WelfareCommits
<1>5. Cardinality({}) = 0
  BY FS_EmptySet
<1>6. Cardinality(Supervisors) \in Nat /\ Cardinality(Supervisors) # 0
  BY ClaimsAssumption, FS_EmptySet, FS_CardinalityType
<1>7. SlotsBounded
  BY <1>4, <1>5, <1>6, ClaimsAssumption DEF SlotsBounded
<1> QED
  BY <1>1, <1>3, <1>7 DEF ClaimsInv

-----------------------------------------------------------------------------
(* Most steps take nothing: no row begins to run, no transaction comes to its   *)
(* commit, and no lock is acquired.                                             *)

RunsNothing ==
    \A j \in Jobs : job'[j].state = "running" =>
      job[j].state = "running" /\ job'[j].welfare = job[j].welfare

CommitsNothing ==
    \A s \in Supervisors :
      /\ pass'[s] = "commit" => pass[s] = "commit" /\ todo'[s] = todo[s] /\ locks'[s] = locks[s]
      /\ locks'[s] \subseteq locks[s]

LEMMA TakesNothing ==
    ASSUME ClaimsInv, Shape', RunsNothing, CommitsNothing
    PROVE  ClaimsInv'
<1>1. LocksExclusive'
  BY DEF ClaimsInv, LocksExclusive, CommitsNothing
<1>2. Running' \subseteq Running
  BY DEF Running, RunsNothing
<1>3. RowsSerial'
  BY <1>2 DEF ClaimsInv, RowsSerial
<1>4. CommitIsAlone'
  BY <1>2 DEF ClaimsInv, CommitIsAlone, CommitsNothing, SessionRuns, Updated
<1>5. WelfareJobs' \subseteq WelfareJobs
  BY DEF WelfareJobs, Running, RunsNothing
<1>6. WelfareCommits' \subseteq WelfareCommits
  BY DEF WelfareCommits, CommitsNothing
<1>7. /\ Cardinality(WelfareJobs') <= Cardinality(WelfareJobs)
      /\ Cardinality(WelfareCommits') <= Cardinality(WelfareCommits)
  BY <1>5, <1>6, Countable, FS_Subset
<1>8. SlotsBounded'
  BY <1>7, Countable, CountableNext, ClaimsAssumption DEF ClaimsInv, SlotsBounded
<1> QED
  BY <1>1, <1>3, <1>4, <1>8 DEF ClaimsInv

\* A request for a pass moves an idle supervisor only.
LEMMA RequestTakesNothing ==
    ASSUME ClaimsInv, NEW s \in Supervisors, Requested(s)
    PROVE  /\ CommitsNothing
           /\ pass' \in [Supervisors -> {"idle", "discover", "try", "commit"}]
           /\ todo' = todo /\ locks' = locks
BY DEF Requested, ClaimsInv, Shape, CommitsNothing

\* The end of a transaction drops its locks and its candidates.
LEMMA EndTakesNothing ==
    ASSUME ClaimsInv, NEW s \in Supervisors, EndTransaction(s),
           NEW p \in {"idle", "discover"}, pass' = [pass EXCEPT ![s] = p]
    PROVE  /\ CommitsNothing
           /\ pass' \in [Supervisors -> {"idle", "discover", "try", "commit"}]
           /\ todo' = [t \in Supervisors |-> todo'[t]]
           /\ locks' = [t \in Supervisors |-> locks'[t]]
           /\ locks'[s] = {} /\ \A t \in Supervisors \ {s} : locks'[t] = locks[t] /\ todo'[t] = todo[t]
BY DEF EndTransaction, ClaimsInv, Shape, CommitsNothing

LEMMA EnqueueKeeps ==
    ASSUME ClaimsInv, NEW s \in Supervisors, NEW j \in Jobs, Enqueue(j, s) PROVE ClaimsInv'
<1>1. Requested(s) /\ job' = [job EXCEPT ![j].state = "waiting"]
  BY DEF Enqueue
<1>2. Shape' /\ RunsNothing
  BY <1>1, RequestTakesNothing DEF ClaimsInv, Shape, RunsNothing
<1> QED
  BY <1>1, <1>2, RequestTakesNothing, TakesNothing

LEMMA SchedulerTickKeeps ==
    ASSUME ClaimsInv, NEW s \in Supervisors, SchedulerTick(s) PROVE ClaimsInv'
<1>1. Requested(s) /\ job' = job
  BY DEF SchedulerTick, rows
<1>2. Shape' /\ RunsNothing
  BY <1>1, RequestTakesNothing DEF ClaimsInv, Shape, RunsNothing
<1> QED
  BY <1>1, <1>2, RequestTakesNothing, TakesNothing

LEMMA DiscoverKeeps ==
    ASSUME ClaimsInv, NEW s \in Supervisors, Discover(s) PROVE ClaimsInv'
<1> DEFINE list == Candidates
<1>1. /\ job' = job /\ locks' = locks /\ todo' = [todo EXCEPT ![s] = list]
      /\ pass[s] = "discover" /\ pass' = [pass EXCEPT ![s] = "try"]
  BY DEF Discover, rows
<1> HIDE DEF list
<1>2. Shape' /\ RunsNothing /\ CommitsNothing
  BY <1>1 DEF ClaimsInv, Shape, RunsNothing, CommitsNothing
<1> QED
  BY <1>2, TakesNothing

\* A candidate that wins has the lock of its session, which nobody else holds.
LEMMA TryCandidateKeeps ==
    ASSUME ClaimsInv, NEW s \in Supervisors, TryCandidate(s) PROVE ClaimsInv'
<1> DEFINE c == Head(todo[s])
           x == Session[c.id]
           free == SessionFree(s, x)
           won == free /\ Claimable(c)
<1>1. /\ job' = job /\ pass[s] = "try"
      /\ locks' = [locks EXCEPT ![s] = @ \cup (IF free THEN {x} ELSE {})]
      /\ todo' = [todo EXCEPT ![s] = IF won THEN <<c>> ELSE Tail(@)]
      /\ pass' = [pass EXCEPT ![s] = IF won THEN "commit" ELSE "try"]
  BY DEF TryCandidate, rows
<1>2. Shape'
  BY <1>1 DEF ClaimsInv, Shape
<1>3. LocksExclusive'
  BY <1>1 DEF ClaimsInv, Shape, LocksExclusive, SessionFree
<1>4. Running' = Running /\ RowsSerial'
  BY <1>1 DEF ClaimsInv, RowsSerial, Running
<1>5. \A t \in Supervisors \ {s} :
        pass'[t] = pass[t] /\ todo'[t] = todo[t] /\ locks'[t] = locks[t]
  BY <1>1 DEF ClaimsInv, Shape
<1>6. CASE won
  <2>1. todo'[s] = <<c>> /\ x \in locks'[s] /\ pass'[s] = "commit"
    BY <1>1, <1>6 DEF ClaimsInv, Shape
  <2>2. Head(todo'[s]) = c
    BY <2>1
  <2>3. ~SessionRuns(x)
    BY <1>6 DEF Claimable
  <2>4. CommitIsAlone'
    BY <2>1, <2>2, <2>3, <1>4, <1>5 DEF ClaimsInv, CommitIsAlone, Updated, SessionRuns
  <2>5. WelfareJobs' = WelfareJobs
    BY <1>1, <1>4 DEF WelfareJobs
  <2>6. CASE c.welfare
    <3>1. Cardinality(WelfareJobs) < ReserveSlots
      BY <1>6, <2>6 DEF Claimable, Welfare, ReserveFree, WelfareJobs
    <3> QED
      BY <3>1, <2>4, <2>5, <1>2, <1>3, <1>4, Countable, CountableNext, ClaimsAssumption
         DEF ClaimsInv, SlotsBounded
  <2>7. CASE ~c.welfare
    <3>1. WelfareCommits' = WelfareCommits
      BY <1>1, <1>5, <2>1, <2>2, <2>7 DEF WelfareCommits
    <3> QED
      BY <3>1, <2>4, <2>5, <1>2, <1>3, <1>4 DEF ClaimsInv, SlotsBounded
  <2> QED
    BY <2>6, <2>7
<1>7. CASE ~won
  <2>1. pass' = pass
    BY <1>1, <1>7 DEF ClaimsInv, Shape
  <2>2. CommitIsAlone'
    BY <2>1, <1>1, <1>4, <1>5 DEF ClaimsInv, CommitIsAlone, Updated, SessionRuns
  <2>3. WelfareJobs' = WelfareJobs /\ WelfareCommits' = WelfareCommits
    BY <2>1, <1>1, <1>4, <1>5 DEF WelfareJobs, WelfareCommits
  <2> QED
    BY <2>2, <2>3, <1>2, <1>3, <1>4 DEF ClaimsInv, SlotsBounded
<1> QED
  BY <1>6, <1>7

\* What commits moves from the slots about to be taken to the slots taken.
LEMMA CommitKeeps ==
    ASSUME ClaimsInv, NEW s \in Supervisors, Commit(s) PROVE ClaimsInv'
<1> DEFINE c == Head(todo[s])
           d == "discover"
<1>1. /\ pass[s] = "commit" /\ EndTransaction(s)
      /\ job' = [job EXCEPT ![c.id].state = "running", ![c.id].owner = {s},
                             ![c.id].welfare = c.welfare]
      /\ d \in {"idle", "discover"} /\ pass' = [pass EXCEPT ![s] = d]
  BY DEF Commit
<1>2. /\ CommitsNothing /\ pass' \in [Supervisors -> {"idle", "discover", "try", "commit"}]
      /\ todo' = [t \in Supervisors |-> todo'[t]] /\ locks' = [t \in Supervisors |-> locks'[t]]
      /\ locks'[s] = {} /\ pass'[s] = "discover"
      /\ \A t \in Supervisors \ {s} : /\ locks'[t] = locks[t] /\ todo'[t] = todo[t]
                                      /\ pass'[t] = pass[t]
  <2> HIDE DEF d
  <2>1. CommitsNothing /\ pass' \in [Supervisors -> {"idle", "discover", "try", "commit"}]
      /\ todo' = [t \in Supervisors |-> todo'[t]] /\ locks' = [t \in Supervisors |-> locks'[t]]
      /\ locks'[s] = {}
      /\ \A t \in Supervisors \ {s} : locks'[t] = locks[t] /\ todo'[t] = todo[t]
    BY <1>1, EndTakesNothing
  <2>2. pass'[s] = d /\ \A t \in Supervisors \ {s} : pass'[t] = pass[t]
    BY <1>1 DEF ClaimsInv, Shape
  <2> QED
    BY <2>1, <2>2 DEF d
<1>3. /\ job' = [j \in Jobs |-> job'[j]]
      /\ \A j \in Jobs : j # c.id => job'[j] = job[j]
      /\ c.id \in Jobs => job'[c.id] = [job[c.id] EXCEPT !.state = "running", !.owner = {s},
                                                         !.welfare = c.welfare]
  BY <1>1 DEF ClaimsInv, Shape
<1>4. Shape' /\ (c.id \in Jobs => job'[c.id].welfare = c.welfare)
  <2> HIDE DEF c
  <2>1. \A j \in Jobs : DOMAIN job[j] = {"state", "owner", "welfare", "delay", "defers", "age"}
    BY DEF ClaimsInv, Shape
  <2>2. c.id \in Jobs => /\ DOMAIN job'[c.id] = DOMAIN job[c.id]
                         /\ job'[c.id].welfare = c.welfare
    BY <2>1, <1>3
  <2>3. \A j \in Jobs : DOMAIN job'[j] = DOMAIN job[j]
    BY <2>2, <1>3
  <2> QED
    BY <2>1, <2>2, <2>3, <1>2, <1>3 DEF Shape
<1>5. Updated(s) = Session[c.id] /\ Updated(s) \in locks[s] /\ ~SessionRuns(Updated(s))
  BY <1>1 DEF ClaimsInv, CommitIsAlone, Updated
<1>6. Running' \subseteq Running \cup {c.id}
  BY <1>3 DEF Running
<1>7. LocksExclusive'
  BY <1>2 DEF ClaimsInv, LocksExclusive
<1>8. RowsSerial'
  BY <1>5, <1>6 DEF ClaimsInv, RowsSerial, SessionRuns
<1>9. CommitIsAlone'
  <2> SUFFICES ASSUME NEW t \in Supervisors, pass'[t] = "commit"
               PROVE  Updated(t)' \in locks'[t] /\ ~SessionRuns(Updated(t))'
    BY DEF CommitIsAlone
  <2>1. t # s /\ pass[t] = "commit" /\ Updated(t)' = Updated(t) /\ locks'[t] = locks[t]
    BY <1>2 DEF Updated
  <2>2. Updated(t) \in locks[t] /\ ~SessionRuns(Updated(t))
    BY <2>1 DEF ClaimsInv, CommitIsAlone
  <2>3. Updated(t) # Updated(s)
    BY <1>5, <2>1, <2>2 DEF ClaimsInv, LocksExclusive
  <2> QED
    BY <2>1, <2>2, <2>3, <1>5, <1>6 DEF SessionRuns
<1>10. SlotsBounded'
  <2>1. CASE c.welfare
    <3>1. s \in WelfareCommits /\ WelfareCommits' = WelfareCommits \ {s}
      BY <1>1, <1>2, <2>1 DEF WelfareCommits
    <3>2. Cardinality(WelfareCommits') = Cardinality(WelfareCommits) - 1
      BY <3>1, Countable, FS_RemoveElement
    <3>3. WelfareJobs' \subseteq WelfareJobs \cup {c.id}
      BY <1>3 DEF WelfareJobs, Running
    <3>4. /\ IsFiniteSet(WelfareJobs \cup {c.id})
          /\ Cardinality(WelfareJobs \cup {c.id}) <= Cardinality(WelfareJobs) + 1
      <4>1. /\ IsFiniteSet(WelfareJobs \cup {c.id})
            /\ Cardinality(WelfareJobs \cup {c.id}) =
                 IF c.id \in WelfareJobs THEN Cardinality(WelfareJobs) ELSE Cardinality(WelfareJobs) + 1
        BY Countable, FS_AddElement
      <4> QED
        BY <4>1, Countable
    <3>5. Cardinality(WelfareJobs') <= Cardinality(WelfareJobs) + 1
      BY <3>3, <3>4, FS_Subset, FS_CardinalityType, Countable, CountableNext
    <3> QED
      BY <3>2, <3>5, Countable, CountableNext, ClaimsAssumption DEF ClaimsInv, SlotsBounded
  <2>2. CASE ~c.welfare
    <3>1. WelfareJobs' \subseteq WelfareJobs
      BY <1>3, <1>4, <2>2 DEF WelfareJobs, Running
    <3>2. WelfareCommits' \subseteq WelfareCommits
      BY <1>2 DEF WelfareCommits
    <3>3. /\ Cardinality(WelfareJobs') <= Cardinality(WelfareJobs)
          /\ Cardinality(WelfareCommits') <= Cardinality(WelfareCommits)
      BY <3>1, <3>2, Countable, FS_Subset
    <3> QED
      BY <3>3, Countable, CountableNext, ClaimsAssumption DEF ClaimsInv, SlotsBounded
  <2> QED
    BY <2>1, <2>2
<1> QED
  BY <1>4, <1>7, <1>8, <1>9, <1>10 DEF ClaimsInv

LEMMA EndPassKeeps ==
    ASSUME ClaimsInv, NEW s \in Supervisors, EndPass(s) PROVE ClaimsInv'
<1> DEFINE p == IF again[s] THEN "discover" ELSE "idle"
<1>1. /\ EndTransaction(s) /\ job' = job
      /\ p \in {"idle", "discover"} /\ pass' = [pass EXCEPT ![s] = p]
  BY DEF EndPass, rows
<1> HIDE DEF p
<1>2. Shape' /\ RunsNothing /\ CommitsNothing
  BY <1>1, EndTakesNothing DEF ClaimsInv, Shape, RunsNothing
<1> QED
  BY <1>2, TakesNothing

LEMMA CompleteKeeps ==
    ASSUME ClaimsInv, NEW s \in Supervisors, NEW j \in Jobs, Complete(s, j) PROVE ClaimsInv'
<1>1. Requested(s) /\ job' = [job EXCEPT ![j] = [Absent EXCEPT !.state = "done"]]
  BY DEF Complete
<1>2. Shape' /\ RunsNothing
  BY <1>1, RequestTakesNothing DEF ClaimsInv, Shape, RunsNothing, Absent
<1> QED
  BY <1>1, <1>2, RequestTakesNothing, TakesNothing

LEMMA PreemptKeeps ==
    ASSUME ClaimsInv, NEW s \in Supervisors, NEW j \in Jobs, Preempt(s, j) PROVE ClaimsInv'
<1>1. Requested(s) /\ job' = [job EXCEPT ![j] = Deferred(j)]
  BY DEF Preempt
<1>2. Deferred(j).state = "waiting" /\ DOMAIN Deferred(j) = DOMAIN job[j]
  BY DEF Deferred, ClaimsInv, Shape
<1>3. Shape' /\ RunsNothing
  BY <1>1, <1>2, RequestTakesNothing DEF ClaimsInv, Shape, RunsNothing
<1> QED
  BY <1>1, <1>3, RequestTakesNothing, TakesNothing

LEMMA CrashKeeps ==
    ASSUME ClaimsInv, NEW s \in Supervisors, Crash(s) PROVE ClaimsInv'
<1> DEFINE p == "idle"
<1>1. /\ EndTransaction(s) /\ p \in {"idle", "discover"} /\ pass' = [pass EXCEPT ![s] = p]
      /\ job' = [j \in Jobs |-> IF j \in Mine(s) THEN [job[j] EXCEPT !.owner = {}] ELSE job[j]]
  BY DEF Crash
<1> HIDE DEF p
<1>2. Shape' /\ RunsNothing /\ CommitsNothing
  BY <1>1, EndTakesNothing DEF ClaimsInv, Shape, RunsNothing
<1> QED
  BY <1>2, TakesNothing

LEMMA RecoverExpiredKeeps ==
    ASSUME ClaimsInv, NEW s \in Supervisors, RecoverExpired(s) PROVE ClaimsInv'
<1>1. /\ Requested(s)
      /\ job' = [j \in Jobs |-> IF j \in Orphans THEN Recovered(j) ELSE job[j]]
  BY DEF RecoverExpired
<1>2. \A j \in Jobs : Recovered(j).state = "waiting" /\ DOMAIN Recovered(j) = DOMAIN job[j]
  BY DEF Recovered, ClaimsInv, Shape
<1>3. Shape' /\ RunsNothing
  BY <1>1, <1>2, RequestTakesNothing DEF ClaimsInv, Shape, RunsNothing
<1> QED
  BY <1>1, <1>3, RequestTakesNothing, TakesNothing

LEMMA ClockKeeps ==
    ASSUME ClaimsInv, TimePasses PROVE ClaimsInv'
<1> DEFINE delay(j) == Less(job[j].delay)
           age(j) == IF Ageing(j) THEN job[j].age + 1 ELSE job[j].age
<1>1. /\ pass' = pass /\ todo' = todo /\ locks' = locks
      /\ job' = [j \in Jobs |-> [job[j] EXCEPT !.delay = delay(j), !.age = age(j)]]
  BY DEF TimePasses, tx
<1> HIDE DEF delay, age
<1>2. Shape' /\ RunsNothing /\ CommitsNothing
  BY <1>1 DEF ClaimsInv, Shape, RunsNothing, CommitsNothing
<1> QED
  BY <1>2, TakesNothing

LEMMA ClaimsStep == ClaimsInv /\ [Next]_vars => ClaimsInv'
<1> SUFFICES ASSUME ClaimsInv, [Next]_vars PROVE ClaimsInv'
  OBVIOUS
<1>1. CASE UNCHANGED vars
  <2>1. Shape' /\ RunsNothing /\ CommitsNothing
    BY <1>1 DEF vars, rows, tx, ClaimsInv, Shape, RunsNothing, CommitsNothing
  <2> QED
    BY <2>1, TakesNothing
<1> QED
  BY <1>1, EnqueueKeeps, SchedulerTickKeeps, DiscoverKeeps, TryCandidateKeeps, CommitKeeps,
     EndPassKeeps, CompleteKeeps, PreemptKeeps, CrashKeeps, RecoverExpiredKeeps, ClockKeeps
     DEF Next, Pass

LEMMA ClaimsInvariant == Spec => []ClaimsInv
BY ClaimsInit, ClaimsStep, PTL DEF Spec

\* A session has at most one claim, committed or not, although candidates are read
\* without a lock and supervisors die at any point of their transaction.
THEOREM ClaimsAreSerial == Spec => []OneClaimPerSession
<1>1. ClaimsInv => OneClaimPerSession
  <2> SUFFICES ASSUME ClaimsInv, NEW a \in Claims, NEW b \in Claims, a[1] = b[1] PROVE a = b
    BY DEF OneClaimPerSession
  <2>1. \/ \E j \in Running : a = <<Session[j], "row", j>>
        \/ \E s \in Supervisors : pass[s] = "commit" /\ a = <<Updated(s), "transaction", s>>
    BY DEF Claims, Updated
  <2>2. \/ \E j \in Running : b = <<Session[j], "row", j>>
        \/ \E s \in Supervisors : pass[s] = "commit" /\ b = <<Updated(s), "transaction", s>>
    BY DEF Claims, Updated
  <2>3. \A i, j \in Running : Session[i] = Session[j] => i = j
    BY DEF ClaimsInv, RowsSerial
  <2>4. \A s \in Supervisors : pass[s] = "commit" =>
           \A j \in Running : Session[j] # Updated(s)
    BY DEF ClaimsInv, CommitIsAlone, SessionRuns
  <2>5. \A s, t \in Supervisors :
           pass[s] = "commit" /\ pass[t] = "commit" /\ Updated(s) = Updated(t) => s = t
    BY DEF ClaimsInv, CommitIsAlone, LocksExclusive
  <2> QED
    BY <2>1, <2>2, <2>3, <2>4, <2>5
<1> QED
  BY <1>1, ClaimsInvariant, PTL

\* The welfare reserve is exceeded by less than the number of supervisors, although
\* each of them counts only what the others have committed.
THEOREM ReserveOvershoot == Spec => []OvershootBounded
<1>1. ClaimsInv => OvershootBounded
  BY Countable, ClaimsAssumption DEF ClaimsInv, SlotsBounded, OvershootBounded, WelfareRunning,
     WelfareJobs
<1> QED
  BY <1>1, ClaimsInvariant, PTL

-----------------------------------------------------------------------------
(* The event loop of one supervisor, for every concurrency and every number of *)
(* foreground leases: its types, the order of stop() and the last claim pass,  *)
(* the heartbeat, and the steps of its contract.                               *)
(*                                                                             *)
(* SweepAfterLastPass is not inductive: nothing in it says that no pass begins *)
(* once stop() has found none.  PumpInv adds that stop() has closed the pump   *)
(* and that runTick has a body only while its promise is unsettled.            *)

\* runTick is under way exactly while its promise is unsettled.
BodyInPass == body # "idle" <=> tickPromise = "running"

\* A claim that is asked for has a slot.
SlotForCall == body = "calling" => running < MaxClaims

\* stop() has begun only if no tick() starts a pass any more.
StopCloses == stop # "no" => stopping

\* A request is owed a pass only by a pump that runs, and its follow-up is chained.
OwedIsChained == owed => ~stopping /\ chained # "none"

\* A follow-up waits only for a pass that has not been cleared.
WaitingHasPass == chained = "waiting" => tickPromise # "none"

\* A stop() that has waited for the pass in flight finds none again.
StopPastPass == stop \in {"chained", "claims", "sweep", "done"} => tickPromise = "none"

PumpInv ==
    /\ PumpTypeOK /\ BodyInPass /\ SlotForCall /\ StopCloses /\ StopPastPass /\ OwedIsChained
    /\ WaitingHasPass /\ SweepAfterLastPass /\ HeartbeatCoversLeases

-----------------------------------------------------------------------------
LEMMA InitPumpInv == PumpInit => PumpInv
<1> SUFFICES ASSUME PumpInit PROVE PumpInv
  OBVIOUS
<1>1. PumpTypeOK
  <2>1. stopping \in BOOLEAN /\ owed \in BOOLEAN /\ timer \in BOOLEAN
    BY DEF PumpInit
  <2>2. /\ running \in 0 .. MaxClaims /\ leases \in 0 .. MaxForeground
        /\ ready \in 0 .. leases /\ lost \in 0 .. leases - ready
        /\ ending \in 0 .. MaxForeground - leases
    BY PumpAssumption DEF PumpInit
  <2>3. /\ tickPromise \in {"none", "running", "settled"}
        /\ chained \in {"none", "waiting", "ready"}
        /\ body \in {"idle", "recovering", "loop", "calling"}
        /\ stop \in {"no", "tick", "chained", "claims", "sweep", "done", "failed"}
    BY DEF PumpInit
  <2> QED
    BY <2>1, <2>2, <2>3 DEF PumpTypeOK
<1>2. BodyInPass /\ SlotForCall /\ StopCloses /\ StopPastPass
  BY DEF PumpInit, BodyInPass, SlotForCall, StopCloses, StopPastPass
<1>3. OwedIsChained /\ WaitingHasPass /\ SweepAfterLastPass /\ HeartbeatCoversLeases
  BY DEF PumpInit, OwedIsChained, WaitingHasPass, SweepAfterLastPass, HeartbeatCoversLeases
<1> QED
  BY <1>1, <1>2, <1>3 DEF PumpInv

\* tick() keeps what the promises and the body of a pass say about each other.
LEMMA TickKeepsPass ==
    ASSUME PumpInv, Tick, stopping' = stopping, stop' = stop
    PROVE  /\ tickPromise' \in {"none", "running", "settled"}
           /\ chained' \in {"none", "waiting", "ready"}
           /\ body' \in {"idle", "recovering", "loop", "calling"} /\ owed' \in BOOLEAN
           /\ BodyInPass' /\ OwedIsChained' /\ WaitingHasPass' /\ StopPastPass'
           /\ SweepAfterLastPass'
           /\ body' = "calling" => body = "calling"
<1> USE DEF PumpInv, PumpTypeOK, BodyInPass, OwedIsChained, WaitingHasPass, StopPastPass,
        SweepAfterLastPass, StopCloses
<1>1. CASE stopping /\ UNCHANGED tickState
  BY <1>1 DEF tickState
<1>2. CASE ~stopping /\ tickPromise = "none" /\ BeginsPass
  BY <1>2 DEF BeginsPass
<1>3. CASE /\ ~stopping /\ tickPromise # "none"
           /\ chained' = IF chained = "none" THEN "waiting" ELSE chained
           /\ owed' = TRUE
           /\ UNCHANGED <<tickPromise, body>>
  BY <1>3
<1> QED
  BY <1>1, <1>2, <1>3 DEF Tick

\* The steps of a pass and of the reactions to its end.
LEMMA PassKeepsPump ==
    PumpInv /\ ClaimPass => PumpInv'
<1> SUFFICES ASSUME PumpInv, ClaimPass PROVE PumpInv'
  OBVIOUS
<1> USE PumpAssumption DEF PumpInv, PumpTypeOK, BodyInPass, SlotForCall, StopCloses, StopPastPass, OwedIsChained,
        WaitingHasPass, SweepAfterLastPass, HeartbeatCoversLeases, fg
<1>1. CASE RecoveryReturns
  BY <1>1 DEF RecoveryReturns
<1>2. CASE CallClaimNext
  BY <1>2 DEF CallClaimNext
<1>3. CASE Claimed
  BY <1>3 DEF Claimed
<1>4. CASE PassEnds
  BY <1>4 DEF PassEnds
<1>5. CASE ClearTick
  BY <1>5 DEF ClearTick
<1>6. CASE ChainedFires
  <2> USE DEF ChainedFires
  <2>1. CASE stopping
    BY <1>6, <2>1
  <2>2. CASE ~stopping /\ tickPromise = "none"
    BY <1>6, <2>2
  <2>3. CASE ~stopping /\ tickPromise # "none"
    BY <1>6, <2>3
  <2> QED
    BY <2>1, <2>2, <2>3
<1> QED
  BY <1>1, <1>2, <1>3, <1>4, <1>5, <1>6 DEF ClaimPass

LEMMA StoppingKeepsPump ==
    PumpInv /\ Stopping => PumpInv'
<1> SUFFICES ASSUME PumpInv, Stopping PROVE PumpInv'
  OBVIOUS
<1> USE PumpAssumption DEF PumpInv, PumpTypeOK, BodyInPass, SlotForCall, StopCloses, StopPastPass, OwedIsChained,
        WaitingHasPass, SweepAfterLastPass, HeartbeatCoversLeases, fg, tickState
<1>1. CASE Stop
  BY <1>1 DEF Stop
<1>2. CASE StopAwaitsTick
  BY <1>2 DEF StopAwaitsTick
<1>3. CASE StopAwaitsChained
  BY <1>3 DEF StopAwaitsChained
<1>4. CASE StopAwaitsClaims
  BY <1>4 DEF StopAwaitsClaims
<1>5. CASE StopSweeps
  BY <1>5 DEF StopSweeps
<1> QED
  BY <1>1, <1>2, <1>3, <1>4, <1>5 DEF Stopping

LEMMA ForegroundKeepsPump ==
    PumpInv /\ Foreground => PumpInv'
<1> SUFFICES ASSUME PumpInv, Foreground PROVE PumpInv'
  OBVIOUS
<1> USE PumpAssumption DEF PumpInv, PumpTypeOK, BodyInPass, SlotForCall, StopCloses, StopPastPass, OwedIsChained,
        WaitingHasPass, SweepAfterLastPass, HeartbeatCoversLeases, tickState
<1>1. CASE BeginForeground
  BY <1>1 DEF BeginForeground
<1>2. CASE ForegroundReady
  BY <1>2 DEF ForegroundReady
<1>3. CASE ForegroundFails
  BY <1>3 DEF ForegroundFails
<1>4. CASE EndForeground
  BY <1>4 DEF EndForeground
<1>5. CASE ForegroundEnded
  BY <1>5 DEF ForegroundEnded
<1>6. CASE ForegroundLost
  BY <1>6 DEF ForegroundLost
<1> QED
  BY <1>1, <1>2, <1>3, <1>4, <1>5, <1>6 DEF Foreground

LEMMA PumpStep ==
    PumpInv /\ [PumpNext]_pumpVars => PumpInv'
<1> SUFFICES ASSUME PumpInv, [PumpNext]_pumpVars PROVE PumpInv'
  OBVIOUS
<1>1. CASE Request
  <2>1. Tick /\ UNCHANGED <<running, stopping, stop, leases, ready, lost, ending, timer>>
    BY <1>1 DEF Request, fg
  <2> QED
    BY <2>1, TickKeepsPass DEF PumpInv, PumpTypeOK, SlotForCall, StopCloses, HeartbeatCoversLeases
<1>2. CASE ClaimEnds
  <2>1. Tick /\ UNCHANGED <<stopping, stop, leases, ready, lost, ending>>
    BY <1>2 DEF ClaimEnds, fg
  <2>2. running' = running - 1 /\ running > 0
    BY <1>2 DEF ClaimEnds
  <2>3. SlotForCall' /\ running' \in 0 .. MaxClaims
    BY <2>1, <2>2, TickKeepsPass, PumpAssumption DEF PumpInv, PumpTypeOK, SlotForCall
  <2>4. timer' \in BOOLEAN /\ HeartbeatCoversLeases'
    BY <1>2, <2>1, <2>2 DEF ClaimEnds, PumpInv, PumpTypeOK, HeartbeatCoversLeases
  <2> QED
    BY <2>1, <2>3, <2>4, TickKeepsPass DEF PumpInv, PumpTypeOK, StopCloses
<1>3. CASE UNCHANGED pumpVars
  BY <1>3 DEF pumpVars, PumpInv, PumpTypeOK, BodyInPass, SlotForCall, StopCloses, StopPastPass, OwedIsChained,
     WaitingHasPass, SweepAfterLastPass, HeartbeatCoversLeases
<1> QED
  BY <1>1, <1>2, <1>3, PassKeepsPump, StoppingKeepsPump, ForegroundKeepsPump DEF PumpNext

LEMMA PumpInvariant == PumpSpec => []PumpInv
BY InitPumpInv, PumpStep, PTL DEF PumpSpec

\* The pump keeps its shape, and runTick never takes more claims than there are slots.
THEOREM PumpTypes == PumpSpec => []PumpTypeOK
<1>1. PumpInv => PumpTypeOK
  BY DEF PumpInv
<1> QED
  BY <1>1, PumpInvariant, PTL

\* When stop() sweeps this owner's claims, no pass is in flight, and none begins later,
\* however often stop() has failed before.
THEOREM NoPassAfterSweep == PumpSpec => []SweepAfterLastPass
<1>1. PumpInv => SweepAfterLastPass
  BY DEF PumpInv
<1> QED
  BY <1>1, PumpInvariant, PTL

\* The heartbeat timer that claims and foreground leases share is set while one of
\* them needs it, whoever was the last to stop using it.
THEOREM LeasesAreRenewed == PumpSpec => []HeartbeatCoversLeases
<1>1. PumpInv => HeartbeatCoversLeases
  BY DEF PumpInv
<1> QED
  BY <1>1, PumpInvariant, PTL

-----------------------------------------------------------------------------
(* The contract. *)

LEMMA ContractInit == PumpInit => Contract!Init
BY DEF PumpInit, Contract!Init

\* tick() is a request during a pass, the beginning of a pass, or nothing to its callers.
LEMMA TickKeepsContract ==
    ASSUME PumpInv, Tick, stopping' = stopping
    PROVE  [Contract!Next]_(Contract!pump)
BY DEF Tick, BeginsPass, tickState, PumpInv, PumpTypeOK, Contract!Next, Contract!Request,
   Contract!BeginPass, Contract!pump

\* Every step of the pump is a step of its contract, or none that its callers see.
LEMMA ContractStep == PumpInv /\ [PumpNext]_pumpVars => [Contract!Next]_(Contract!pump)
<1> SUFFICES ASSUME PumpInv, [PumpNext]_pumpVars PROVE [Contract!Next]_(Contract!pump)
  OBVIOUS
<1>1. CASE Request \/ ClaimEnds
  BY <1>1, TickKeepsContract DEF Request, ClaimEnds
<1>2. CASE RecoveryReturns \/ CallClaimNext \/ Claimed
  BY <1>2 DEF RecoveryReturns, CallClaimNext, Claimed, Contract!pump
<1>3. CASE PassEnds
  BY <1>3 DEF PassEnds, PumpInv, BodyInPass, Contract!pump
<1>4. CASE ClearTick
  BY <1>4 DEF ClearTick, Contract!Next, Contract!EndPass
<1>5. CASE ChainedFires
  BY <1>5 DEF ChainedFires, PumpInv, PumpTypeOK, Contract!Next, Contract!BeginPass, Contract!pump
<1>6. CASE Stop
  BY <1>6 DEF Stop, PumpInv, PumpTypeOK, OwedIsChained, Contract!Next, Contract!Close, Contract!pump
<1>7. CASE StopAwaitsTick \/ StopAwaitsChained \/ StopAwaitsClaims \/ StopSweeps
  BY <1>7 DEF StopAwaitsTick, StopAwaitsChained, StopAwaitsClaims, StopSweeps, tickState, Contract!pump
<1>8. CASE Foreground
  BY <1>8 DEF Foreground, BeginForeground, ForegroundReady, ForegroundFails, EndForeground,
     ForegroundEnded, ForegroundLost, tickState, Contract!pump
<1>9. CASE UNCHANGED pumpVars
  BY <1>9 DEF pumpVars, Contract!pump
<1> QED
  BY <1>1, <1>2, <1>3, <1>4, <1>5, <1>6, <1>7, <1>8, <1>9 DEF PumpNext, ClaimPass, Stopping

\* The safety half of KeepsContract: passes never overlap, none begins once the pump
\* is closed, and only a pass that begins after a request pays for it.
THEOREM PumpKeepsContract ==
    PumpSpec => Contract!Init /\ [][Contract!Next]_(Contract!pump)
BY ContractInit, ContractStep, PumpInvariant, PTL DEF PumpSpec

-----------------------------------------------------------------------------
(* The recovery of handoffs: its types and, from one inductive invariant, that no *)
(* durable handoff is forgotten, that the capacity latch waits for its drain and  *)
(* that the drain respects redactions.                                            *)
\* The index is finite and within its capacity.
IndexOK == pending \subseteq Turn /\ Cardinality(pending) <= Capacity

\* TypeOK without the index.
ShapeOK ==
    /\ recorded \subseteq Turn /\ accepted \subseteq Turn
    /\ redacted \subseteq Turn /\ malformed \subseteq Turn
    /\ evidence \in [Owner -> {"clean", "unreadable", "corrupt", "retired"}]
    /\ live \subseteq Turn
    /\ snapshotRecovered \in BOOLEAN /\ capacityBlocked \in BOOLEAN
    /\ evidenceBlocked \in BOOLEAN
    /\ proc \in {"up", "aborting"}
    /\ phase \in {"idle", "scan", "enqueue", "dispose", "drain", "fenced"}
    /\ rest \subseteq Turn /\ at \in Turn \cup {NoTurn}
    /\ skip \in [blocked : SUBSET Owner, corrupt : SUBSET Owner, skipped : BOOLEAN]
    /\ failed \in BOOLEAN
    /\ waived \subseteq Turn /\ stuck \subseteq Turn /\ faults \in 0 .. MaxFaults

\* A recovery that enqueues has a turn to enqueue.
AtOK == phase \in {"enqueue", "fenced"} => at \in Turn

HInv == ShapeOK /\ IndexOK /\ AtOK

\* A turn that finds room leaves the index within its capacity: it is there
\* already, or the index has fewer references than it may hold.
LEMMA AddReference ==
    ASSUME IndexOK, NEW t \in Turn, HasRoom(t)
    PROVE  pending \cup {t} \subseteq Turn /\ Cardinality(pending \cup {t}) <= Capacity
<1>1. IsFiniteSet(pending)
  BY FS_Subset, HandoffAssumption DEF IndexOK
<1>2. CASE t \in pending
  <2>1. pending \cup {t} = pending
    BY <1>2
  <2> QED BY <2>1 DEF IndexOK
<1>3. CASE t \notin pending
  <2>1. Cardinality(pending \cup {t}) = Cardinality(pending) + 1
    BY <1>1, <1>3, FS_AddElement
  <2>2. Cardinality(pending) \in Nat
    BY <1>1, FS_CardinalityType
  <2>3. Cardinality(pending) < Capacity
    BY <1>3 DEF HasRoom
  <2> QED BY <2>1, <2>2, <2>3, HandoffAssumption DEF IndexOK
<1> QED BY <1>2, <1>3

\* A turn that leaves the index keeps it within its capacity.
LEMMA RemoveReference ==
    ASSUME IndexOK, NEW t
    PROVE  pending \ {t} \subseteq Turn /\ Cardinality(pending \ {t}) <= Capacity
<1>1. IsFiniteSet(pending)
  BY FS_Subset, HandoffAssumption DEF IndexOK
<1>2. Cardinality(pending \ {t}) <= Cardinality(pending)
  BY <1>1, FS_Subset, pending \ {t} \subseteq pending
<1>3. Cardinality(pending) \in Nat /\ Cardinality(pending \ {t}) \in Nat
  BY <1>1, FS_CardinalityType, FS_Subset, pending \ {t} \subseteq pending
<1>4. Cardinality(pending \ {t}) <= Capacity
  BY <1>2, <1>3, HandoffAssumption DEF IndexOK
<1>5. pending \ {t} \subseteq Turn
  BY DEF IndexOK
<1> QED BY <1>4, <1>5

\* The empty index of a new process is within its capacity.
LEMMA EmptyIndex == {} \subseteq Turn /\ Cardinality({}) <= Capacity
  BY FS_EmptySet, HandoffAssumption

\* The empty record of skipped owners has its type.
LEMMA NoSkipType ==
    NoSkip \in [blocked : SUBSET Owner, corrupt : SUBSET Owner, skipped : BOOLEAN]
  BY DEF NoSkip

\* The initial state has the types.
LEMMA InitHInv == HandoffInit => HInv
<1> SUFFICES ASSUME HandoffInit PROVE HInv
  OBVIOUS
<1>1. IndexOK
  BY EmptyIndex DEF HandoffInit, IndexOK
<1>2. AtOK
  BY DEF HandoffInit, AtOK
<1>3. ShapeOK
  <2>1. /\ snapshotRecovered \in BOOLEAN /\ capacityBlocked \in BOOLEAN
        /\ evidenceBlocked \in BOOLEAN /\ failed \in BOOLEAN
    BY Zenon DEF HandoffInit
  <2>2. skip \in [blocked : SUBSET Owner, corrupt : SUBSET Owner, skipped : BOOLEAN]
    BY NoSkipType, Zenon DEF HandoffInit
  <2>3. faults \in 0 .. MaxFaults
    BY HandoffAssumption DEF HandoffInit
  <2> QED BY <2>1, <2>2, <2>3 DEF HandoffInit, ShapeOK, NoTurn
<1> QED BY <1>1, <1>2, <1>3 DEF HInv

\* One more fault stays within the bound.
LEMMA FaultStep ==
    ASSUME faults \in 0 .. MaxFaults, Fault \/ UNCHANGED faults
    PROVE  faults' \in 0 .. MaxFaults
  BY HandoffAssumption DEF Fault

\* A rejected batch is in the ledger or it is not.
LEMMA RejectsStep ==
    ASSUME accepted \subseteq Turn, faults \in 0 .. MaxFaults, NEW t \in Turn, Rejects(t)
    PROVE  accepted' \subseteq Turn /\ faults' \in 0 .. MaxFaults
<1>1. Fault \/ UNCHANGED faults
  BY DEF Rejects
<1>2. accepted' \subseteq Turn
  BY DEF Rejects
<1> QED BY <1>1, <1>2, FaultStep

\* Every step keeps the shapes of the variables other than the index.
LEMMA ShapeStep == ASSUME HInv, [HandoffNext]_handoffVars PROVE ShapeOK'
<1> USE NoSkipType
   , HandoffAssumption DEF HInv, ShapeOK, disk, latches, scan, NoTurn, IndexOK, AtOK
<1>1. ASSUME NEW t \in Turn, RecordTurn(t) PROVE ShapeOK'
  BY <1>1 DEF RecordTurn
<1>2. ASSUME NEW t \in Turn, ReplayTurn(t) PROVE ShapeOK'
  BY <1>2 DEF ReplayTurn
<1>3. ASSUME NEW t \in Turn, LiveEnqueue(t) PROVE ShapeOK'
  BY <1>3 DEF LiveEnqueue, Accepts
<1>4. ASSUME NEW t \in Turn, LiveEnqueueFails(t) PROVE ShapeOK'
  <2>1. accepted' \subseteq Turn /\ faults' \in 0 .. MaxFaults
    BY <1>4, RejectsStep DEF LiveEnqueueFails
  <2> QED BY <1>4, <2>1 DEF LiveEnqueueFails
<1>5. ASSUME NEW t \in Turn, DrainReadFails(t) PROVE ShapeOK'
  <2>1. faults' \in 0 .. MaxFaults
    BY <1>5, FaultStep DEF DrainReadFails
  <2> QED BY <1>5, <2>1 DEF DrainReadFails
<1>6. ASSUME NEW t \in Turn, Redact(t) PROVE ShapeOK'
  <2>1. faults' \in 0 .. MaxFaults
    BY <1>6, FaultStep DEF Redact
  <2> QED BY <1>6, <2>1 DEF Redact
<1>7. ASSUME NEW t \in Turn, Restore(t) PROVE ShapeOK'
  BY <1>7 DEF Restore
<1>8. ASSUME NEW t \in Turn, Malform(t) PROVE ShapeOK'
  <2>1. faults' \in 0 .. MaxFaults
    BY <1>8, FaultStep DEF Malform
  <2> QED BY <1>8, <2>1 DEF Malform
<1>9. ASSUME NEW t \in Turn, Mend(t) PROVE ShapeOK'
  BY <1>9 DEF Mend
<1>10. ASSUME NEW t \in Turn, ScanRecord(t) PROVE ShapeOK'
  BY <1>10 DEF ScanRecord
<1>11. ASSUME NEW t \in Turn, DrainRead(t) PROVE ShapeOK'
  <2>1. failed' \in BOOLEAN
    BY <1>11, Zenon DEF DrainRead
  <2>2. at' \in Turn \cup {NoTurn}
    BY <1>11 DEF DrainRead
  <2>3. waived' \subseteq Turn /\ rest' \subseteq Turn
    BY <1>11 DEF DrainRead
  <2> QED BY <1>11, <2>1, <2>2, <2>3 DEF DrainRead
<1>12. ASSUME NEW o \in Owner, Degrade(o) PROVE ShapeOK'
  <2>1. faults' \in 0 .. MaxFaults
    BY <1>12, FaultStep DEF Degrade
  <2> QED BY <1>12, <2>1 DEF Degrade
<1>13. ASSUME NEW o \in Owner, Settle(o) PROVE ShapeOK'
  BY <1>13 DEF Settle
<1>14. ASSUME NEW o \in Owner, Dispose(o) PROVE ShapeOK'
  <2>1. evidence' \in [Owner -> {"clean", "unreadable", "corrupt", "retired"}]
    BY <1>14 DEF Dispose
  <2>2. skip' \in [blocked : SUBSET Owner, corrupt : SUBSET Owner, skipped : BOOLEAN]
    BY <1>14 DEF Dispose, EndRecovery
  <2> QED BY <1>14, <2>1, <2>2 DEF Dispose, EndRecovery
<1>15. CASE BeginRecovery
  BY <1>15 DEF BeginRecovery, BeginDrain
<1>16. CASE ScanPoisoned
  BY <1>16 DEF ScanPoisoned, EndRecovery
<1>17. CASE ScanEnqueue
  BY <1>17 DEF ScanEnqueue, Accepts
<1>18. CASE ScanEnqueueFails
  <2>1. accepted' \subseteq Turn /\ faults' \in 0 .. MaxFaults
    BY <1>18, RejectsStep DEF ScanEnqueueFails
  <2> QED BY <1>18, <2>1 DEF ScanEnqueueFails, EndRecovery
<1>19. CASE ScanEnds
  BY <1>19 DEF ScanEnds, BeginDrain, EndRecovery
<1>20. CASE DisposeEnds
  BY <1>20 DEF DisposeEnds, BeginDrain
<1>21. CASE DrainEnqueue
  BY <1>21 DEF DrainEnqueue, Accepts
<1>22. CASE DrainEnqueueFails
  <2>1. accepted' \subseteq Turn /\ faults' \in 0 .. MaxFaults
    BY <1>22, RejectsStep DEF DrainEnqueueFails
  <2> QED BY <1>22, <2>1 DEF DrainEnqueueFails
<1>23. CASE DrainEnds
  BY <1>23 DEF DrainEnds, EndRecovery
<1>24. CASE RecoveryAborted
  BY <1>24 DEF RecoveryAborted, EndRecovery
<1>25. CASE ScanFails
  <2>1. faults' \in 0 .. MaxFaults
    BY <1>25, FaultStep DEF ScanFails
  <2> QED BY <1>25, <2>1 DEF ScanFails, EndRecovery
<1>26. CASE DisposeFails
  <2>1. faults' \in 0 .. MaxFaults
    BY <1>26, FaultStep DEF DisposeFails
  <2> QED BY <1>26, <2>1 DEF DisposeFails, EndRecovery
<1>27. CASE AbortRecovery
  <2>1. faults' \in 0 .. MaxFaults
    BY <1>27, FaultStep DEF AbortRecovery
  <2> QED BY <1>27, <2>1 DEF AbortRecovery
<1>28. CASE Restart
  <2>1. faults' \in 0 .. MaxFaults
    BY <1>28, FaultStep DEF Restart
  <2>2. skip' \in [blocked : SUBSET Owner, corrupt : SUBSET Owner, skipped : BOOLEAN]
    BY <1>28, NoSkipType, Zenon DEF Restart, EndRecovery
  <2> QED BY <1>28, <2>1, <2>2 DEF Restart, EndRecovery
<1>29. CASE UNCHANGED handoffVars
  BY <1>29 DEF handoffVars
<1> QED BY <1>1, <1>2, <1>3, <1>4, <1>5, <1>6, <1>7, <1>8, <1>9, <1>10, <1>11, <1>12, <1>13,
      <1>14, <1>15, <1>16, <1>17, <1>18, <1>19, <1>20, <1>21, <1>22, <1>23, <1>24, <1>25,
      <1>26, <1>27, <1>28, <1>29 DEF HandoffNext, Recovery, LiveTurn

\* Every step keeps the index within its capacity.
LEMMA IndexStep == ASSUME HInv, [HandoffNext]_handoffVars PROVE IndexOK'
<1> USE DEF HInv, IndexOK, disk, latches, scan
<1>1. ASSUME NEW t \in Turn, RecordTurn(t) PROVE IndexOK'
  BY <1>1 DEF RecordTurn
<1>2. ASSUME NEW t \in Turn, ReplayTurn(t) PROVE IndexOK'
  BY <1>2 DEF ReplayTurn
<1>3. ASSUME NEW t \in Turn, LiveEnqueue(t) PROVE IndexOK'
  BY <1>3 DEF LiveEnqueue, Accepts
<1>4. ASSUME NEW t \in Turn, LiveEnqueueFails(t) PROVE IndexOK'
  <2>1. CASE HasRoom(t)
    BY <1>4, <2>1, AddReference DEF LiveEnqueueFails
  <2>2. CASE ~HasRoom(t)
    BY <1>4, <2>2 DEF LiveEnqueueFails
  <2> QED BY <2>1, <2>2
<1>5. ASSUME NEW t \in Turn, DrainReadFails(t) PROVE IndexOK'
  BY <1>5 DEF DrainReadFails
<1>6. ASSUME NEW t \in Turn, Redact(t) PROVE IndexOK'
  BY <1>6 DEF Redact
<1>7. ASSUME NEW t \in Turn, Restore(t) PROVE IndexOK'
  BY <1>7 DEF Restore
<1>8. ASSUME NEW t \in Turn, Malform(t) PROVE IndexOK'
  BY <1>8 DEF Malform
<1>9. ASSUME NEW t \in Turn, Mend(t) PROVE IndexOK'
  BY <1>9 DEF Mend
<1>10. ASSUME NEW t \in Turn, ScanRecord(t) PROVE IndexOK'
  BY <1>10 DEF ScanRecord
<1>11. ASSUME NEW t \in Turn, DrainRead(t) PROVE IndexOK'
  <2>1. CASE pending' = pending \ {t}
    BY <2>1, RemoveReference
  <2>2. CASE UNCHANGED pending
    BY <2>2
  <2> QED BY <1>11, <2>1, <2>2 DEF DrainRead
<1>12. ASSUME NEW o \in Owner, Degrade(o) PROVE IndexOK'
  BY <1>12 DEF Degrade
<1>13. ASSUME NEW o \in Owner, Settle(o) PROVE IndexOK'
  BY <1>13 DEF Settle
<1>14. ASSUME NEW o \in Owner, Dispose(o) PROVE IndexOK'
  BY <1>14 DEF Dispose, EndRecovery
<1>15. CASE BeginRecovery
  BY <1>15 DEF BeginRecovery, BeginDrain
<1>16. CASE ScanPoisoned
  BY <1>16 DEF ScanPoisoned, EndRecovery
<1>17. CASE ScanEnqueue
  BY <1>17 DEF ScanEnqueue, Accepts
<1>18. CASE ScanEnqueueFails
  <2>1. CASE HasRoom(at) /\ pending' = pending \cup {at}
    BY <1>18, <2>1, AddReference DEF ScanEnqueueFails, AtOK
  <2>2. CASE UNCHANGED pending
    BY <2>2
  <2> QED BY <1>18, <2>1, <2>2 DEF ScanEnqueueFails
<1>19. CASE ScanEnds
  BY <1>19 DEF ScanEnds, BeginDrain, EndRecovery
<1>20. CASE DisposeEnds
  BY <1>20 DEF DisposeEnds, BeginDrain
<1>21. CASE DrainEnqueue
  BY <1>21, RemoveReference DEF DrainEnqueue
<1>22. CASE DrainEnqueueFails
  BY <1>22 DEF DrainEnqueueFails
<1>23. CASE DrainEnds
  BY <1>23 DEF DrainEnds, EndRecovery
<1>24. CASE RecoveryAborted
  BY <1>24 DEF RecoveryAborted, EndRecovery
<1>25. CASE ScanFails
  BY <1>25 DEF ScanFails, EndRecovery
<1>26. CASE DisposeFails
  BY <1>26 DEF DisposeFails, EndRecovery
<1>27. CASE AbortRecovery
  BY <1>27 DEF AbortRecovery
<1>28. CASE Restart
  BY <1>28, EmptyIndex DEF Restart
<1>29. CASE UNCHANGED handoffVars
  BY <1>29 DEF handoffVars
<1> QED BY <1>1, <1>2, <1>3, <1>4, <1>5, <1>6, <1>7, <1>8, <1>9, <1>10, <1>11, <1>12, <1>13,
      <1>14, <1>15, <1>16, <1>17, <1>18, <1>19, <1>20, <1>21, <1>22, <1>23, <1>24, <1>25,
      <1>26, <1>27, <1>28, <1>29 DEF HandoffNext, Recovery, LiveTurn

\* Every step that leads to an enqueue names its turn.
LEMMA AtStep == ASSUME HInv, [HandoffNext]_handoffVars PROVE AtOK'
<1> USE DEF HInv, AtOK, ShapeOK, disk, latches, scan
<1>1. ASSUME NEW t \in Turn, RecordTurn(t) PROVE AtOK'
  BY <1>1 DEF RecordTurn
<1>2. ASSUME NEW t \in Turn, ReplayTurn(t) PROVE AtOK'
  BY <1>2 DEF ReplayTurn
<1>3. ASSUME NEW t \in Turn, LiveEnqueue(t) PROVE AtOK'
  BY <1>3 DEF LiveEnqueue, Accepts
<1>4. ASSUME NEW t \in Turn, LiveEnqueueFails(t) PROVE AtOK'
  BY <1>4 DEF LiveEnqueueFails
<1>5. ASSUME NEW t \in Turn, DrainReadFails(t) PROVE AtOK'
  BY <1>5 DEF DrainReadFails
<1>6. ASSUME NEW t \in Turn, Redact(t) PROVE AtOK'
  BY <1>6 DEF Redact
<1>7. ASSUME NEW t \in Turn, Restore(t) PROVE AtOK'
  BY <1>7 DEF Restore
<1>8. ASSUME NEW t \in Turn, Malform(t) PROVE AtOK'
  BY <1>8 DEF Malform
<1>9. ASSUME NEW t \in Turn, Mend(t) PROVE AtOK'
  BY <1>9 DEF Mend
<1>10. ASSUME NEW t \in Turn, ScanRecord(t) PROVE AtOK'
  BY <1>10 DEF ScanRecord
<1>11. ASSUME NEW t \in Turn, DrainRead(t) PROVE AtOK'
  BY <1>11 DEF DrainRead
<1>12. ASSUME NEW o \in Owner, Degrade(o) PROVE AtOK'
  BY <1>12 DEF Degrade
<1>13. ASSUME NEW o \in Owner, Settle(o) PROVE AtOK'
  BY <1>13 DEF Settle
<1>14. ASSUME NEW o \in Owner, Dispose(o) PROVE AtOK'
  BY <1>14 DEF Dispose, EndRecovery
<1>15. CASE BeginRecovery
  BY <1>15 DEF BeginRecovery, BeginDrain
<1>16. CASE ScanPoisoned
  BY <1>16 DEF ScanPoisoned, EndRecovery
<1>17. CASE ScanEnqueue
  BY <1>17 DEF ScanEnqueue, Accepts
<1>18. CASE ScanEnqueueFails
  BY <1>18 DEF ScanEnqueueFails, EndRecovery
<1>19. CASE ScanEnds
  BY <1>19 DEF ScanEnds, BeginDrain, EndRecovery
<1>20. CASE DisposeEnds
  BY <1>20 DEF DisposeEnds, BeginDrain
<1>21. CASE DrainEnqueue
  BY <1>21 DEF DrainEnqueue, Accepts
<1>22. CASE DrainEnqueueFails
  BY <1>22 DEF DrainEnqueueFails
<1>23. CASE DrainEnds
  BY <1>23 DEF DrainEnds, EndRecovery
<1>24. CASE RecoveryAborted
  BY <1>24 DEF RecoveryAborted, EndRecovery
<1>25. CASE ScanFails
  BY <1>25 DEF ScanFails, EndRecovery
<1>26. CASE DisposeFails
  BY <1>26 DEF DisposeFails, EndRecovery
<1>27. CASE AbortRecovery
  BY <1>27 DEF AbortRecovery
<1>28. CASE Restart
  BY <1>28 DEF Restart, EndRecovery
<1>29. CASE UNCHANGED handoffVars
  BY <1>29 DEF handoffVars
<1> QED BY <1>1, <1>2, <1>3, <1>4, <1>5, <1>6, <1>7, <1>8, <1>9, <1>10, <1>11, <1>12, <1>13,
      <1>14, <1>15, <1>16, <1>17, <1>18, <1>19, <1>20, <1>21, <1>22, <1>23, <1>24, <1>25,
      <1>26, <1>27, <1>28, <1>29 DEF HandoffNext, Recovery, LiveTurn

\* The types are inductive.
LEMMA NextHInv == ASSUME HInv, [HandoffNext]_handoffVars PROVE HInv'
  BY ShapeStep, IndexStep, AtStep DEF HInv

\* Every variable keeps its type in every reachable state, and the retry index
\* never outgrows the batch that drains it, for any number of turns and owners
\* and any capacity (indexReference).
THEOREM HandoffTypes == HandoffSpec => []HandoffTypeOK
<1>1. HandoffInit => HInv
  BY InitHInv
<1>2. HInv /\ [HandoffNext]_handoffVars => HInv'
  BY NextHInv
<1>3. HInv => HandoffTypeOK
  BY DEF HInv, ShapeOK, IndexOK, HandoffTypeOK
<1> QED BY <1>1, <1>2, <1>3, PTL DEF HandoffSpec

\* What is left to a scan that has skipped nobody is the only gap in what is
\* known of the durable turns.
Known == accepted \cup live \cup pending \cup waived

ForgetInv ==
    /\ snapshotRecovered => recorded \subseteq Known
    /\ phase \in {"scan", "enqueue"} /\ ~skip.skipped
         => recorded \subseteq Known \cup rest \cup {at}
    /\ phase = "scan" => at = NoTurn
    /\ skip.blocked # {} => skip.skipped

\* Every step keeps track of the durable turns.
LEMMA ForgetStep == ASSUME HInv, ForgetInv, [HandoffNext]_handoffVars PROVE ForgetInv'
<1> USE HandoffAssumption DEF HInv, ForgetInv, Known, ShapeOK, NoSkip, NoTurn, disk, latches, scan
<1>1. ASSUME NEW t \in Turn, RecordTurn(t) PROVE ForgetInv'
  BY <1>1 DEF RecordTurn
<1>2. ASSUME NEW t \in Turn, ReplayTurn(t) PROVE ForgetInv'
  BY <1>2 DEF ReplayTurn
<1>3. ASSUME NEW t \in Turn, LiveEnqueue(t) PROVE ForgetInv'
  BY <1>3 DEF LiveEnqueue, Accepts
<1>4. ASSUME NEW t \in Turn, LiveEnqueueFails(t) PROVE ForgetInv'
  BY <1>4 DEF LiveEnqueueFails, Rejects, Fault
<1>5. ASSUME NEW t \in Turn, DrainReadFails(t) PROVE ForgetInv'
  BY <1>5 DEF DrainReadFails, Fault
<1>6. ASSUME NEW t \in Turn, Redact(t) PROVE ForgetInv'
  BY <1>6 DEF Redact, Fault
<1>7. ASSUME NEW t \in Turn, Restore(t) PROVE ForgetInv'
  BY <1>7 DEF Restore
<1>8. ASSUME NEW t \in Turn, Malform(t) PROVE ForgetInv'
  BY <1>8 DEF Malform, Fault
<1>9. ASSUME NEW t \in Turn, Mend(t) PROVE ForgetInv'
  BY <1>9 DEF Mend
<1>10. ASSUME NEW t \in Turn, ScanRecord(t) PROVE ForgetInv'
  BY <1>10 DEF ScanRecord
<1>11. ASSUME NEW t \in Turn, DrainRead(t) PROVE ForgetInv'
  BY <1>11 DEF DrainRead
<1>12. ASSUME NEW o \in Owner, Degrade(o) PROVE ForgetInv'
  BY <1>12 DEF Degrade, Fault
<1>13. ASSUME NEW o \in Owner, Settle(o) PROVE ForgetInv'
  BY <1>13 DEF Settle
<1>14. ASSUME NEW o \in Owner, Dispose(o) PROVE ForgetInv'
  BY <1>14 DEF Dispose, EndRecovery
<1>15. CASE BeginRecovery
  BY <1>15 DEF BeginRecovery, BeginDrain
<1>16. CASE ScanPoisoned
  BY <1>16 DEF ScanPoisoned, EndRecovery
<1>17. CASE ScanEnqueue
  BY <1>17 DEF ScanEnqueue, Accepts
<1>18. CASE ScanEnqueueFails
  BY <1>18 DEF ScanEnqueueFails, Rejects, Fault, EndRecovery
<1>19. CASE ScanEnds
  BY <1>19 DEF ScanEnds, BeginDrain, EndRecovery
<1>20. CASE DisposeEnds
  BY <1>20 DEF DisposeEnds, BeginDrain
<1>21. CASE DrainEnqueue
  BY <1>21 DEF DrainEnqueue, Accepts
<1>22. CASE DrainEnqueueFails
  BY <1>22 DEF DrainEnqueueFails, Rejects, Fault
<1>23. CASE DrainEnds
  BY <1>23 DEF DrainEnds, EndRecovery
<1>24. CASE RecoveryAborted
  BY <1>24 DEF RecoveryAborted, EndRecovery
<1>25. CASE ScanFails
  BY <1>25 DEF ScanFails, EndRecovery, Fault
<1>26. CASE DisposeFails
  BY <1>26 DEF DisposeFails, EndRecovery, Fault
<1>27. CASE AbortRecovery
  BY <1>27 DEF AbortRecovery, Fault
<1>28. CASE Restart
  BY <1>28 DEF Restart, EndRecovery, Fault
<1>29. CASE UNCHANGED handoffVars
  BY <1>29 DEF handoffVars
<1> QED BY <1>1, <1>2, <1>3, <1>4, <1>5, <1>6, <1>7, <1>8, <1>9, <1>10, <1>11, <1>12, <1>13,
      <1>14, <1>15, <1>16, <1>17, <1>18, <1>19, <1>20, <1>21, <1>22, <1>23, <1>24, <1>25,
      <1>26, <1>27, <1>28, <1>29 DEF HandoffNext, Recovery, LiveTurn

\* No durable turn whose jobs the store lacks is ever forgotten by a process that
\* scans no more, for any history and any sequence of outages, crashes,
\* redactions and corruptions (recover, run, recordTurn before enqueue).
THEOREM NoHandoffForgotten == HandoffSpec => []NothingForgotten
<1>1. HandoffInit => HInv /\ ForgetInv
  <2>1. HandoffInit => ForgetInv
    BY DEF HandoffInit, ForgetInv, NoSkip
  <2> QED
    BY <2>1, InitHInv
<1>2. HInv /\ ForgetInv /\ [HandoffNext]_handoffVars => (HInv /\ ForgetInv)'
  BY NextHInv, ForgetStep
<1>3. ForgetInv => NothingForgotten
  BY DEF ForgetInv, Known, NothingForgotten
<1> QED BY <1>1, <1>2, <1>3, PTL DEF HandoffSpec

\* While the capacity latch is closed no scan runs, what filled the index is in
\* it, accepted or set aside, and a drain without an error has dealt with all of
\* it but what is still in its batch.
LatchInv ==
    /\ capacityBlocked => /\ phase \in {"idle", "drain", "fenced"}
                          /\ stuck \subseteq pending \cup accepted \cup waived
    /\ capacityBlocked /\ phase \in {"drain", "fenced"} /\ ~failed
         => stuck \cap pending \subseteq accepted \cup waived \cup rest \cup {at}
    /\ phase = "drain" => at = NoTurn
    /\ stuck \subseteq Turn

\* Every step keeps the latch's account of the index.
LEMMA LatchStep == ASSUME HInv, LatchInv, [HandoffNext]_handoffVars PROVE LatchInv'
<1> USE HandoffAssumption DEF HInv, LatchInv, ShapeOK, IndexOK, NoTurn, disk, latches, scan
<1>1. ASSUME NEW t \in Turn, RecordTurn(t) PROVE LatchInv'
  BY <1>1 DEF RecordTurn
<1>2. ASSUME NEW t \in Turn, ReplayTurn(t) PROVE LatchInv'
  BY <1>2 DEF ReplayTurn
<1>3. ASSUME NEW t \in Turn, LiveEnqueue(t) PROVE LatchInv'
  BY <1>3 DEF LiveEnqueue, Accepts
<1>4. ASSUME NEW t \in Turn, LiveEnqueueFails(t) PROVE LatchInv'
  BY <1>4 DEF LiveEnqueueFails, Rejects, Fault
<1>5. ASSUME NEW t \in Turn, DrainReadFails(t) PROVE LatchInv'
  BY <1>5 DEF DrainReadFails, Fault
<1>6. ASSUME NEW t \in Turn, Redact(t) PROVE LatchInv'
  BY <1>6 DEF Redact, Fault
<1>7. ASSUME NEW t \in Turn, Restore(t) PROVE LatchInv'
  BY <1>7 DEF Restore
<1>8. ASSUME NEW t \in Turn, Malform(t) PROVE LatchInv'
  BY <1>8 DEF Malform, Fault
<1>9. ASSUME NEW t \in Turn, Mend(t) PROVE LatchInv'
  BY <1>9 DEF Mend
<1>10. ASSUME NEW t \in Turn, ScanRecord(t) PROVE LatchInv'
  BY <1>10 DEF ScanRecord
<1>11. ASSUME NEW t \in Turn, DrainRead(t) PROVE LatchInv'
  <2>1. UNCHANGED <<capacityBlocked, stuck, accepted>> /\ phase = "drain" /\ at = NoTurn
    BY <1>11 DEF DrainRead
  <2>2. CASE t \in redacted \cup malformed
    <3>1. /\ pending' = pending \ {t} /\ waived' = waived \cup {t} /\ rest' = rest \ {t}
          /\ phase' = phase /\ at' = at /\ (failed => failed')
      BY <1>11, <2>2 DEF DrainRead
    <3> QED BY <2>1, <3>1
  <2>3. CASE t \notin redacted \cup malformed
    <3>1. /\ phase' = "fenced" /\ at' = t /\ rest' = rest \ {t}
          /\ UNCHANGED <<pending, waived, failed>>
      BY <1>11, <2>3 DEF DrainRead
    <3> QED BY <2>1, <3>1, HandoffAssumption
  <2> QED BY <2>2, <2>3
<1>12. ASSUME NEW o \in Owner, Degrade(o) PROVE LatchInv'
  BY <1>12 DEF Degrade, Fault
<1>13. ASSUME NEW o \in Owner, Settle(o) PROVE LatchInv'
  BY <1>13 DEF Settle
<1>14. ASSUME NEW o \in Owner, Dispose(o) PROVE LatchInv'
  BY <1>14 DEF Dispose, EndRecovery
<1>15. CASE BeginRecovery
  BY <1>15 DEF BeginRecovery, BeginDrain
<1>16. CASE ScanPoisoned
  BY <1>16 DEF ScanPoisoned, EndRecovery
<1>17. CASE ScanEnqueue
  BY <1>17 DEF ScanEnqueue, Accepts
<1>18. CASE ScanEnqueueFails
  <2>1. ~capacityBlocked /\ stuck \subseteq Turn /\ pending \subseteq Turn
    BY <1>18 DEF ScanEnqueueFails
  <2>2. CASE HasRoom(at)
    <3>1. phase' = "scan" /\ UNCHANGED <<capacityBlocked, stuck>>
      BY <1>18, <2>2 DEF ScanEnqueueFails
    <3> QED BY <2>1, <3>1
  <2>3. CASE ~HasRoom(at)
    <3>1. phase' = "idle" /\ stuck' = pending /\ pending' = pending
      BY <1>18, <2>3 DEF ScanEnqueueFails, EndRecovery
    <3> QED BY <2>1, <3>1
  <2> QED BY <2>2, <2>3
<1>19. CASE ScanEnds
  BY <1>19 DEF ScanEnds, BeginDrain, EndRecovery
<1>20. CASE DisposeEnds
  BY <1>20 DEF DisposeEnds, BeginDrain
<1>21. CASE DrainEnqueue
  BY <1>21 DEF DrainEnqueue, Accepts
<1>22. CASE DrainEnqueueFails
  BY <1>22 DEF DrainEnqueueFails, Rejects, Fault
<1>23. CASE DrainEnds
  BY <1>23 DEF DrainEnds, EndRecovery
<1>24. CASE RecoveryAborted
  BY <1>24 DEF RecoveryAborted, EndRecovery
<1>25. CASE ScanFails
  BY <1>25 DEF ScanFails, EndRecovery, Fault
<1>26. CASE DisposeFails
  BY <1>26 DEF DisposeFails, EndRecovery, Fault
<1>27. CASE AbortRecovery
  BY <1>27 DEF AbortRecovery, Fault
<1>28. CASE Restart
  BY <1>28 DEF Restart, EndRecovery, Fault
<1>29. CASE UNCHANGED handoffVars
  BY <1>29 DEF handoffVars
<1> QED BY <1>1, <1>2, <1>3, <1>4, <1>5, <1>6, <1>7, <1>8, <1>9, <1>10, <1>11, <1>12, <1>13,
      <1>14, <1>15, <1>16, <1>17, <1>18, <1>19, <1>20, <1>21, <1>22, <1>23, <1>24, <1>25,
      <1>26, <1>27, <1>28, <1>29 DEF HandoffNext, Recovery, LiveTurn

\* The capacity latch opens only after a drain that dealt with everything that
\* filled the index, whatever live turns add to it meanwhile (run, recover).
THEOREM LatchIsHeld == HandoffSpec => LatchHeldUntilDrained
<1>1. HandoffInit => HInv /\ LatchInv
  BY InitHInv DEF HandoffInit, LatchInv
<1>2. HInv /\ LatchInv /\ [HandoffNext]_handoffVars => (HInv /\ LatchInv)'
  BY NextHInv, LatchStep
<1>3. ASSUME HInv, LatchInv, [HandoffNext]_handoffVars, capacityBlocked, ~capacityBlocked'
      PROVE  stuck \cap pending' \subseteq accepted \cup waived
  <2>1. DrainEnds \/ Restart
    BY <1>3 DEF HandoffNext, Recovery, LiveTurn, handoffVars, latches, RecordTurn, ReplayTurn,
       LiveEnqueue,
       LiveEnqueueFails, DrainReadFails, Redact, Restore, Malform, Mend, Degrade, Settle,
       BeginRecovery, ScanRecord, ScanPoisoned, ScanFails, ScanEnqueue, ScanEnqueueFails,
       ScanEnds, Dispose, DisposeFails, DisposeEnds, DrainRead, DrainEnqueue,
       DrainEnqueueFails, AbortRecovery, RecoveryAborted
  <2>2. CASE DrainEnds
    <3>1. ~failed
      BY <1>3, <2>2 DEF DrainEnds
    <3>2. stuck \cap pending \subseteq accepted \cup waived \cup rest \cup {at}
      BY <1>3, <2>2, <3>1 DEF DrainEnds, LatchInv
    <3> QED BY <1>3, <2>2, <3>2, HandoffAssumption DEF DrainEnds, LatchInv, NoTurn
  <2>3. CASE Restart
    BY <2>3 DEF Restart
  <2> QED BY <2>1, <2>2, <2>3
<1>4. HInv /\ LatchInv /\ [HandoffNext]_handoffVars
      => [capacityBlocked /\ ~capacityBlocked'
            => stuck \cap pending' \subseteq accepted \cup waived]_handoffVars
  BY <1>3
<1> QED BY <1>1, <1>2, <1>4, PTL DEF HandoffSpec, LatchHeldUntilDrained

\* A turn under its eligibility fence is not redacted.
FencedInv == phase = "fenced" => at \notin redacted

\* Every step keeps the fenced turn eligible.
LEMMA FencedStep == ASSUME FencedInv, [HandoffNext]_handoffVars PROVE FencedInv'
<1> USE DEF FencedInv, disk, latches, scan
<1>1. ASSUME NEW t \in Turn, RecordTurn(t) PROVE FencedInv'
  BY <1>1 DEF RecordTurn
<1>2. ASSUME NEW t \in Turn, ReplayTurn(t) PROVE FencedInv'
  BY <1>2 DEF ReplayTurn
<1>3. ASSUME NEW t \in Turn, LiveEnqueue(t) PROVE FencedInv'
  BY <1>3 DEF LiveEnqueue, Accepts
<1>4. ASSUME NEW t \in Turn, LiveEnqueueFails(t) PROVE FencedInv'
  BY <1>4 DEF LiveEnqueueFails, Rejects, Fault
<1>5. ASSUME NEW t \in Turn, DrainReadFails(t) PROVE FencedInv'
  BY <1>5 DEF DrainReadFails, Fault
<1>6. ASSUME NEW t \in Turn, Redact(t) PROVE FencedInv'
  BY <1>6 DEF Redact, Fault
<1>7. ASSUME NEW t \in Turn, Restore(t) PROVE FencedInv'
  BY <1>7 DEF Restore
<1>8. ASSUME NEW t \in Turn, Malform(t) PROVE FencedInv'
  BY <1>8 DEF Malform, Fault
<1>9. ASSUME NEW t \in Turn, Mend(t) PROVE FencedInv'
  BY <1>9 DEF Mend
<1>10. ASSUME NEW t \in Turn, ScanRecord(t) PROVE FencedInv'
  BY <1>10 DEF ScanRecord
<1>11. ASSUME NEW t \in Turn, DrainRead(t) PROVE FencedInv'
  BY <1>11 DEF DrainRead
<1>12. ASSUME NEW o \in Owner, Degrade(o) PROVE FencedInv'
  BY <1>12 DEF Degrade, Fault
<1>13. ASSUME NEW o \in Owner, Settle(o) PROVE FencedInv'
  BY <1>13 DEF Settle
<1>14. ASSUME NEW o \in Owner, Dispose(o) PROVE FencedInv'
  BY <1>14 DEF Dispose, EndRecovery
<1>15. CASE BeginRecovery
  BY <1>15 DEF BeginRecovery, BeginDrain
<1>16. CASE ScanPoisoned
  BY <1>16 DEF ScanPoisoned, EndRecovery
<1>17. CASE ScanEnqueue
  BY <1>17 DEF ScanEnqueue, Accepts
<1>18. CASE ScanEnqueueFails
  BY <1>18 DEF ScanEnqueueFails, Rejects, Fault, EndRecovery
<1>19. CASE ScanEnds
  BY <1>19 DEF ScanEnds, BeginDrain, EndRecovery
<1>20. CASE DisposeEnds
  BY <1>20 DEF DisposeEnds, BeginDrain
<1>21. CASE DrainEnqueue
  BY <1>21 DEF DrainEnqueue, Accepts
<1>22. CASE DrainEnqueueFails
  BY <1>22 DEF DrainEnqueueFails, Rejects, Fault
<1>23. CASE DrainEnds
  BY <1>23 DEF DrainEnds, EndRecovery
<1>24. CASE RecoveryAborted
  BY <1>24 DEF RecoveryAborted, EndRecovery
<1>25. CASE ScanFails
  BY <1>25 DEF ScanFails, EndRecovery, Fault
<1>26. CASE DisposeFails
  BY <1>26 DEF DisposeFails, EndRecovery, Fault
<1>27. CASE AbortRecovery
  BY <1>27 DEF AbortRecovery, Fault
<1>28. CASE Restart
  BY <1>28 DEF Restart, EndRecovery, Fault
<1>29. CASE UNCHANGED handoffVars
  BY <1>29 DEF handoffVars
<1> QED BY <1>1, <1>2, <1>3, <1>4, <1>5, <1>6, <1>7, <1>8, <1>9, <1>10, <1>11, <1>12, <1>13,
      <1>14, <1>15, <1>16, <1>17, <1>18, <1>19, <1>20, <1>21, <1>22, <1>23, <1>24, <1>25,
      <1>26, <1>27, <1>28, <1>29 DEF HandoffNext, Recovery, LiveTurn

\* A drain never enqueues the work of a redacted turn, whenever the redaction
\* comes (withSourceTurnRecordEligibilityFence, appendTurnTombstone).
THEOREM DrainRespectsRedaction == HandoffSpec => RedactionFenced
<1>1. HandoffInit => FencedInv
  BY DEF HandoffInit, FencedInv
<1>2. FencedInv /\ [HandoffNext]_handoffVars => FencedInv'
  BY FencedStep
<1>3. FencedInv /\ [HandoffNext]_handoffVars
      => [phase = "fenced" /\ at \in accepted' \ accepted => at \notin redacted]_handoffVars
  BY DEF FencedInv
<1> QED BY <1>1, <1>2, <1>3, PTL DEF HandoffSpec, RedactionFenced
=============================================================================
