----------------------------- MODULE FleetBaton -----------------------------
(***************************************************************************)
(* The baton of heavy maintenance.  The companions of a fleet drain their  *)
(* backlogs one after the other: a drain announces its demand, tries to    *)
(* take the one baton row of the shared database, works under a lease that *)
(* it renews, asks at its checkpoints whether it should yield, and gives   *)
(* the baton back.  A chat turn asks the holder to yield.                  *)
(*                                                                         *)
(* An instance is one process of a companion with its coordinator; a       *)
(* restarted companion is another instance.  The nightly task and the      *)
(* lanes of an instance start drains of their own over that coordinator,   *)
(* and their drains may overlap: the store knows the instance only and     *)
(* hands them the same lease.  Every call of the store is one transaction; *)
(* the clock reading it uses may be up to Lag older than the transaction.  *)
(***************************************************************************)
EXTENDS Naturals, FiniteSets

CONSTANTS
  Companion,     \* members of the fleet
  Instance,      \* processes
  Drain,         \* callers of runWithFleetMaintenanceBaton
  InstanceOf,    \* the process of a drain
  CompanionOf,   \* the companion of an instance
  ManifestOf,    \* the fleet manifest an instance was started with
  Ordinal,       \* the position of a companion in a manifest
  LeaseTime,     \* leaseDurationMs
  Lag,           \* age of a clock reading when its transaction runs
  Chats,         \* instances that chat turns arrive at
  Shaky,         \* instances whose calls fail and that crash
  MaxTime,       \* bound: the clock stops here
  MaxStarts,     \* bound: drains begun by the fleet
  MaxFaults      \* bound: failing calls and crashes

Nobody == "nobody"
Manifest == {ManifestOf[i] : i \in Instance}

ASSUME BatonAssumption ==
  /\ Nobody \notin Instance
  /\ CompanionOf \in [Instance -> Companion]
  /\ InstanceOf \in [Drain -> Instance]
  /\ Ordinal \in [Manifest -> [Companion -> Nat]]
  /\ LeaseTime \in Nat \ {0}
  /\ Lag \in Nat
  /\ Chats \subseteq Instance /\ Shaky \subseteq Instance
  /\ MaxTime \in Nat
  /\ MaxStarts \in Nat
  /\ MaxFaults \in Nat

(* requireFleetOrder: a manifest gives every companion a place of its own. *)
ASSUME OrdinalAssumption ==
  /\ IsFiniteSet(Companion)
  /\ \A m \in Manifest, a, b \in Companion :
       /\ Ordinal[m][a] < Cardinality(Companion)
       /\ Ordinal[m][a] = Ordinal[m][b] => a = b

VARIABLES
  now,         \* the clock
  baton,       \* row of fleet_maintenance_baton
  demand,      \* rows of fleet_maintenance_demands
  coord,       \* coordinator of an instance: token and deadline it holds, local mark
  drain,       \* a run of runWithFleetMaintenanceBaton
  passed,      \* ghost: completions of others since a companion waits
  freed,       \* ghost: tokens whose lease was given back
  asked,       \* ghost: a chat turn has asked the instance that has the baton to yield
  due,         \* ghost: drains with a checkpoint on its way that began after a request
  deaf,        \* ghost: such a checkpoint was answered to go on
  starts,      \* drains begun so far
  faults       \* faults so far

store == <<baton, demand>>
ghost == <<passed, freed, asked, due, deaf>>
vars  == <<now, baton, demand, coord, drain, passed, freed, asked, due, deaf,
           starts, faults>>

-----------------------------------------------------------------------------
NoLease == [token |-> 0, until |-> 0]
NoMark  == [token |-> 0, until |-> 0, preempt |-> FALSE]
NoDemand == [manifest |-> Nobody, until |-> 0]

(* Phases of a drain; the last word of a call that is on its way back is its own
   phase, because the coordinator learns of it only then. *)
Phase == {"idle", "acquire", "granted", "running", "renewed", "committed", "told",
          "release", "released", "dead"}

Begin == [pc |-> "idle", lease |-> NoLease, failure |-> "none",
          told |-> "continue", outcome |-> "cleanup"]

(* The clock readings a call may use. *)
Readings == {t \in 0 .. now : now <= t + Lag}

Fault(i) == i \in Shaky /\ faults < MaxFaults /\ faults' = faults + 1

Home(d) == InstanceOf[d]
Mine(d) == CompanionOf[Home(d)]
Siblings(d) == {e \in Drain : Home(e) = Home(d)}
Plan(d) == ManifestOf[Home(d)]
At(d, p) == drain[d].pc = p
To(d, r) == drain' = [drain EXCEPT ![d] = r]
Goto(d, p) == To(d, [drain[d] EXCEPT !.pc = p])
Ended(d) == To(d, Begin)

LiveDemand(c, m, t) == demand[c].manifest = m /\ demand[c].until > t

(* The predicate of an owned lease and lockOwnedLiveLease. *)
Owned(d, t) ==
  /\ baton.by = Home(d)
  /\ baton.token = drain[d].lease.token
  /\ baton.until > t

(* lockAndReconcileManifest: the baton and the demands of the manifest an instance
   has, unless a live lease belongs to another manifest. *)
Reconcilable(m, t) == baton.manifest = m \/ baton.by = Nobody \/ baton.until <= t

Reconciled(m) ==
  IF baton.manifest = m THEN baton
  ELSE [by |-> Nobody, until |-> 0, preempt |-> FALSE, token |-> baton.token,
        manifest |-> m, last |-> 0]

Demands(m) == IF baton.manifest = m THEN demand ELSE [c \in Companion |-> NoDemand]

(* Mutant of Before: the companion that was served last comes first again. *)
BeforeAgain(m, last, a, b) ==
  LET size == Cardinality(Companion)
      Turns(c) == IF Ordinal[m][c] + 1 >= last THEN Ordinal[m][c] + 1 - last
                  ELSE Ordinal[m][c] + 1 + size - last
  IN  Turns(a) < Turns(b)

(* The order of the candidates: cyclic, beginning after the one served last.  The
   row counts ordinals from -1, the model from 0. *)
Before(m, last, a, b) ==
  LET size == Cardinality(Companion)
      Turns(c) == IF Ordinal[m][c] + 1 > last THEN Ordinal[m][c] + 1 - last
                  ELSE Ordinal[m][c] + 1 + size - last
  IN  Turns(a) < Turns(b)

-----------------------------------------------------------------------------
Init ==
  /\ now = 0
  /\ baton = [by |-> Nobody, until |-> 0, preempt |-> FALSE, token |-> 0,
              manifest |-> Nobody, last |-> 0]
  /\ demand = [c \in Companion |-> NoDemand]
  /\ coord = [i \in Instance |-> NoMark]
  /\ drain = [d \in Drain |-> Begin]
  /\ passed = [c \in Companion |-> [h \in Companion |-> 0]]
  /\ freed = {}
  /\ asked = FALSE
  /\ due = {}
  /\ deaf = FALSE
  /\ starts = 0
  /\ faults = 0

(* announceDemand; the requested time is kept while the demand is live. *)
Announce(d, t) ==
  LET c == Mine(d)
      m == Plan(d)
  IN  /\ At(d, "idle")
      /\ starts < MaxStarts
      /\ starts' = starts + 1
      /\ Reconcilable(m, t)
      /\ baton' = Reconciled(m)
      /\ demand' = [Demands(m) EXCEPT ![c] = [manifest |-> m, until |-> t + LeaseTime]]
      /\ passed' = IF LiveDemand(c, m, now) THEN passed
                   ELSE [passed EXCEPT ![c] = [h \in Companion |-> 0]]
      /\ Goto(d, "acquire")
      /\ UNCHANGED <<now, coord, freed, asked, due, deaf, faults>>

(* announceDemand and tryAcquire throw: another manifest has a live lease. *)
ManifestThrows(d, t) ==
  /\ drain[d].pc \in {"idle", "acquire"}
  /\ ~Reconcilable(Plan(d), t)
  /\ Ended(d)
  /\ UNCHANGED <<now, store, coord, ghost, starts, faults>>

-----------------------------------------------------------------------------
(* tryAcquire of the store. *)

(* Mutant of Current: a lease one tick before its deadline counts as expired. *)
CurrentEarly(m, t) ==
  LET row == Reconciled(m)
  IN  IF row.by # Nobody /\ row.until <= t + 1
      THEN [row EXCEPT !.by = Nobody, !.until = 0, !.preempt = FALSE] ELSE row

(* The row after its reconciliation and the expiry of its holder. *)
Current(m, t) ==
  LET row == Reconciled(m)
  IN  IF row.by # Nobody /\ row.until <= t
      THEN [row EXCEPT !.by = Nobody, !.until = 0, !.preempt = FALSE] ELSE row

(* The baton is free and it is the turn of this companion. *)
Grant(d, t) ==
  LET c    == Mine(d)
      m    == Plan(d)
      row  == Current(m, t)
      Live == {x \in Companion : Demands(m)[x].manifest = m /\ Demands(m)[x].until > t}
      new  == [row EXCEPT !.by = Home(d), !.token = row.token + 1,
                          !.until = t + LeaseTime, !.preempt = FALSE]
  IN  /\ At(d, "acquire")
      /\ Reconcilable(m, t)
      /\ row.by = Nobody
      /\ c \in Live
      /\ \A x \in Live \ {c} : Before(m, row.last, c, x)
      /\ baton' = new
      /\ demand' = Demands(m)
      /\ To(d, [drain[d] EXCEPT !.pc = "granted",
                                !.lease = [token |-> new.token, until |-> new.until]])
      /\ asked' = FALSE
      /\ UNCHANGED <<now, coord, passed, freed, due, deaf, starts, faults>>

(* The instance holds it already, by another drain or by one whose release failed:
   the lease is returned as it is. *)
Replay(d, t) ==
  LET row == Current(Plan(d), t)
  IN  /\ At(d, "acquire")
      /\ Reconcilable(Plan(d), t)
      /\ row.by = Home(d)
      /\ To(d, [drain[d] EXCEPT !.pc = "granted",
                                !.lease = [token |-> row.token, until |-> row.until]])
      /\ UNCHANGED <<now, store, coord, ghost, starts, faults>>

(* Held by another instance, somebody else's turn, or no live demand. *)
Waits(d, t) ==
  LET c    == Mine(d)
      m    == Plan(d)
      row  == Current(m, t)
      Live == {x \in Companion : Demands(m)[x].manifest = m /\ Demands(m)[x].until > t}
  IN  /\ At(d, "acquire")
      /\ Reconcilable(m, t)
      /\ \/ row.by \notin {Nobody, Home(d)}
         \/ /\ row.by = Nobody
            /\ \/ c \notin Live
               \/ \E x \in Live \ {c} : Before(m, row.last, x, c)
      /\ baton' = row
      /\ demand' = Demands(m)
      /\ Ended(d)
      /\ UNCHANGED <<now, coord, ghost, starts, faults>>

(* The mark of the instance is forgotten, for all its drains: a request that is not
   in the row is lost. *)
MarkForgotten(d) ==
  /\ asked' = (asked /\ (baton.preempt \/ baton.by # Home(d)))
  /\ due' = due \ Siblings(d)

(* tryAcquire of the coordinator returns: it notes the lease and forgets the mark. *)
AcquireReturns(d) ==
  LET lease == drain[d].lease
  IN  /\ At(d, "granted")
      /\ coord' = [coord EXCEPT ![Home(d)] =
                     [token |-> lease.token, until |-> lease.until, preempt |-> FALSE]]
      /\ MarkForgotten(d)
      /\ Goto(d, "running")
      /\ UNCHANGED <<now, store, passed, freed, deaf, starts, faults>>

(* A call fails after the transaction of the announcement, or before or after that of
   the acquisition: nobody learns what it did.  If it fails before the announcement,
   everything stays as it is. *)
CallFails(d) ==
  /\ drain[d].pc \in {"acquire", "granted"}
  /\ Fault(Home(d))
  /\ Ended(d)
  /\ UNCHANGED <<now, store, coord, ghost, starts>>

-----------------------------------------------------------------------------
(* Work under the lease.  Renewals and checkpoints take turns (mutateLease). *)

Fails(d, p, error) == To(d, [drain[d] EXCEPT !.pc = p, !.failure = error])

(* noteHeldLease *)
Noted(i, lease) ==
  IF coord[i].token = lease.token THEN [coord EXCEPT ![i].until = lease.until] ELSE coord

(* The renewal timer fires, some time after the lease was last set: the lease is
   extended, or the authority fails. *)
Renew(d, t) ==
  /\ At(d, "running")
  /\ drain[d].failure = "none"
  /\ t + LeaseTime > drain[d].lease.until
  /\ IF Owned(d, t) /\ t + LeaseTime > baton.until
     THEN /\ baton' = [baton EXCEPT !.until = t + LeaseTime]
          /\ To(d, [drain[d] EXCEPT !.pc = "renewed", !.lease.until = t + LeaseTime])
     ELSE /\ Fails(d, "running", IF Owned(d, t) THEN "error" ELSE "fence")
          /\ UNCHANGED baton
  /\ UNCHANGED <<now, demand, coord, ghost, starts, faults>>

RenewReturns(d) ==
  /\ At(d, "renewed")
  /\ coord' = Noted(Home(d), drain[d].lease)
  /\ Goto(d, "running")
  /\ UNCHANGED <<now, store, ghost, starts, faults>>

(* A checkpoint of the private work.  Its own row, an opaque pointer to private
   progress that no decision reads, is left out. *)
Commit(d, t) ==
  /\ At(d, "running")
  /\ drain[d].failure = "none"
  /\ IF Owned(d, t) /\ t + LeaseTime >= baton.until
     THEN /\ baton' = [baton EXCEPT !.until = t + LeaseTime]
          /\ To(d, [drain[d] EXCEPT !.pc = "committed", !.lease.until = t + LeaseTime,
                      !.told = IF baton.preempt THEN "yield" ELSE "continue"])
          /\ due' = IF asked /\ now < baton.until THEN due \cup {d} ELSE due
     ELSE /\ IF Owned(d, t) THEN Fails(d, "release", "error") ELSE Fails(d, "told", "fence")
          /\ UNCHANGED <<baton, due>>
  /\ UNCHANGED <<now, demand, coord, passed, freed, asked, deaf, starts, faults>>

(* Mutant of CommitAnswer: the coordinator passes the answer of the store on. *)
CommitAnswerUnmarked(d) == IF drain[d].told = "yield" THEN "told" ELSE "running"

(* The coordinator adds its own mark to the answer. *)
CommitAnswer(d) ==
  LET mark == coord[Home(d)].preempt /\ coord[Home(d)].token = drain[d].lease.token
  IN  IF mark \/ drain[d].told = "yield" THEN "told" ELSE "running"

CommitReturns(d) ==
  /\ At(d, "committed")
  /\ coord' = Noted(Home(d), drain[d].lease)
  /\ deaf' = (deaf \/ (/\ d \in due /\ CommitAnswer(d) = "running"
                       /\ now < coord[Home(d)].until))
  /\ due' = due \ {d}
  /\ To(d, [drain[d] EXCEPT !.pc = CommitAnswer(d), !.told = "continue"])
  /\ UNCHANGED <<now, store, passed, freed, asked, starts, faults>>

(* After its authority failed a checkpoint is answered at once: yield, or the error. *)
CheckpointRefused(d) ==
  /\ At(d, "running")
  /\ drain[d].failure # "none"
  /\ Goto(d, IF drain[d].failure = "fence" THEN "told" ELSE "release")
  /\ UNCHANGED <<now, store, coord, ghost, starts, faults>>

(* A renewal or a checkpoint fails in the database or on the way back. *)
MutationFails(d) ==
  /\ drain[d].pc \in {"running", "renewed", "committed"}
  /\ drain[d].failure = "none"
  /\ Fault(Home(d))
  /\ Fails(d, IF At(d, "committed") THEN "release" ELSE "running", "error")
  /\ due' = due \ {d}
  /\ UNCHANGED <<now, store, coord, passed, freed, asked, deaf, starts>>

(* The work ends, or throws; a lost authority is tolerated only by work that yields. *)
RunEnds(d, outcome) ==
  /\ \/ At(d, "running")
     \/ At(d, "told") /\ outcome # "complete"
  /\ To(d, [drain[d] EXCEPT !.pc = "release", !.lease.until = 0, !.failure = "none",
              !.outcome = IF drain[d].failure = "none"
                             \/ (drain[d].failure = "fence" /\ outcome = "yield")
                          THEN outcome ELSE "cleanup"])
  /\ UNCHANGED <<now, store, coord, ghost, starts, faults>>

(* The coordinator forgets the lease, however its release ended; another drain may
   still work under it. *)
Dropped(d) ==
  IF coord[Home(d)].token = drain[d].lease.token
  THEN coord' = [coord EXCEPT ![Home(d)] = NoMark] /\ MarkForgotten(d)
  ELSE UNCHANGED <<coord, asked, due>>

(* release of the store. *)
Release(d, t) ==
  LET c     == Mine(d)
      whole == drain[d].outcome = "complete"
      Waiting(x) == x # c /\ LiveDemand(x, baton.manifest, now)
  IN  /\ At(d, "release")
      /\ Owned(d, t)
      /\ demand' = [demand EXCEPT ![c] = NoDemand]
      /\ baton' = [baton EXCEPT !.by = Nobody, !.until = 0, !.preempt = FALSE,
                     !.last = IF whole THEN Ordinal[Plan(d)][c] + 1 ELSE @]
      /\ passed' = [x \in Companion |->
                      CASE x = c -> [h \in Companion |-> 0]
                        [] whole /\ Waiting(x) -> [passed[x] EXCEPT ![c] = @ + 1]
                        [] OTHER -> passed[x]]
      /\ freed' = freed \cup {baton.token}
      /\ asked' = FALSE
      /\ Goto(d, "released")
      /\ UNCHANGED <<now, coord, due, deaf, starts, faults>>

(* The lease is gone, or the call fails: the cleanup tries once more, unless there
   is nothing left to yield. *)
ReleaseFails(d, t) ==
  LET over == drain[d].outcome = "cleanup" \/ (drain[d].outcome = "yield" /\ ~Owned(d, t))
  IN  /\ At(d, "release")
      /\ IF Owned(d, t) THEN Fault(Home(d)) ELSE UNCHANGED faults
      /\ To(d, IF over THEN Begin ELSE [drain[d] EXCEPT !.outcome = "cleanup"])
      /\ Dropped(d)
      /\ UNCHANGED <<now, store, passed, freed, deaf, starts>>

ReleaseReturns(d) ==
  /\ At(d, "released")
  /\ Dropped(d)
  /\ Ended(d)
  /\ UNCHANGED <<now, store, passed, freed, deaf, starts, faults>>

-----------------------------------------------------------------------------
(* requestForegroundPreemption at the start of a chat turn. *)

(* This instance holds the baton: the mark is set in memory. *)
PreemptLocally(i) ==
  /\ coord[i].token # 0
  /\ now < coord[i].until
  /\ coord' = [coord EXCEPT ![i].preempt = TRUE]
  /\ asked' = (asked \/ (baton.by = i /\ coord[i].token = baton.token))
  /\ UNCHANGED <<now, store, drain, passed, freed, due, deaf, starts, faults>>

(* Otherwise the shared row is marked, if a lease is live. *)
PreemptShared(i, t) ==
  LET hit == baton.by # Nobody /\ baton.until > t
  IN  /\ coord[i].token = 0 \/ t >= coord[i].until
      /\ coord' = [coord EXCEPT ![i] = NoMark]
      /\ baton' = IF hit THEN [baton EXCEPT !.preempt = TRUE] ELSE baton
      /\ asked' = (asked \/ hit)
      /\ UNCHANGED <<now, demand, drain, passed, freed, due, deaf, starts, faults>>

(* The signal is lost: it is best-effort, and the memory of an expired lease goes. *)
PreemptFails(i) ==
  /\ coord[i] # NoMark /\ now >= coord[i].until
  /\ Fault(i)
  /\ coord' = [coord EXCEPT ![i] = NoMark]
  /\ UNCHANGED <<now, store, drain, ghost, starts>>

(* The process of an instance dies, and all its drains. *)
Crash(i) ==
  /\ \E d \in Drain : Home(d) = i /\ drain[d].pc \notin {"idle", "dead"}
  /\ Fault(i)
  /\ drain' = [d \in Drain |-> IF Home(d) = i THEN [Begin EXCEPT !.pc = "dead"] ELSE drain[d]]
  /\ due' = {d \in due : Home(d) # i}
  /\ coord' = [coord EXCEPT ![i] = NoMark]
  /\ UNCHANGED <<now, store, passed, freed, asked, deaf, starts>>

Tick ==
  /\ now < MaxTime
  /\ now' = now + 1
  /\ UNCHANGED <<store, coord, drain, ghost, starts, faults>>

Store(d, t) ==
  \/ Announce(d, t) \/ ManifestThrows(d, t)
  \/ Grant(d, t) \/ Replay(d, t) \/ Waits(d, t)
  \/ Renew(d, t) \/ Commit(d, t) \/ Release(d, t) \/ ReleaseFails(d, t)

Runner(d) ==
  \/ AcquireReturns(d) \/ CallFails(d) \/ RenewReturns(d) \/ CommitReturns(d)
  \/ CheckpointRefused(d) \/ MutationFails(d) \/ ReleaseReturns(d)
  \/ \E outcome \in {"complete", "yield", "cleanup"} : RunEnds(d, outcome)

Chat(i) ==
  /\ \A d \in Drain : Home(d) = i => drain[d].pc # "dead"
  /\ \/ PreemptLocally(i) \/ PreemptFails(i)
     \/ \E t \in Readings : PreemptShared(i, t)

Next ==
  \/ \E d \in Drain : Runner(d) \/ \E t \in Readings : Store(d, t)
  \/ \E i \in Instance : Crash(i)
  \/ \E i \in Chats : Chat(i)
  \/ Tick

Spec == Init /\ [][Next]_vars

-----------------------------------------------------------------------------
(* Rows and local state have their types, and the CHECK constraints of the baton
   hold: without a holder there is neither a deadline nor a request to yield. *)
TypeOK ==
  /\ now \in 0 .. MaxTime
  /\ baton \in [by : Instance \cup {Nobody}, until : Nat, preempt : BOOLEAN, token : Nat,
                manifest : Manifest \cup {Nobody}, last : 0 .. Cardinality(Companion)]
  /\ baton.by = Nobody => baton.until = 0 /\ ~baton.preempt
  /\ demand \in [Companion -> [manifest : Manifest \cup {Nobody}, until : Nat]]
  /\ coord \in [Instance -> [token : Nat, until : Nat, preempt : BOOLEAN]]
  /\ drain \in [Drain -> [pc : Phase, lease : [token : Nat, until : Nat],
                       failure : {"none", "fence", "error"}, told : {"continue", "yield"},
                       outcome : {"complete", "yield", "cleanup"}]]
  /\ starts \in 0 .. MaxStarts
  /\ faults \in 0 .. MaxFaults

(* A drain that may go on working by its own lease and clock. *)
Authority(d) ==
  /\ drain[d].pc \in {"running", "renewed", "committed", "told"}
  /\ drain[d].failure = "none"
  /\ drain[d].lease.until > now

(* Drains that may go on working are of one process, however leases expire, are
   renewed and granted again and whenever their answers arrive; except a drain whose
   lease another drain of its process gave back under it (runWithFleetMaintenanceBaton,
   tryAcquire, release). *)
OneAuthority ==
  \A d1, d2 \in Drain :
    Authority(d1) /\ Authority(d2) /\ {drain[d1].lease.token, drain[d2].lease.token} \cap freed = {}
      => Home(d1) = Home(d2)

(* While a companion waits with a live demand no other one completes twice
   (the manifest order of tryAcquire and the ordinal release leaves behind). *)
PassedOnce ==
  \A c, h \in Companion : LiveDemand(c, baton.manifest, now) => passed[c][h] <= 1

(* A request to yield that reached the holder, by its memory or by the shared row,
   is seen at its next checkpoint, if the answer of that checkpoint arrives before
   the deadline the coordinator knows of (after it another chat turn drops the mark)
   and no other drain of the process took up or dropped a lease since, which wipes
   the memory for all of them (requestForegroundPreemption, commitCheckpoint,
   tryAcquire and release of the coordinator). *)
PreemptionHeardInTime == ~deaf
=============================================================================
