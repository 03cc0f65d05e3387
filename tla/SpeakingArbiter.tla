--------------------------- MODULE SpeakingArbiter ---------------------------
(***************************************************************************)
(* Who may answer one event of a room.  The companions that saw the event  *)
(* reserve, appraise, pass the gates of the egress phase, draw on their    *)
(* social pot, take the exclusive lease of the event, generate a reply,    *)
(* send it and complete the lease.  The store is one Postgres database;    *)
(* each of its calls is one transaction under the lock of the channel.     *)
(* Everything between two calls may be interleaved with other companions.  *)
(*                                                                         *)
(* There is one channel, and its episode stays open.  A drive is one       *)
(* handling of one event by one companion; a companion handles an event    *)
(* again after a restart, or when its candidate is offered once more.      *)
(***************************************************************************)
EXTENDS Naturals, Sequences, FiniteSets

CONSTANTS
  Companion,        \* companions of the room
  Event,            \* events that may trigger a reply
  Drive,            \* handlings of an event by a companion
  CompanionOf,      \* the companion of a drive
  EventOf,          \* the event of a drive
  Rank,             \* the order of companion ids, the last tie-break
  ReservationTtl,   \* reservationTtlMs
  LeaseTtl,         \* leaseTtlMs
  FenceWindow,      \* eventFenceWindowMs
  Watchdog,         \* whether somebody calls sweepExpired
  MaxStall,         \* time the gates of one reply may take
  MaxTime,          \* bound: the clock stops here
  MaxLeases,        \* bound: leases granted for one event
  MaxCrashes        \* bound: crashes of companions

ASSUME ArbiterAssumption ==
  /\ CompanionOf \in [Drive -> Companion]
  /\ EventOf \in [Drive -> Event]
  /\ Rank \in [Companion -> Nat]
  /\ ReservationTtl \in Nat \ {0}
  /\ LeaseTtl \in Nat \ {0}
  /\ FenceWindow \in Nat \ {0}
  /\ Watchdog \in BOOLEAN
  /\ MaxStall \in Nat \ {0}
  /\ MaxTime \in Nat
  /\ MaxLeases \in Nat
  /\ MaxCrashes \in Nat

(* A fence outlives the reservation its reply was spoken on, the gates of one more
   reply included.  Nothing enforces it: the defaults are 2 minutes for a reservation, 1
   for a lease and 30 for a fence, which leaves 29 for the gates. *)
ASSUME FenceAssumption == ReservationTtl + MaxStall <= LeaseTtl + FenceWindow + 1

VARIABLES
  now,        \* the clock
  resv,       \* reservation row per companion and event
  leases,     \* lease rows per event; the fencing token is the index
  breaker,    \* breaker state of the room episode
  spoke,      \* participation rows: when and how often a companion spoke
  pc,         \* where a drive is
  mem,        \* local variables of a drive
  charge,     \* the social-pot draw of a drive
  fences,     \* fencedEvents of the sender of a companion
  spoken,     \* ghost: drives whose reply reached the room
  crashes     \* crashes so far

store == <<resv, leases, breaker, spoke>>
vars  == <<now, resv, leases, breaker, spoke, pc, mem, charge, fences, spoken, crashes>>

-----------------------------------------------------------------------------
NoReservation == [status |-> "none", until |-> 0]
NoFence       == [status |-> "none", until |-> 0]
NoMemory      == [at |-> 0, checked |-> 0, seen |-> "none", prior |-> "closed",
                  next |-> "closed", token |-> 0, fate |-> "failed"]
Reservation   == [status : {"none", "reserved", "released", "expired"}, until : Nat]
Lease         == [by : Companion, until : Nat,
                  status : {"held", "expired", "delivered", "failed"}]
Fence         == [status : {"none", "attempted", "delivered"}, until : Nat]
BreakerState  == {"closed", "open", "half_open"}
Memory        == [at : Nat,                    \* nowMs of the egress phase
                  checked : Nat,               \* nowMs of deliver
                  seen : {"none", "reserved", "released", "expired"},
                  prior : BreakerState, next : BreakerState,  \* breaker read, resolved
                  token : 0 .. MaxLeases,      \* fencing token
                  fate : {"delivered", "failed"}]  \* outcome to report
Pressure      == {"recovered", "band", "tripped"}
Ended         == {"idle", "done"}

Phase == {"idle", "appraise", "breaker", "persist", "fairness", "draw", "acquire",
          "refund", "refundRelease", "release", "fence", "generate", "sending",
          "complete", "done"}

(* Phases between the clock reading of grantReply and the fence of the sender. *)
Gates == {"breaker", "persist", "fairness", "draw", "acquire", "fence"}

Mine(d)     == resv[CompanionOf[d]][EventOf[d]]
Held(e)     == {i \in DOMAIN leases[e] : leases[e][i].status = "held"}
Speech(e)   == {i \in DOMAIN leases[e] : leases[e][i].status = "delivered"}
Running(c)  == {d \in Drive : CompanionOf[d] = c /\ pc[d] \notin Ended}
Later(a, b) == IF a >= b THEN a ELSE b

(* The next phase of a drive and its local variables, gone when it ends. *)
Step(d, p, m) ==
  /\ pc' = [pc EXCEPT ![d] = p]
  /\ mem' = [mem EXCEPT ![d] = IF p = "done" THEN NoMemory ELSE m]

Goto(d, p) == Step(d, p, mem[d])

(* isEgressLeaseLive *)
Live(lease, t) == lease.status = "held" /\ lease.until > t

(* isReservationActive, and the reservability checks of acquireEgressLease *)
Active(r, t) == r.status = "reserved" /\ r.until > t

(* releaseReservation: a row that is already terminal stays as it is, whether the
   call replays it or throws. *)
Released(r) == IF r.status = "reserved" THEN [r EXCEPT !.status = "released"] ELSE r

(* resolveRoomEpisodeCircuitBreakerState *)
Resolved(prior, p) ==
  CASE prior = "closed"    -> IF p = "tripped" THEN "open" ELSE "closed"
    [] prior = "open"      -> IF p = "recovered" THEN "half_open" ELSE "open"
    [] prior = "half_open" -> CASE p = "tripped"   -> "open"
                                [] p = "recovered" -> "closed"
                                [] OTHER           -> "half_open"

(* breakerAdmits: closed, or the fresh step from open to half-open. *)
Admits(v) == v.next = "closed" \/ (v.prior = "open" /\ v.next = "half_open")

(* selectSpeakLeastWinner: never spoken, then least recent, then fewest, then id. *)
Before(a, b) ==
  LET x == spoke[a]
      y == spoke[b]
  IN  \/ x.count = 0 /\ y.count > 0
      \/ x.count > 0 /\ y.count > 0 /\ x.when < y.when
      \/ /\ \/ x.count = 0 /\ y.count = 0
            \/ x.count > 0 /\ y.count > 0 /\ x.when = y.when
         /\ \/ x.count < y.count
            \/ x.count = y.count /\ Rank[a] < Rank[b]

Wins(c, contenders) == \A other \in contenders \ {c} : Before(c, other)
-----------------------------------------------------------------------------
Init ==
  /\ now = 0
  /\ resv = [c \in Companion |-> [e \in Event |-> NoReservation]]
  /\ leases = [e \in Event |-> <<>>]
  /\ breaker = "closed"
  /\ spoke = [c \in Companion |-> [when |-> 0, count |-> 0]]
  /\ pc = [d \in Drive |-> "idle"]
  /\ mem = [d \in Drive |-> NoMemory]
  /\ charge = [d \in Drive |-> "none"]
  /\ fences = [c \in Companion |-> [e \in Event |-> NoFence]]
  /\ spoken = {}
  /\ crashes = 0

-----------------------------------------------------------------------------
(* Phase 1: SpeakingReservationPhase and the settlement of the appraisal. *)

(* A candidate of an event this process is not handling already. *)
Offered(d) ==
  /\ pc[d] = "idle"
  /\ \A other \in Running(CompanionOf[d]) : EventOf[other] # EventOf[d]

(* An ICP, pressure or pot gate closes, or one of them errs. *)
Gated(d) ==
  /\ Offered(d)
  /\ Goto(d, "done")
  /\ UNCHANGED <<now, store, charge, fences, spoken, crashes>>

(* reserve: insert, or replay of the row that is there. *)
Reserve(d) ==
  LET c   == CompanionOf[d]
      e   == EventOf[d]
      row == IF resv[c][e].status = "none"
             THEN [status |-> "reserved", until |-> now + ReservationTtl]
             ELSE resv[c][e]
  IN  /\ Offered(d)
      /\ resv' = [resv EXCEPT ![c][e] = row]
      /\ Step(d, "appraise", [mem[d] EXCEPT !.seen = row.status])
      /\ UNCHANGED <<now, leases, breaker, spoke, charge, fences, spoken, crashes>>

(* The appraiser says ignore, or fails: the reservation is released. *)
AppraiseIgnore(d) ==
  /\ pc[d] = "appraise"
  /\ resv' = [resv EXCEPT ![CompanionOf[d]][EventOf[d]] = Released(@)]
  /\ Goto(d, "done")
  /\ UNCHANGED <<now, leases, breaker, spoke, charge, fences, spoken, crashes>>

(* The appraiser says react: releaseReact takes no lease. *)
AppraiseReact(d) ==
  /\ pc[d] = "appraise"
  /\ Goto(d, IF mem[d].seen = "reserved" THEN "release" ELSE "done")
  /\ UNCHANGED <<now, store, charge, fences, spoken, crashes>>

(* The appraiser says reply: grantReply reads its clock once, here. *)
AppraiseReply(d) ==
  /\ pc[d] = "appraise"
  /\ Step(d, IF mem[d].seen = "reserved" THEN "breaker" ELSE "done",
             [mem[d] EXCEPT !.at = now])
  /\ UNCHANGED <<now, store, charge, fences, spoken, crashes>>

-----------------------------------------------------------------------------
(* Phase 2: grantReply of SpeakingEgressLeasePhase. *)

(* readRoomEpisodeBreakerState and the pure assessment. *)
ReadBreaker(d, p) ==
  /\ pc[d] = "breaker"
  /\ Step(d, "persist", [mem[d] EXCEPT !.prior = breaker, !.next = Resolved(breaker, p)])
  /\ UNCHANGED <<now, store, charge, fences, spoken, crashes>>

(* persistRoomEpisodeBreakerState, then the breaker gate and the confidence bar. *)
PersistBreaker(d, next) ==
  /\ pc[d] = "persist"
  /\ next = "release" \/ Admits(mem[d])
  /\ breaker' = mem[d].next
  /\ Step(d, next, [mem[d] EXCEPT !.prior = "closed", !.next = "closed"])
  /\ UNCHANGED <<now, resv, leases, spoke, charge, fences, spoken, crashes>>

(* listActiveReservers and readRoomEpisode: yield to the one who spoke least. *)
Fairness(d) ==
  LET c          == CompanionOf[d]
      contenders == {x \in Companion : Active(resv[x][EventOf[d]], mem[d].at)} \cup {c}
  IN  /\ pc[d] = "fairness"
      /\ Goto(d, IF Wins(c, contenders) THEN "draw" ELSE "release")
      /\ UNCHANGED <<now, store, charge, fences, spoken, crashes>>

(* A store or a resolver errs before anything is bound. *)
GateError(d) ==
  /\ pc[d] \in {"breaker", "persist", "fairness", "draw"}
  /\ Goto(d, "done")
  /\ UNCHANGED <<now, store, charge, fences, spoken, crashes>>

(* enforceSocialPotDraw commits in a store of its own. *)
Draw(d) ==
  /\ pc[d] = "draw"
  /\ charge' = [charge EXCEPT ![d] = "drawn"]
  /\ Goto(d, "acquire")
  /\ UNCHANGED <<now, store, fences, spoken, crashes>>

DrawRefused(d) ==
  /\ pc[d] = "draw"
  /\ Goto(d, "release")
  /\ UNCHANGED <<now, store, charge, fences, spoken, crashes>>

(* acquireEgressLease grants: the event is not spent, the reservation can be
   promoted and no live lease is held.  A lapsed one is reclaimed first. *)
AcquireGranted(d) ==
  LET c    == CompanionOf[d]
      e    == EventOf[d]
      rows == [i \in DOMAIN leases[e] |->
                 IF i \in Held(e) THEN [leases[e][i] EXCEPT !.status = "expired"]
                 ELSE leases[e][i]]
      row  == [by |-> c, until |-> mem[d].at + LeaseTtl, status |-> "held"]
  IN  /\ pc[d] = "acquire"
      /\ Len(leases[e]) < MaxLeases
      /\ Speech(e) = {}
      /\ Active(Mine(d), mem[d].at)
      /\ \A i \in Held(e) : ~Live(leases[e][i], mem[d].at)
      /\ leases' = [leases EXCEPT ![e] = Append(rows, row)]
      /\ charge' = [charge EXCEPT ![d] = "bound"]
      /\ Step(d, "fence", [mem[d] EXCEPT !.token = Len(leases[e]) + 1])
      /\ UNCHANGED <<now, resv, breaker, spoke, fences, spoken, crashes>>

(* ... declines: the event is spent, or somebody holds a live lease. *)
AcquireDeclined(d) ==
  LET e == EventOf[d]
  IN  /\ pc[d] = "acquire"
      /\ \/ Speech(e) # {}
         \/ /\ Active(Mine(d), mem[d].at)
            /\ \E i \in Held(e) : Live(leases[e][i], mem[d].at)
      /\ Goto(d, "refundRelease")
      /\ UNCHANGED <<now, store, charge, fences, spoken, crashes>>

(* ... throws: the reservation was retired meanwhile, or the store errs. *)
AcquireThrows(d) ==
  /\ pc[d] = "acquire"
  /\ Goto(d, "refund")
  /\ UNCHANGED <<now, store, charge, fences, spoken, crashes>>

(* refundDraw; its failure is tolerated and reported. *)
RefundDraw(d, result) ==
  /\ pc[d] \in {"refund", "refundRelease"}
  /\ charge' = [charge EXCEPT ![d] = result]
  /\ Goto(d, IF pc[d] = "refundRelease" THEN "release" ELSE "done")
  /\ UNCHANGED <<now, store, fences, spoken, crashes>>

(* releaseSilently, which tolerates a terminal row, or the error it rethrows. *)
ReleaseSilently(d) ==
  /\ pc[d] = "release"
  /\ resv' = [resv EXCEPT ![CompanionOf[d]][EventOf[d]] = Released(@)]
  /\ Goto(d, "done")
  /\ UNCHANGED <<now, leases, breaker, spoke, charge, fences, spoken, crashes>>

ReleaseThrows(d) ==
  /\ pc[d] = "release"
  /\ Goto(d, "done")
  /\ UNCHANGED <<now, store, charge, fences, spoken, crashes>>

-----------------------------------------------------------------------------
(* deliver of the egress reply sender. *)

(* Mutant of CheckFence: an attempt counts as a delivery. *)
CheckFenceTrustsAttempt(d) ==
  LET fence == fences[CompanionOf[d]][EventOf[d]]
      kept  == fence.status # "none" /\ fence.until >= now
  IN  /\ pc[d] = "fence"
      /\ fences' = IF kept THEN fences
                   ELSE [fences EXCEPT ![CompanionOf[d]][EventOf[d]] = NoFence]
      /\ Step(d, IF kept THEN "complete" ELSE "generate",
                 [mem[d] EXCEPT !.checked = now,
                                !.fate = IF kept THEN "delivered" ELSE "failed"])
      /\ UNCHANGED <<now, store, charge, spoken, crashes>>

(* The per-event fence, pruned first: a re-drive is answered from it. *)
CheckFence(d) ==
  LET fence == fences[CompanionOf[d]][EventOf[d]]
      kept  == fence.status # "none" /\ fence.until >= now
  IN  /\ pc[d] = "fence"
      /\ fences' = IF kept THEN fences
                   ELSE [fences EXCEPT ![CompanionOf[d]][EventOf[d]] = NoFence]
      /\ Step(d, IF kept THEN "complete" ELSE "generate",
                 [mem[d] EXCEPT !.checked = now,
                                !.fate = IF kept /\ fence.status = "delivered"
                                         THEN "delivered" ELSE "failed"])
      /\ UNCHANGED <<now, store, charge, spoken, crashes>>

(* No disclosure, no reply, a duplicate, a custody hold, or generation throws. *)
NothingToSend(d) ==
  /\ pc[d] = "generate"
  /\ Goto(d, "complete")
  /\ UNCHANGED <<now, store, charge, fences, spoken, crashes>>

(* The fence is armed and the reply handed to the gateway, which may lose it. *)
Send(d) ==
  LET lease == leases[EventOf[d]][mem[d].token]
      fence == [status |-> "attempted",
                until |-> Later(mem[d].checked, lease.until) + FenceWindow]
  IN  /\ pc[d] = "generate"
      /\ fences' = [fences EXCEPT ![CompanionOf[d]][EventOf[d]] = fence]
      /\ spoken' \in {spoken, spoken \cup {d}}
      /\ Goto(d, "sending")
      /\ UNCHANGED <<now, store, charge, crashes>>

(* The call returns, or rejects, which does not prove that nothing was sent. *)
SendReturns(d) ==
  /\ pc[d] = "sending"
  /\ d \in spoken
  /\ fences' = [fences EXCEPT ![CompanionOf[d]][EventOf[d]] =
                  [status |-> "delivered", until |-> Later(@.until, now + FenceWindow)]]
  /\ Step(d, "complete", [mem[d] EXCEPT !.fate = "delivered"])
  /\ UNCHANGED <<now, store, charge, spoken, crashes>>

(* Mutant of SendRejects: a rejected send lifts the fence. *)
SendRejectsLiftsFence(d) ==
  /\ pc[d] = "sending"
  /\ fences' = [fences EXCEPT ![CompanionOf[d]][EventOf[d]] = NoFence]
  /\ Goto(d, "complete")
  /\ UNCHANGED <<now, store, charge, spoken, crashes>>

SendRejects(d) ==
  /\ pc[d] = "sending"
  /\ fences' = [fences EXCEPT ![CompanionOf[d]][EventOf[d]].until =
                  Later(@, now + FenceWindow)]
  /\ Goto(d, "complete")
  /\ UNCHANGED <<now, store, charge, spoken, crashes>>

(* Mutant of CompleteLease: the status of the row is not looked at. *)
CompleteLeaseUnfenced(d) ==
  LET c == CompanionOf[d]
      e == EventOf[d]
      speech == mem[d].fate = "delivered"
      Retire(x) == IF x = c \/ speech THEN [resv[x] EXCEPT ![e] = Released(@)] ELSE resv[x]
  IN  /\ pc[d] = "complete"
      /\ leases' = [leases EXCEPT ![e][mem[d].token].status = mem[d].fate]
      /\ resv' = [x \in Companion |-> Retire(x)]
      /\ spoke' = IF speech
                  THEN [spoke EXCEPT ![c] = [when |-> mem[d].at, count |-> @.count + 1]]
                  ELSE spoke
      /\ Goto(d, "done")
      /\ UNCHANGED <<now, breaker, charge, fences, spoken, crashes>>

(* completeEgressLease: a lease that is no longer held rejects the completion. *)
CompleteLease(d) ==
  LET c == CompanionOf[d]
      e == EventOf[d]
      speech == mem[d].fate = "delivered"
      Retire(x) == IF x = c \/ speech THEN [resv[x] EXCEPT ![e] = Released(@)] ELSE resv[x]
  IN  /\ pc[d] = "complete"
      /\ leases[e][mem[d].token].status = "held"
      /\ leases' = [leases EXCEPT ![e][mem[d].token].status = mem[d].fate]
      /\ resv' = [x \in Companion |-> Retire(x)]
      /\ spoke' = IF speech
                  THEN [spoke EXCEPT ![c] = [when |-> mem[d].at, count |-> @.count + 1]]
                  ELSE spoke
      /\ Goto(d, "done")
      /\ UNCHANGED <<now, breaker, charge, fences, spoken, crashes>>

(* The completion is rejected, or the store errs: nothing is recorded. *)
CompleteThrows(d) ==
  /\ pc[d] = "complete"
  /\ Goto(d, "done")
  /\ UNCHANGED <<now, store, charge, fences, spoken, crashes>>

-----------------------------------------------------------------------------
(* The environment. *)

(* sweepExpired: a held lease whose time is over expires. *)
Swept(lease) ==
  IF lease.status = "held" /\ lease.until <= now
  THEN [lease EXCEPT !.status = "expired"] ELSE lease

(* sweepExpired takes no channel lock, so that others come between its two
   statements: leases first. *)
SweepLeases ==
  /\ Watchdog
  /\ leases' = [e \in Event |-> [i \in DOMAIN leases[e] |-> Swept(leases[e][i])]]
  /\ UNCHANGED <<now, resv, breaker, spoke, pc, mem, charge, fences, spoken, crashes>>

(* Then the reservations that have no held lease by now. *)
SweepReservations ==
  LET HasLease(c, e) == \E i \in Held(e) : leases[e][i].by = c
      Lapsed(c, e) == resv[c][e].status = "reserved" /\ resv[c][e].until <= now
  IN  /\ Watchdog
      /\ resv' = [c \in Companion |-> [e \in Event |->
                    IF Lapsed(c, e) /\ ~HasLease(c, e)
                    THEN [resv[c][e] EXCEPT !.status = "expired"] ELSE resv[c][e]]]
      /\ UNCHANGED <<now, leases, breaker, spoke, pc, mem, charge, fences, spoken, crashes>>

(* A companion process dies and is started again: its drives and fences are gone. *)
Crash(c) ==
  /\ crashes < MaxCrashes
  /\ Running(c) # {}
  /\ crashes' = crashes + 1
  /\ pc' = [d \in Drive |-> IF d \in Running(c) THEN "done" ELSE pc[d]]
  /\ mem' = [d \in Drive |-> IF d \in Running(c) THEN NoMemory ELSE mem[d]]
  /\ fences' = [fences EXCEPT ![c] = [e \in Event |-> NoFence]]
  /\ UNCHANGED <<now, store, charge, spoken>>

Tick ==
  /\ now < MaxTime
  /\ \A d \in Drive : pc[d] \in Gates => now < mem[d].at + MaxStall
  /\ now' = now + 1
  /\ UNCHANGED <<store, pc, mem, charge, fences, spoken, crashes>>

DriveStep(d) ==
  \/ Gated(d) \/ Reserve(d)
  \/ AppraiseIgnore(d) \/ AppraiseReact(d) \/ AppraiseReply(d)
  \/ \E p \in Pressure : ReadBreaker(d, p)
  \/ \E next \in {"fairness", "release"} : PersistBreaker(d, next)
  \/ Fairness(d) \/ GateError(d) \/ Draw(d) \/ DrawRefused(d)
  \/ AcquireGranted(d) \/ AcquireDeclined(d) \/ AcquireThrows(d)
  \/ \E result \in {"refunded", "tolerated"} : RefundDraw(d, result)
  \/ ReleaseSilently(d) \/ ReleaseThrows(d)
  \/ CheckFence(d) \/ NothingToSend(d) \/ Send(d) \/ SendReturns(d) \/ SendRejects(d)
  \/ CompleteLease(d) \/ CompleteThrows(d)

Next ==
  \/ \E d \in Drive : DriveStep(d)
  \/ SweepLeases \/ SweepReservations
  \/ \E c \in Companion : Crash(c)
  \/ Tick

Spec == Init /\ [][Next]_vars

-----------------------------------------------------------------------------
(* Every row and local variable has its type, and the unique index of held leases
   is respected (idx_speaking_egress_leases_one_held). *)
TypeOK ==
  /\ now \in 0 .. MaxTime
  /\ resv \in [Companion -> [Event -> Reservation]]
  /\ leases \in [Event -> Seq(Lease)]
  /\ \A e \in Event : Len(leases[e]) <= MaxLeases /\ Cardinality(Held(e)) <= 1
  /\ breaker \in BreakerState
  /\ spoke \in [Companion -> [when : Nat, count : Nat]]
  /\ pc \in [Drive -> Phase]
  /\ mem \in [Drive -> Memory]
  /\ charge \in [Drive -> {"none", "drawn", "bound", "refunded", "tolerated"}]
  /\ fences \in [Companion -> [Event -> Fence]]
  /\ spoken \subseteq Drive
  /\ crashes \in 0 .. MaxCrashes

(* What the store records as delivered was sent: the holder of the lease has put
   a reply into the room, in this drive or in an earlier one whose fence answered
   for it (deliver, completeEgressLease). *)
DeliveredWasSpoken ==
  \A e \in Event : \A i \in Speech(e) :
    \E d \in spoken : EventOf[d] = e /\ CompanionOf[d] = leases[e][i].by

(* One process answers an event once, although its candidate comes again, its lease
   lapses while it sends and a rejected send may have been delivered (deliver). *)
AnswersOnce ==
  crashes = 0 =>
    \A x, y \in spoken :
      EventOf[x] = EventOf[y] /\ CompanionOf[x] = CompanionOf[y] => x = y

(* The companion the store records as the speaker of an event. *)
Speaker ==
  [e \in Event |-> IF Speech(e) = {} THEN "nobody" ELSE
     leases[e][CHOOSE i \in Speech(e) : \A j \in Speech(e) : j <= i].by]

Record == INSTANCE SpeechRecord WITH speaker <- Speaker

(* The lease table implements a record that is written once per event. *)
KeepsSpeechRecord == Record!Spec
=============================================================================
