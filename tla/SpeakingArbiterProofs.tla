------------------------ MODULE SpeakingArbiterProofs ------------------------
(* Who speaks for an event, for any number of companions, events and drives,   *)
(* any lease times and any crashes: what the store records as spoken was sent, *)
(* one speaker is recorded per event and never replaced, and a process that    *)
(* does not crash answers an event once.                                       *)
EXTENDS SpeakingArbiter, SequenceTheorems, FiniteSetTheorems, TLAPS

Same(x, y) == CompanionOf[x] = CompanionOf[y] /\ EventOf[x] = EventOf[y]

(* Phases after the clock reading of grantReply, and those with a lease. *)
Replying == {"breaker", "persist", "fairness", "draw", "acquire", "fence", "generate",
             "sending", "complete"}
Leased   == {"fence", "generate", "sending", "complete"}

(* Rows and local variables have their type; the unique index is HeldAlone. *)
Types ==
  /\ now \in Nat /\ now <= MaxTime
  /\ resv \in [Companion -> [Event -> Reservation]]
  /\ leases \in [Event -> Seq(Lease)]
  /\ \A e \in Event : Len(leases[e]) <= MaxLeases
  /\ breaker \in BreakerState
  /\ spoke \in [Companion -> [when : Nat, count : Nat]]
  /\ pc \in [Drive -> Phase]
  /\ mem \in [Drive -> Memory]
  /\ charge \in [Drive -> {"none", "drawn", "bound", "refunded", "tolerated"}]
  /\ fences \in [Companion -> [Event -> Fence]]
  /\ spoken \subseteq Drive
  /\ crashes \in Nat /\ crashes <= MaxCrashes

(* A process handles an event once at a time. *)
OneDrive ==
  \A x, y \in Drive : pc[x] \notin Ended /\ pc[y] \notin Ended /\ Same(x, y) => x = y

(* The token of a drive is the index of a lease of its own. *)
TokenIsMine ==
  \A d \in Drive : pc[d] \in Leased =>
    /\ mem[d].token \in DOMAIN leases[EventOf[d]]
    /\ leases[EventOf[d]][mem[d].token].by = CompanionOf[d]
    /\ leases[EventOf[d]][mem[d].token].until = mem[d].at + LeaseTtl

(* One lease is held per event, and none once the event is spent. *)
HeldAlone ==
  \A e \in Event :
    /\ \A i, j \in Held(e) : i = j
    /\ \A i \in Held(e), j \in Speech(e) : FALSE
    /\ \A i, j \in Speech(e) : i = j

Spoke(c, e) == \E x \in spoken : CompanionOf[x] = c /\ EventOf[x] = e

(* Who reports a delivery has made it, in this drive or in an earlier one. *)
FateIsTrue ==
  /\ \A d \in Drive : mem[d].fate = "delivered" =>
       pc[d] = "complete" /\ Spoke(CompanionOf[d], EventOf[d])
  /\ \A c \in Companion, e \in Event : fences[c][e].status = "delivered" => Spoke(c, e)

(* A drive under way, or one that has spoken, has its reservation row. *)
RowExists ==
  \A d \in Drive : pc[d] \notin Ended \/ d \in spoken => Mine(d).status # "none"

(* The clock, the reservation and the reading of grantReply. *)
Timing ==
  /\ \A c \in Companion, e \in Event :
       resv[c][e].status # "none" => resv[c][e].until <= now + ReservationTtl
  /\ \A d \in Drive :
       /\ pc[d] \in Replying => Mine(d).until <= mem[d].at + ReservationTtl
       /\ pc[d] \in Gates => now <= mem[d].at + MaxStall
       /\ pc[d] = "fence" => mem[d].at < Mine(d).until

(* A fence stands for what was spoken for as long as the reservation may lead to
   another reply. *)
Fenced ==
  crashes = 0 =>
    \A x \in spoken :
      LET fence == fences[CompanionOf[x]][EventOf[x]]
      IN  /\ fence.status # "none"
          /\ Mine(x).until + MaxStall <= fence.until + 1
          /\ \A y \in Drive : Same(x, y) => pc[y] # "generate"

ArbiterInv ==
  /\ Types /\ OneDrive /\ TokenIsMine /\ HeldAlone /\ FateIsTrue /\ RowExists /\ Timing
  /\ DeliveredWasSpoken /\ Fenced /\ AnswersOnce

-----------------------------------------------------------------------------
LEMMA ArbiterInit == Init => ArbiterInv
<1> SUFFICES ASSUME Init PROVE ArbiterInv
  OBVIOUS
<1> USE ArbiterAssumption DEF Init
<1>1. Types
  <2>1. NoReservation \in Reservation /\ NoFence \in Fence
    BY DEF NoReservation, NoFence, Reservation, Fence
  <2>2. NoMemory \in Memory
    BY DEF NoMemory, Memory, BreakerState
  <2>3. \A e \in Event : leases[e] = <<>> /\ Len(leases[e]) = 0
    BY DEF Init
  <2>4. leases \in [Event -> Seq(Lease)]
    BY <2>3
  <2> QED
    BY <2>1, <2>2, <2>3, <2>4 DEF Types, Phase, BreakerState
<1>2. /\ \A d \in Drive : pc[d] = "idle" /\ mem[d].fate = "failed"
      /\ \A c \in Companion, e \in Event : fences[c][e].status = "none" /\ resv[c][e].status = "none"
  BY DEF NoMemory, NoFence, NoReservation
<1>3. \A e \in Event : Held(e) = {} /\ Speech(e) = {}
  BY DEF Held, Speech
<1>4. OneDrive /\ TokenIsMine /\ RowExists
  BY <1>2 DEF OneDrive, TokenIsMine, RowExists, Ended, Leased
<1>5. HeldAlone /\ DeliveredWasSpoken
  BY <1>3 DEF HeldAlone, DeliveredWasSpoken
<1>6. FateIsTrue /\ Fenced /\ AnswersOnce
  BY <1>2 DEF FateIsTrue, Fenced, AnswersOnce
<1>7. Timing
  BY <1>2 DEF Timing, Replying, Gates
<1> QED
  BY <1>1, <1>4, <1>5, <1>6, <1>7 DEF ArbiterInv

-----------------------------------------------------------------------------
(* Steps that leave the leases, the fences and the room alone. *)

(* A reservation row that exists stays, with its deadline; a new one is young. *)
RowsKept ==
  /\ resv' \in [Companion -> [Event -> Reservation]]
  /\ \A c \in Companion, e \in Event :
       /\ resv[c][e].status # "none" => /\ resv'[c][e].status # "none"
                                        /\ resv'[c][e].until = resv[c][e].until
       /\ resv'[c][e].status # "none" => resv'[c][e].until <= now + ReservationTtl

(* A drive may go to phase p with the local variables m. *)
MayMove(d, p, m) ==
  /\ p # "done" => pc[d] \notin Ended \/ (Offered(d) /\ Mine(d)'.status # "none")
  /\ m.fate = "failed" \/ p = "done"
  /\ p \in Leased => pc[d] \in Leased /\ m.token = mem[d].token /\ m.at = mem[d].at
  /\ p \in Replying =>
       \/ pc[d] \in Replying /\ m.at = mem[d].at
       \/ pc[d] \notin Ended /\ m.at = now
  /\ p \in Gates => (pc[d] \in Gates /\ m.at = mem[d].at) \/ m.at = now

LEMMA StepsOne ==
  ASSUME Types, NEW d \in Drive, NEW p \in Phase, NEW m \in Memory, Step(d, p, m)
  PROVE  /\ pc' \in [Drive -> Phase] /\ mem' \in [Drive -> Memory]
         /\ pc'[d] = p /\ mem'[d] = IF p = "done" THEN NoMemory ELSE m
         /\ \A x \in Drive \ {d} : pc'[x] = pc[x] /\ mem'[x] = mem[x]
<1>1. NoMemory \in Memory
  BY ArbiterAssumption DEF NoMemory, Memory, BreakerState
<1> QED
  BY <1>1 DEF Types, Step

(* Two drives of one process on one event are not under way together. *)
LEMMA OneDriveKept ==
  ASSUME Types, OneDrive, NEW d \in Drive, NEW p \in Phase, NEW m \in Memory, Step(d, p, m),
         p # "done" => pc[d] \notin Ended \/ Offered(d), p # "idle"
  PROVE  OneDrive'
<1>1. /\ pc'[d] = p /\ \A x \in Drive \ {d} : pc'[x] = pc[x]
  BY StepsOne
<1>2. Offered(d) => \A x \in Drive : Same(x, d) => pc[x] \in Ended
  BY DEF Offered, Running, Same
<1>3. pc[d] \notin Ended => \A x \in Drive \ {d} : Same(x, d) => pc[x] \in Ended
  BY DEF OneDrive
<1> QED
  BY <1>1, <1>2, <1>3 DEF OneDrive, Same, Ended

LEMMA DriveMoves ==
  ASSUME ArbiterInv, NEW d \in Drive, NEW p \in Phase \ {"idle", "fence", "generate"},
         NEW m \in Memory, Step(d, p, m), MayMove(d, p, m), RowsKept,
         UNCHANGED <<now, leases, fences, spoken, crashes>>,
         breaker' \in BreakerState, spoke' \in [Companion -> [when : Nat, count : Nat]],
         charge' \in [Drive -> {"none", "drawn", "bound", "refunded", "tolerated"}]
  PROVE  ArbiterInv'
<1>0. Types /\ p \in Phase
  BY DEF ArbiterInv
<1>1. /\ pc' \in [Drive -> Phase] /\ mem' \in [Drive -> Memory]
      /\ pc'[d] = p /\ mem'[d] = IF p = "done" THEN NoMemory ELSE m
      /\ \A x \in Drive \ {d} : pc'[x] = pc[x] /\ mem'[x] = mem[x]
  BY <1>0, StepsOne
<1>2. Types'
  BY <1>1 DEF ArbiterInv, Types, RowsKept
<1>3. OneDrive'
  BY <1>0, OneDriveKept DEF ArbiterInv, MayMove
<1>4. TokenIsMine'
  BY <1>1, ArbiterAssumption DEF ArbiterInv, TokenIsMine, MayMove, Leased
<1>5. HeldAlone' /\ DeliveredWasSpoken'
  BY DEF ArbiterInv, HeldAlone, DeliveredWasSpoken, Held, Speech
<1>6. FateIsTrue'
  BY <1>1 DEF ArbiterInv, FateIsTrue, MayMove, NoMemory, Spoke
<1>7. RowExists'
  <2>1. \A x \in Drive : Mine(x).status # "none" => Mine(x)'.status # "none"
    BY ArbiterAssumption DEF RowsKept, Mine
  <2>2. p # "done" => Mine(d)'.status # "none"
    BY <2>1 DEF MayMove, ArbiterInv, RowExists
  <2>3. p \in Ended => p = "done"
    BY DEF Ended
  <2> QED
    BY <1>1, <2>1, <2>2, <2>3 DEF ArbiterInv, RowExists, Ended
<1>8. Timing'
  <2>1. \A x \in Drive : pc[x] \notin Ended => Mine(x)'.until = Mine(x).until
    BY ArbiterAssumption DEF RowsKept, Mine, ArbiterInv, RowExists
  <2>2. Replying \cap Ended = {} /\ Gates \subseteq Replying
    BY DEF Replying, Ended, Gates
  <2>3. pc[d] \notin Ended => Mine(d).until <= now + ReservationTtl
    BY ArbiterAssumption DEF ArbiterInv, RowExists, Timing, Mine
  <2>4. p \in Replying => mem'[d] = m /\ Mine(d)'.until <= m.at + ReservationTtl
    BY <1>1, <2>1, <2>2, <2>3 DEF MayMove, ArbiterInv, Timing, Ended
  <2>5. p \in Gates => mem'[d] = m /\ now <= m.at + MaxStall
    BY <1>1, <2>2, ArbiterAssumption DEF MayMove, ArbiterInv, Timing, Ended, Types
  <2>6. \A x \in Drive \ {d} :
           /\ pc'[x] \in Replying => Mine(x)'.until <= mem'[x].at + ReservationTtl
           /\ pc'[x] \in Gates => now' <= mem'[x].at + MaxStall
           /\ pc'[x] = "fence" => mem'[x].at < Mine(x)'.until
    BY <1>1, <2>1, <2>2 DEF ArbiterInv, Timing, Gates
  <2>7. \A c \in Companion, e \in Event :
           resv'[c][e].status # "none" => resv'[c][e].until <= now' + ReservationTtl
    BY DEF RowsKept
  <2> QED
    BY <1>1, <2>4, <2>5, <2>6, <2>7 DEF Timing
<1>9. Fenced' /\ AnswersOnce'
  <2>1. \A x \in spoken : Mine(x)'.until = Mine(x).until
    BY ArbiterAssumption, <1>0 DEF RowsKept, Mine, ArbiterInv, RowExists, Types
  <2> QED
    BY <1>1, <2>1 DEF ArbiterInv, Fenced, AnswersOnce
<1> QED
  BY <1>2, <1>3, <1>4, <1>5, <1>6, <1>7, <1>8, <1>9 DEF ArbiterInv

(* Nobody but a drive that completes its lease reports a delivery. *)
LEMMA StillFailed ==
  ASSUME ArbiterInv, NEW d \in Drive, pc[d] # "complete"
  PROVE  mem[d].fate = "failed" /\ mem[d] \in Memory
BY DEF ArbiterInv, FateIsTrue, Types, Memory

(* A step that writes no row keeps every row. *)
LEMMA RowsUnchanged == ASSUME ArbiterInv, resv' = resv PROVE RowsKept
BY DEF ArbiterInv, Types, RowsKept, Timing

(* A drive that changes nothing but itself. *)
LEMMA LocalMove ==
  ASSUME ArbiterInv, NEW d \in Drive, NEW p \in Phase \ {"idle", "fence", "generate"},
         NEW m \in Memory, Step(d, p, m), MayMove(d, p, m),
         UNCHANGED <<now, resv, leases, breaker, spoke, fences, spoken, crashes>>,
         charge' \in [Drive -> {"none", "drawn", "bound", "refunded", "tolerated"}]
  PROVE  ArbiterInv'
<1>1. RowsKept
  BY RowsUnchanged
<1>2. breaker' \in BreakerState /\ spoke' \in [Companion -> [when : Nat, count : Nat]]
  BY DEF ArbiterInv, Types
<1> QED
  BY <1>1, <1>2, DriveMoves

LEMMA GatedKeeps == ASSUME ArbiterInv, NEW d \in Drive, Gated(d) PROVE ArbiterInv'
<1> DEFINE p == "done"
           m == mem[d]
<1>1. /\ Step(d, p, m) /\ p \in Phase \ {"idle", "fence", "generate"} /\ m \in Memory
      /\ UNCHANGED <<now, resv, leases, breaker, spoke, fences, spoken, crashes>>
      /\ charge' = charge
  BY DEF Gated, Goto, store, Phase, ArbiterInv, Types
<1>2. MayMove(d, p, m)
  BY DEF MayMove, Leased, Replying, Gates
<1>3. charge' \in [Drive -> {"none", "drawn", "bound", "refunded", "tolerated"}]
  BY <1>1 DEF ArbiterInv, Types
<1> HIDE DEF p, m
<1> QED
  BY <1>1, <1>2, <1>3, LocalMove

LEMMA ReserveKeeps == ASSUME ArbiterInv, NEW d \in Drive, Reserve(d) PROVE ArbiterInv'
<1> DEFINE c == CompanionOf[d]
           e == EventOf[d]
           new == [status |-> "reserved", until |-> now + ReservationTtl]
           row == IF resv[c][e].status = "none" THEN new ELSE resv[c][e]
           p == "appraise"
           m == [mem[d] EXCEPT !.seen = row.status]
<1>0. c \in Companion /\ e \in Event /\ Types
  BY ArbiterAssumption DEF ArbiterInv
<1>1. /\ Step(d, p, m) /\ p \in Phase \ {"idle", "fence", "generate"} /\ Offered(d)
      /\ UNCHANGED <<now, leases, fences, spoken, crashes>>
      /\ UNCHANGED <<breaker, spoke, charge>>
      /\ resv' = [resv EXCEPT ![c][e] = row]
  BY DEF Reserve, Phase
<1>2. row \in Reservation /\ row.status # "none" /\ row.until <= now + ReservationTtl
  <2>1. new \in Reservation /\ new.status # "none" /\ new.until <= now + ReservationTtl
    BY <1>0, ArbiterAssumption DEF Types, Reservation
  <2>2. resv[c][e] \in Reservation
    BY <1>0 DEF Types
  <2> QED
    BY <1>0, <2>1, <2>2 DEF ArbiterInv, Timing
<1>3. pc[d] = "idle" /\ mem[d].fate = "failed" /\ mem[d] \in Memory
  BY <1>1, StillFailed DEF Offered
<1>4. m \in Memory /\ m.fate = "failed"
  BY <1>2, <1>3 DEF Memory, Reservation
<1>5. /\ resv' \in [Companion -> [Event -> Reservation]] /\ resv'[c][e] = row
      /\ \A x \in Companion, y \in Event : x # c \/ y # e => resv'[x][y] = resv[x][y]
  BY <1>0, <1>1, <1>2 DEF Types
<1> HIDE DEF row, new
<1>6. RowsKept
  <2>1. resv[c][e].status # "none" => row.until = resv[c][e].until
    BY DEF row
  <2>2. \A x \in Companion, y \in Event :
          resv[x][y].status # "none" => resv[x][y].until <= now + ReservationTtl
    BY DEF ArbiterInv, Timing
  <2> QED
    BY <1>2, <1>5, <2>1, <2>2 DEF RowsKept
<1>7. MayMove(d, p, m)
  BY <1>1, <1>2, <1>4, <1>5 DEF MayMove, Mine, Leased, Replying, Gates
<1>8. /\ breaker' \in BreakerState /\ spoke' \in [Companion -> [when : Nat, count : Nat]]
      /\ charge' \in [Drive -> {"none", "drawn", "bound", "refunded", "tolerated"}]
  BY <1>0, <1>1 DEF Types
<1> HIDE DEF p, m
<1> QED
  BY <1>1, <1>4, <1>6, <1>7, <1>8, DriveMoves

(* A released row keeps its deadline. *)
LEMMA ReleasedRow ==
  ASSUME NEW r \in Reservation
  PROVE  /\ Released(r) \in Reservation /\ Released(r).until = r.until
         /\ Released(r).status = "none" <=> r.status = "none"
         /\ Released(r).status \in {r.status, "released"}
BY DEF Released, Reservation

LEMMA ReleaseKeepsRows ==
  ASSUME ArbiterInv, NEW d \in Drive, 
         resv' = [resv EXCEPT ![CompanionOf[d]][EventOf[d]] = Released(@)]
  PROVE  RowsKept
<1>0. CompanionOf[d] \in Companion /\ EventOf[d] \in Event /\ Types
  BY ArbiterAssumption DEF ArbiterInv
<1> DEFINE c == CompanionOf[d]
           e == EventOf[d]
           row == Released(resv[c][e])
<1>1. /\ resv[c][e] \in Reservation /\ row \in Reservation /\ row.until = resv[c][e].until
      /\ row.status = "none" <=> resv[c][e].status = "none"
  <2>1. resv[c][e] \in Reservation
    BY <1>0 DEF Types
  <2> QED
    BY <2>1, ReleasedRow
<1>2. resv' = [resv EXCEPT ![c][e] = row]
  OBVIOUS
<1> HIDE DEF row
<1>3. /\ resv' \in [Companion -> [Event -> Reservation]] /\ resv'[c][e] = row
      /\ \A x \in Companion, y \in Event : x # c \/ y # e => resv'[x][y] = resv[x][y]
  BY <1>0, <1>1, <1>2 DEF Types
<1>4. \A x \in Companion, y \in Event :
        resv[x][y].status # "none" => resv[x][y].until <= now + ReservationTtl
  BY DEF ArbiterInv, Timing
<1> QED
  BY <1>1, <1>3, <1>4 DEF RowsKept

(* The drive ends and gives its reservation up. *)
LEMMA ReleaseKeeps ==
  ASSUME ArbiterInv, NEW d \in Drive, AppraiseIgnore(d) \/ ReleaseSilently(d) PROVE ArbiterInv'
<1> DEFINE p == "done"
           m == mem[d]
<1>1. /\ Step(d, p, m) /\ p \in Phase \ {"idle", "fence", "generate"} /\ m \in Memory
      /\ UNCHANGED <<now, leases, fences, spoken, crashes>>
      /\ UNCHANGED <<breaker, spoke, charge>>
      /\ resv' = [resv EXCEPT ![CompanionOf[d]][EventOf[d]] = Released(@)]
  BY DEF AppraiseIgnore, ReleaseSilently, Goto, Phase, ArbiterInv, Types
<1>2. MayMove(d, p, m)
  BY DEF MayMove, Leased, Replying, Gates
<1>3. /\ breaker' \in BreakerState /\ spoke' \in [Companion -> [when : Nat, count : Nat]]
      /\ charge' \in [Drive -> {"none", "drawn", "bound", "refunded", "tolerated"}]
  BY <1>1 DEF ArbiterInv, Types
<1> HIDE DEF p, m
<1> QED
  BY <1>1, <1>2, <1>3, ReleaseKeepsRows, DriveMoves

(* The phases before a lease is granted. *)
LEMMA PhasesKeep ==
  ASSUME ArbiterInv, NEW d \in Drive,
         \/ AppraiseReact(d) \/ Fairness(d) \/ GateError(d) \/ DrawRefused(d)
         \/ AcquireDeclined(d) \/ AcquireThrows(d) \/ ReleaseThrows(d) \/ CompleteThrows(d)
         \/ NothingToSend(d)
  PROVE  ArbiterInv'
<1> DEFINE m == mem[d]
<1>0. m \in Memory
  BY DEF ArbiterInv, Types
<1>1. PICK p \in {"release", "done", "draw", "refundRelease", "refund", "complete"} :
        /\ Step(d, p, m)
        /\ p = "draw" => pc[d] = "fairness"
        /\ p = "complete" => pc[d] = "generate"
        /\ p # "done" => pc[d] \notin {"idle", "done", "complete"}
  BY DEF AppraiseReact, Fairness, GateError, DrawRefused, AcquireDeclined, AcquireThrows,
     ReleaseThrows, CompleteThrows, NothingToSend, Goto
<1>2. UNCHANGED <<now, resv, leases, breaker, spoke, fences, spoken, crashes>> /\ charge' = charge
  BY DEF AppraiseReact, Fairness, GateError, DrawRefused, AcquireDeclined, AcquireThrows,
     ReleaseThrows, CompleteThrows, NothingToSend, store
<1>3. p # "done" => m.fate = "failed"
  BY <1>1, StillFailed
<1>4. p \in Phase \ {"idle", "fence", "generate"}
  BY DEF Phase
<1>5. MayMove(d, p, m)
  BY <1>1, <1>3 DEF MayMove, Ended, Leased, Replying, Gates
<1>6. charge' \in [Drive -> {"none", "drawn", "bound", "refunded", "tolerated"}]
  BY <1>2 DEF ArbiterInv, Types
<1> HIDE DEF m
<1> QED
  BY <1>0, <1>1, <1>2, <1>4, <1>5, <1>6, LocalMove

LEMMA AppraiseReplyKeeps == ASSUME ArbiterInv, NEW d \in Drive, AppraiseReply(d) PROVE ArbiterInv'
<1> DEFINE p == IF mem[d].seen = "reserved" THEN "breaker" ELSE "done"
           m == [mem[d] EXCEPT !.at = now]
<1>1. /\ Step(d, p, m) /\ pc[d] = "appraise" /\ charge' = charge
      /\ UNCHANGED <<now, resv, leases, breaker, spoke, fences, spoken, crashes>>
  BY DEF AppraiseReply, store
<1>2. mem[d].fate = "failed" /\ mem[d] \in Memory /\ now \in Nat
  BY <1>1, StillFailed DEF ArbiterInv, Types
<1>3. m \in Memory /\ m.fate = "failed" /\ m.at = now
  BY <1>2 DEF Memory
<1>4. p \in Phase \ {"idle", "fence", "generate"}
  BY DEF Phase
<1>5. MayMove(d, p, m)
  BY <1>1, <1>3 DEF MayMove, Ended, Leased, Replying, Gates
<1>6. charge' \in [Drive -> {"none", "drawn", "bound", "refunded", "tolerated"}]
  BY <1>1 DEF ArbiterInv, Types
<1> HIDE DEF p, m
<1> QED
  BY <1>1, <1>3, <1>4, <1>5, <1>6, LocalMove

LEMMA ReadBreakerKeeps ==
  ASSUME ArbiterInv, NEW d \in Drive, NEW pressure \in Pressure, ReadBreaker(d, pressure)
  PROVE  ArbiterInv'
<1> DEFINE p == "persist"
           next == Resolved(breaker, pressure)
           m == [mem[d] EXCEPT !.prior = breaker, !.next = next]
<1>1. /\ Step(d, p, m) /\ pc[d] = "breaker" /\ charge' = charge
      /\ UNCHANGED <<now, resv, leases, breaker, spoke, fences, spoken, crashes>>
  BY DEF ReadBreaker, store
<1>2. mem[d].fate = "failed" /\ mem[d] \in Memory /\ breaker \in BreakerState
  BY <1>1, StillFailed DEF ArbiterInv, Types
<1>3. next \in BreakerState
  BY <1>2 DEF Resolved, BreakerState, Pressure
<1> HIDE DEF next
<1>4. m \in Memory /\ m.fate = "failed" /\ m.at = mem[d].at
  BY <1>2, <1>3 DEF Memory
<1>5. p \in Phase \ {"idle", "fence", "generate"}
  BY DEF Phase
<1>6. MayMove(d, p, m)
  BY <1>1, <1>4 DEF MayMove, Ended, Leased, Replying, Gates
<1>7. charge' \in [Drive -> {"none", "drawn", "bound", "refunded", "tolerated"}]
  BY <1>1 DEF ArbiterInv, Types
<1> HIDE DEF p, m
<1> QED
  BY <1>1, <1>4, <1>5, <1>6, <1>7, LocalMove

LEMMA PersistBreakerKeeps ==
  ASSUME ArbiterInv, NEW d \in Drive, NEW next \in {"fairness", "release"}, PersistBreaker(d, next)
  PROVE  ArbiterInv'
<1> DEFINE m == [mem[d] EXCEPT !.prior = "closed", !.next = "closed"]
<1>1. /\ Step(d, next, m) /\ pc[d] = "persist" /\ breaker' = mem[d].next
      /\ UNCHANGED <<now, leases, fences, spoken, crashes>> /\ UNCHANGED <<resv, spoke, charge>>
  BY DEF PersistBreaker
<1>2. mem[d].fate = "failed" /\ mem[d] \in Memory
  BY <1>1, StillFailed
<1>3. m \in Memory /\ m.fate = "failed" /\ m.at = mem[d].at /\ mem[d].next \in BreakerState
  BY <1>2 DEF Memory, BreakerState
<1>4. next \in Phase \ {"idle", "fence", "generate"}
  BY DEF Phase
<1>5. MayMove(d, next, m)
  BY <1>1, <1>3 DEF MayMove, Ended, Leased, Replying, Gates
<1>6. /\ breaker' \in BreakerState /\ spoke' \in [Companion -> [when : Nat, count : Nat]]
      /\ charge' \in [Drive -> {"none", "drawn", "bound", "refunded", "tolerated"}]
  BY <1>1, <1>3 DEF ArbiterInv, Types
<1> HIDE DEF m
<1> QED
  BY <1>1, <1>3, <1>4, <1>5, <1>6, RowsUnchanged, DriveMoves

(* The draw and its refund touch the charge of the drive. *)
LEMMA ChargeKeeps ==
  ASSUME ArbiterInv, NEW d \in Drive,
         Draw(d) \/ \E result \in {"refunded", "tolerated"} : RefundDraw(d, result)
  PROVE  ArbiterInv'
<1> DEFINE m == mem[d]
<1>1. PICK p \in {"acquire", "release", "done"} :
        /\ Step(d, p, m)
        /\ p = "acquire" => pc[d] = "draw"
        /\ pc[d] \notin {"idle", "done", "complete"}
  BY DEF Draw, RefundDraw, Goto
<1>2. UNCHANGED <<now, resv, leases, breaker, spoke, fences, spoken, crashes>>
  BY DEF Draw, RefundDraw, store
<1>3. m \in Memory /\ m.fate = "failed"
  BY <1>1, StillFailed
<1>4. p \in Phase \ {"idle", "fence", "generate"}
  BY DEF Phase
<1>5. MayMove(d, p, m)
  BY <1>1, <1>3 DEF MayMove, Ended, Leased, Replying, Gates
<1>6. charge' \in [Drive -> {"none", "drawn", "bound", "refunded", "tolerated"}]
  BY DEF ArbiterInv, Types, Draw, RefundDraw
<1> HIDE DEF m
<1> QED
  BY <1>1, <1>2, <1>3, <1>4, <1>5, <1>6, LocalMove

-----------------------------------------------------------------------------
(* Steps that write leases. *)

(* A lease row stays, with its holder and its deadline. *)
LeasesKept ==
  /\ leases' \in [Event -> Seq(Lease)]
  /\ \A e \in Event :
       /\ Len(leases'[e]) <= MaxLeases
       /\ \A i \in DOMAIN leases[e] :
            /\ i \in DOMAIN leases'[e]
            /\ leases'[e][i].by = leases[e][i].by
            /\ leases'[e][i].until = leases[e][i].until

LEMMA TokensKept ==
  ASSUME ArbiterInv, LeasesKept, NEW x \in Drive, pc[x] \in Leased
  PROVE  /\ mem[x].token \in DOMAIN leases'[EventOf[x]]
         /\ leases'[EventOf[x]][mem[x].token].by = CompanionOf[x]
         /\ leases'[EventOf[x]][mem[x].token].until = mem[x].at + LeaseTtl
<1> DEFINE e == EventOf[x]
           i == mem[x].token
<1>1. e \in Event
  BY ArbiterAssumption
<1>2. /\ i \in DOMAIN leases[e] /\ leases[e][i].by = CompanionOf[x]
      /\ leases[e][i].until = mem[x].at + LeaseTtl
  BY DEF ArbiterInv, TokenIsMine
<1> QED
  BY <1>1, <1>2 DEF LeasesKept

(* Rows that are rewritten in place are a table again. *)
LEMMA TableRewritten ==
  ASSUME NEW s \in Seq(Lease), NEW f, DOMAIN f = DOMAIN s, f = [i \in DOMAIN s |-> f[i]],
         \A i \in DOMAIN s : f[i] \in Lease
  PROVE  f \in Seq(Lease) /\ Len(f) = Len(s)
<1>1. DOMAIN s = 1 .. Len(s) /\ Len(s) \in Nat
  OBVIOUS
<1>2. f \in [1 .. Len(s) -> Lease]
  BY <1>1
<1>3. f \in Seq(Lease)
  BY <1>1, <1>2, SeqDef
<1> QED
  BY <1>1, <1>2, <1>3

(* What the grant leaves in the table of its event. *)
LEMMA GrantedTable ==
  ASSUME ArbiterInv, NEW d \in Drive, AcquireGranted(d),
         NEW e \in Event, e = EventOf[d], NEW n \in Nat, n = Len(leases[e])
  PROVE  /\ LeasesKept
         /\ leases'[e][n + 1].by = CompanionOf[d]
         /\ leases'[e][n + 1].until = mem[d].at + LeaseTtl
         /\ n + 1 \in DOMAIN leases'[e] /\ n + 1 \in 0 .. MaxLeases
         /\ \A i \in DOMAIN leases'[e] :
              /\ leases'[e][i].status = "held" => i = n + 1
              /\ leases'[e][i].status # "delivered"
         /\ \A x \in Event \ {e} : leases'[x] = leases[x]
<1> DEFINE old == leases[e]
           Closed(i) == IF i \in Held(e) THEN [old[i] EXCEPT !.status = "expired"] ELSE old[i]
           rows == [i \in DOMAIN old |-> Closed(i)]
           row == [by |-> CompanionOf[d], until |-> mem[d].at + LeaseTtl, status |-> "held"]
<1>0. /\ e \in Event /\ CompanionOf[d] \in Companion /\ Types /\ n \in Nat /\ mem[d].at \in Nat
      /\ old \in Seq(Lease) /\ DOMAIN old = 1 .. n
  BY ArbiterAssumption DEF ArbiterInv, Types, Memory
<1>1. leases' = [leases EXCEPT ![e] = Append(rows, row)] /\ n < MaxLeases /\ Speech(e) = {}
  BY DEF AcquireGranted
<1>2. \A i \in DOMAIN old : /\ old[i] \in Lease /\ Closed(i) \in Lease
                            /\ Closed(i).by = old[i].by /\ Closed(i).until = old[i].until
                            /\ Closed(i).status \notin {"held", "delivered"}
  <2> SUFFICES ASSUME NEW i \in DOMAIN old
               PROVE  /\ old[i] \in Lease /\ Closed(i) \in Lease
                      /\ Closed(i).by = old[i].by /\ Closed(i).until = old[i].until
                      /\ Closed(i).status \notin {"held", "delivered"}
    OBVIOUS
  <2>1. old[i] \in Lease
    BY <1>0
  <2>2. CASE i \in Held(e)
    BY <2>1, <2>2 DEF Lease
  <2>3. CASE i \notin Held(e)
    BY <2>1, <2>3, <1>1 DEF Lease, Held, Speech
  <2> QED
    BY <2>2, <2>3
<1> HIDE DEF Closed
<1>3. DOMAIN rows = DOMAIN old /\ \A i \in DOMAIN old : rows[i] = Closed(i)
  OBVIOUS
<1>4. rows \in Seq(Lease) /\ Len(rows) = n
  <2>1. DOMAIN rows = DOMAIN old /\ rows = [i \in DOMAIN old |-> rows[i]]
        /\ \A i \in DOMAIN old : rows[i] \in Lease
    BY <1>2, <1>3
  <2> HIDE DEF rows
  <2> QED
    BY <1>0, <2>1, TableRewritten
<1>5. row \in Lease /\ row.status = "held"
  BY <1>0, ArbiterAssumption DEF Lease
<1> HIDE DEF row, rows
<1>6. /\ Append(rows, row) \in Seq(Lease) /\ Len(Append(rows, row)) = n + 1
      /\ DOMAIN Append(rows, row) = 1 .. n + 1 /\ Append(rows, row)[n + 1] = row
      /\ \A i \in 1 .. n : Append(rows, row)[i] = Closed(i)
  BY <1>0, <1>3, <1>4, <1>5
<1>7. leases' \in [Event -> Seq(Lease)] /\ leases'[e] = Append(rows, row)
  BY <1>0, <1>1, <1>6 DEF Types
<1>8. \A x \in Event \ {e} : leases'[x] = leases[x]
  BY <1>0, <1>1 DEF Types
<1>9. LeasesKept
  BY <1>0, <1>1, <1>2, <1>6, <1>7, <1>8, ArbiterAssumption DEF LeasesKept, Types
<1>10. \A i \in DOMAIN leases'[e] :
         /\ leases'[e][i].status = "held" => i = n + 1
         /\ leases'[e][i].status # "delivered"
  BY <1>0, <1>2, <1>5, <1>6, <1>7
<1>11. row.by = CompanionOf[d] /\ row.until = mem[d].at + LeaseTtl
  BY DEF row
<1>12. leases'[e][n + 1] = row
  BY <1>6, <1>7
<1>13. n + 1 \in DOMAIN leases'[e] /\ n + 1 \in 0 .. MaxLeases
  BY <1>0, <1>1, <1>6, <1>7, ArbiterAssumption
<1> QED
  BY <1>8, <1>9, <1>10, <1>11, <1>12, <1>13

LEMMA AcquireKeeps == ASSUME ArbiterInv, NEW d \in Drive, AcquireGranted(d) PROVE ArbiterInv'
<1> DEFINE e == EventOf[d]
           n == Len(leases[e])
           p == "fence"
           m == [mem[d] EXCEPT !.token = n + 1]
<1>0. e \in Event /\ CompanionOf[d] \in Companion /\ Types /\ n \in Nat /\ mem[d] \in Memory
  BY ArbiterAssumption DEF ArbiterInv, Types
<1>1. /\ Step(d, p, m) /\ p \in Phase /\ pc[d] = "acquire"
      /\ UNCHANGED <<now, resv, breaker, spoke, fences, spoken, crashes>>
      /\ charge' = [charge EXCEPT ![d] = "bound"] /\ Active(Mine(d), mem[d].at)
  BY DEF AcquireGranted, Phase
<1>2. /\ LeasesKept
      /\ \A i \in DOMAIN leases'[e] :
           /\ leases'[e][i].status = "held" => i = n + 1
           /\ leases'[e][i].status # "delivered"
      /\ n + 1 \in DOMAIN leases'[e] /\ n + 1 \in 0 .. MaxLeases
      /\ leases'[e][n + 1].by = CompanionOf[d]
      /\ leases'[e][n + 1].until = mem[d].at + LeaseTtl
      /\ \A x \in Event \ {e} : leases'[x] = leases[x]
  BY <1>0, GrantedTable
<1>3. m \in Memory /\ m.at = mem[d].at /\ m.token = n + 1 /\ m.fate = "failed"
  BY <1>0, <1>1, <1>2, StillFailed DEF Memory
<1> HIDE DEF m, p, n
<1>4. /\ pc' \in [Drive -> Phase] /\ mem' \in [Drive -> Memory] /\ p = "fence"
      /\ pc'[d] = p /\ mem'[d] = m
      /\ \A x \in Drive \ {d} : pc'[x] = pc[x] /\ mem'[x] = mem[x]
  BY <1>0, <1>1, <1>3, StepsOne DEF p
<1>5. Types'
  BY <1>1, <1>2, <1>4 DEF ArbiterInv, Types, LeasesKept
<1>6. OneDrive'
  BY <1>0, <1>1, <1>3, <1>4, OneDriveKept DEF ArbiterInv, Ended
<1>7. TokenIsMine'
  <2>1. \A x \in Drive \ {d} : EventOf[x] \in Event /\ pc'[x] = pc[x] /\ mem'[x] = mem[x]
    BY <1>4, ArbiterAssumption
  <2>2. \A x \in Drive \ {d} : pc'[x] \in Leased =>
           /\ mem'[x].token \in DOMAIN leases'[EventOf[x]]
           /\ leases'[EventOf[x]][mem'[x].token].by = CompanionOf[x]
           /\ leases'[EventOf[x]][mem'[x].token].until = mem'[x].at + LeaseTtl
    BY <2>1, <1>2, TokensKept
  <2> QED
    BY <1>2, <1>3, <1>4, <2>2 DEF TokenIsMine
<1>8. HeldAlone' /\ DeliveredWasSpoken'
  BY <1>1, <1>2 DEF ArbiterInv, HeldAlone, DeliveredWasSpoken, Held, Speech
<1>9. FateIsTrue' /\ RowExists'
  BY <1>1, <1>3, <1>4 DEF ArbiterInv, FateIsTrue, RowExists, Mine, Spoke, Ended
<1>10. Timing'
  BY <1>1, <1>3, <1>4 DEF ArbiterInv, Timing, Mine, Active, Replying, Gates
<1>11. Fenced' /\ AnswersOnce'
  BY <1>1, <1>4 DEF ArbiterInv, Fenced, AnswersOnce, Mine
<1> QED
  BY <1>5, <1>6, <1>7, <1>8, <1>9, <1>10, <1>11 DEF ArbiterInv

-----------------------------------------------------------------------------
(* Steps of the sender, which writes the fence of its event. *)

LEMMA SenderMoves ==
  ASSUME ArbiterInv, NEW d \in Drive, NEW p \in {"generate", "sending", "complete"},
         NEW m \in Memory, Step(d, p, m), pc[d] \in Leased,
         m.token = mem[d].token, m.at = mem[d].at,
         UNCHANGED <<now, resv, leases, breaker, spoke, charge, crashes>>,
         NEW f \in Fence, fences' = [fences EXCEPT ![CompanionOf[d]][EventOf[d]] = f],
         spoken' \in {spoken, spoken \cup {d}},
         f.status = "delivered" => \E x \in spoken' : Same(x, d),
         m.fate = "delivered" => p = "complete" /\ \E x \in spoken' : Same(x, d),
         \A x \in spoken' : crashes = 0 /\ Same(x, d) =>
           /\ f.status # "none" /\ p # "generate" /\ Mine(d).until + MaxStall <= f.until + 1
           /\ spoken' = spoken \/ x = d
  PROVE  ArbiterInv'
<1> DEFINE c == CompanionOf[d]
           e == EventOf[d]
<1> c \in Companion /\ e \in Event
  BY ArbiterAssumption
<1>0. Types /\ p \in Phase \ {"idle", "done", "fence"} /\ p \in Leased
  BY DEF ArbiterInv, Phase, Leased
<1>1. /\ pc' \in [Drive -> Phase] /\ mem' \in [Drive -> Memory]
      /\ pc'[d] = p /\ mem'[d] = m
      /\ \A x \in Drive \ {d} : pc'[x] = pc[x] /\ mem'[x] = mem[x]
  BY <1>0, StepsOne
<1>2. /\ fences' \in [Companion -> [Event -> Fence]] /\ fences'[c][e] = f
      /\ \A x \in Companion, y \in Event : x # c \/ y # e => fences'[x][y] = fences[x][y]
  BY <1>0 DEF Types
<1>3. Types'
  BY <1>0, <1>1, <1>2 DEF Types
<1>4. OneDrive'
  BY <1>0, OneDriveKept DEF ArbiterInv, Ended, Leased
<1>5. TokenIsMine'
  BY <1>1, ArbiterAssumption DEF ArbiterInv, TokenIsMine
<1>6. HeldAlone' /\ DeliveredWasSpoken'
  BY DEF ArbiterInv, HeldAlone, DeliveredWasSpoken, Held, Speech
<1>7. FateIsTrue'
  <2>1. /\ \A x \in Companion, y \in Event : Spoke(x, y) => Spoke(x, y)'
        /\ (\E x \in spoken' : Same(x, d)) => Spoke(c, e)'
    BY DEF Spoke, Same
  <2>2. \A x \in Drive \ {d} : mem'[x].fate = "delivered" =>
          pc'[x] = "complete" /\ Spoke(CompanionOf[x], EventOf[x])'
    BY <1>1, <2>1, ArbiterAssumption DEF ArbiterInv, FateIsTrue
  <2>3. \A x \in Companion, y \in Event : fences'[x][y].status = "delivered" => Spoke(x, y)'
    BY <1>2, <2>1 DEF ArbiterInv, FateIsTrue
  <2>4. mem'[d].fate = "delivered" => pc'[d] = "complete" /\ Spoke(CompanionOf[d], EventOf[d])'
    BY <1>1, <2>1
  <2> QED
    BY <2>2, <2>3, <2>4 DEF FateIsTrue
<1>8. RowExists'
  BY <1>0, <1>1 DEF ArbiterInv, RowExists, Mine, Ended, Leased
<1>9. Timing'
  BY <1>0, <1>1 DEF ArbiterInv, Timing, Mine, Replying, Gates, Leased
<1>10. Fenced'
  <2> SUFFICES ASSUME crashes = 0, NEW x \in spoken'
               PROVE  /\ fences'[CompanionOf[x]][EventOf[x]].status # "none"
                      /\ Mine(x)'.until + MaxStall <= fences'[CompanionOf[x]][EventOf[x]].until + 1
                      /\ \A y \in Drive : Same(x, y) => pc'[y] # "generate"
    BY DEF Fenced
  <2>0. x \in Drive /\ CompanionOf[x] \in Companion /\ EventOf[x] \in Event /\ Mine(x)' = Mine(x)
    BY <1>0, ArbiterAssumption DEF Types, Mine
  <2>1. CASE Same(x, d)
    <3>1. /\ f.status # "none" /\ p # "generate" /\ Mine(d).until + MaxStall <= f.until + 1
      BY <2>1
    <3>2. Mine(x) = Mine(d) /\ fences'[CompanionOf[x]][EventOf[x]] = f
      BY <1>2, <2>1 DEF Same, Mine
    <3>3. \A y \in Drive \ {d} : Same(x, y) => pc'[y] # "generate"
      BY <1>1, <2>1 DEF ArbiterInv, OneDrive, Same, Ended, Leased
    <3> QED
      BY <1>1, <2>0, <3>1, <3>2, <3>3
  <2>2. CASE ~Same(x, d)
    <3>1. x \in spoken
      BY <2>2 DEF Same
    <3>2. fences'[CompanionOf[x]][EventOf[x]] = fences[CompanionOf[x]][EventOf[x]]
      BY <1>2, <2>0, <2>2 DEF Same
    <3>3. \A y \in Drive : Same(x, y) => pc'[y] # "generate"
      BY <1>1, <2>2, <3>1 DEF ArbiterInv, Fenced
    <3> QED
      BY <2>0, <3>1, <3>2, <3>3 DEF ArbiterInv, Fenced
  <2> QED
    BY <2>1, <2>2
<1>11. AnswersOnce'
  <2> SUFFICES ASSUME crashes = 0, NEW x \in spoken', NEW y \in spoken', Same(x, y), x # y
               PROVE  FALSE
    BY DEF AnswersOnce, Same
  <2>1. Same(x, d) <=> Same(y, d)
    BY DEF Same
  <2>2. Same(x, d) => spoken' = spoken \/ x = d
    OBVIOUS
  <2>3. Same(y, d) => spoken' = spoken \/ y = d
    OBVIOUS
  <2>4. Same(d, d)
    BY DEF Same
  <2>5. x \in spoken /\ y \in spoken
    BY <2>1, <2>2, <2>3, <2>4
  <2> QED
    BY <2>5 DEF ArbiterInv, AnswersOnce, Same
<1> QED
  BY <1>3, <1>4, <1>5, <1>6, <1>7, <1>8, <1>9, <1>10, <1>11 DEF ArbiterInv

(* The gates of a reply are over before the fence of an earlier one is. *)
LEMMA FenceStillUp ==
  ASSUME ArbiterInv, NEW d \in Drive, pc[d] = "fence", crashes = 0, NEW x \in spoken, Same(x, d)
  PROVE  /\ fences[CompanionOf[d]][EventOf[d]].status # "none"
         /\ fences[CompanionOf[d]][EventOf[d]].until >= now
         /\ Mine(d).until + MaxStall <= fences[CompanionOf[d]][EventOf[d]].until + 1
<1> DEFINE fence == fences[CompanionOf[d]][EventOf[d]]
<1>1. /\ fence.until \in Nat /\ mem[d].at \in Nat /\ now \in Nat /\ Mine(d).until \in Nat
  <2>1. fence \in Fence /\ Mine(d) \in Reservation /\ mem[d] \in Memory
    BY ArbiterAssumption DEF ArbiterInv, Types, Mine
  <2> QED
    BY <2>1 DEF ArbiterInv, Types, Fence, Memory, Reservation
<1>2. now <= mem[d].at + MaxStall /\ mem[d].at < Mine(d).until
  BY DEF ArbiterInv, Timing, Gates
<1>3. fence.status # "none" /\ Mine(d).until + MaxStall <= fence.until + 1
  BY DEF ArbiterInv, Fenced, Same, Mine
<1> HIDE DEF fence
<1>4. fence.until >= now
  BY <1>1, <1>2, <1>3, ArbiterAssumption
<1> QED
  BY <1>3, <1>4 DEF fence

LEMMA CheckFenceKeeps == ASSUME ArbiterInv, NEW d \in Drive, CheckFence(d) PROVE ArbiterInv'
<1> DEFINE c == CompanionOf[d]
           e == EventOf[d]
           fence == fences[c][e]
           kept == fence.status # "none" /\ fence.until >= now
           f == IF kept THEN fence ELSE NoFence
           p == IF kept THEN "complete" ELSE "generate"
           fate == IF kept /\ fence.status = "delivered" THEN "delivered" ELSE "failed"
           m == [mem[d] EXCEPT !.checked = now, !.fate = fate]
<1>0. /\ c \in Companion /\ e \in Event /\ Types /\ mem[d] \in Memory /\ now \in Nat
      /\ fence \in Fence /\ NoFence \in Fence /\ NoFence.status = "none"
  BY ArbiterAssumption DEF ArbiterInv, Types, Fence, NoFence
<1>1. /\ Step(d, p, m) /\ pc[d] = "fence"
      /\ UNCHANGED <<now, resv, leases, breaker, spoke, charge, crashes>> /\ spoken' = spoken
  BY DEF CheckFence, store
<1>2. fences' = [fences EXCEPT ![c][e] = f]
  <2>1. fences = [fences EXCEPT ![c][e] = fence]
    BY <1>0 DEF Types
  <2> QED
    BY <2>1 DEF CheckFence
<1>3. fence.status = "delivered" => Spoke(c, e)
  BY <1>0 DEF ArbiterInv, FateIsTrue
<1>4. m \in Memory /\ m.token = mem[d].token /\ m.at = mem[d].at /\ m.fate = fate
  BY <1>0 DEF Memory
<1>5. ASSUME crashes = 0, NEW x \in spoken, Same(x, d)
      PROVE  kept /\ Mine(d).until + MaxStall <= fence.until + 1
  BY <1>1, <1>5, FenceStillUp
<1> HIDE DEF c, e, fence, m
<1>6. /\ f \in Fence /\ spoken' \in {spoken, spoken \cup {d}}
      /\ f.status = "delivered" => \E x \in spoken' : Same(x, d)
  BY <1>0, <1>1, <1>3 DEF Spoke, Same, c, e
<1>7. m.fate = "delivered" => p = "complete" /\ \E x \in spoken' : Same(x, d)
  BY <1>1, <1>3, <1>4 DEF Spoke, Same, c, e
<1>8. \A x \in spoken' : crashes = 0 /\ Same(x, d) =>
        /\ f.status # "none" /\ p # "generate" /\ Mine(d).until + MaxStall <= f.until + 1
        /\ spoken' = spoken \/ x = d
  BY <1>1, <1>5
<1>9. p \in {"generate", "sending", "complete"} /\ pc[d] \in Leased
  BY <1>1 DEF Leased
<1>10. c = CompanionOf[d] /\ e = EventOf[d]
  BY DEF c, e
<1> HIDE DEF f, p, fate, kept
<1>11. Step(d, p, m) /\ m.token = mem[d].token /\ m.at = mem[d].at /\ pc[d] \in Leased
  BY <1>1, <1>4, <1>9
<1>12. UNCHANGED <<now, resv, leases, breaker, spoke, charge, crashes>>
  BY <1>1
<1>13. f \in Fence /\ m \in Memory /\ c \in Companion /\ e \in Event
  BY <1>0, <1>4, <1>6
<1> USE DEF c, e
<1> QED
  BY <1>2, <1>6, <1>7, <1>8, <1>9, <1>10, <1>11, <1>12, <1>13, SenderMoves

LEMMA SendKeeps == ASSUME ArbiterInv, NEW d \in Drive, Send(d) PROVE ArbiterInv'
<1> DEFINE c == CompanionOf[d]
           e == EventOf[d]
           until == Later(mem[d].checked, leases[e][mem[d].token].until) + FenceWindow
           f == [status |-> "attempted", until |-> until]
           p == "sending"
           m == mem[d]
<1>0. c \in Companion /\ e \in Event /\ Types /\ mem[d] \in Memory
  BY ArbiterAssumption DEF ArbiterInv, Types
<1>1. /\ Step(d, p, m) /\ pc[d] = "generate" /\ spoken' \in {spoken, spoken \cup {d}}
      /\ UNCHANGED <<now, resv, leases, breaker, spoke, charge, crashes>>
      /\ fences' = [fences EXCEPT ![c][e] = f]
  BY DEF Send, store, Goto
<1>2. leases[e][mem[d].token].until = mem[d].at + LeaseTtl
  BY <1>1 DEF ArbiterInv, TokenIsMine, Leased
<1>3. mem[d].checked \in Nat /\ mem[d].at \in Nat
  BY <1>0 DEF Memory
<1>4. until \in Nat /\ until >= mem[d].at + LeaseTtl + FenceWindow
  BY <1>2, <1>3, ArbiterAssumption DEF Later
<1> HIDE DEF until
<1>5. f \in Fence /\ f.status = "attempted" /\ f.until = until
  BY <1>4 DEF Fence
<1>6. m.fate = "failed"
  BY <1>1, StillFailed
<1>7. Mine(d).until + MaxStall <= f.until + 1
  <2>1. Mine(d).until <= mem[d].at + ReservationTtl
    BY <1>1 DEF ArbiterInv, Timing, Replying
  <2>2. Mine(d).until \in Nat
    BY <1>0 DEF Types, Mine, Reservation
  <2> QED
    BY <1>3, <1>4, <1>5, <2>1, <2>2, ArbiterAssumption, FenceAssumption
<1>8. ASSUME crashes = 0, NEW x \in spoken', Same(x, d)
      PROVE  x = d
  BY <1>1, <1>8 DEF ArbiterInv, Fenced
<1>9. \A x \in spoken' : crashes = 0 /\ Same(x, d) =>
        /\ f.status # "none" /\ p # "generate" /\ Mine(d).until + MaxStall <= f.until + 1
        /\ spoken' = spoken \/ x = d
  BY <1>5, <1>7, <1>8
<1>10. p \in {"generate", "sending", "complete"} /\ pc[d] \in Leased /\ m \in Memory
       /\ m.token = mem[d].token /\ m.at = mem[d].at
  BY <1>0, <1>1 DEF Leased
<1>11. /\ f.status = "delivered" => \E x \in spoken' : Same(x, d)
       /\ m.fate = "delivered" => p = "complete" /\ \E x \in spoken' : Same(x, d)
  BY <1>5, <1>6
<1>12. c = CompanionOf[d] /\ e = EventOf[d]
  OBVIOUS
<1> HIDE DEF f, p, m
<1> QED
  BY <1>0, <1>1, <1>5, <1>9, <1>10, <1>11, <1>12, SenderMoves

(* The gateway answers: the fence stays up, and longer. *)
LEMMA FenceRaised ==
  ASSUME ArbiterInv, NEW d \in Drive, pc[d] = "sending",
         NEW fence, fence = fences[CompanionOf[d]][EventOf[d]],
         NEW until, until = Later(fence.until, now + FenceWindow)
  PROVE  /\ fence \in Fence /\ until \in Nat
         /\ fence.status = "delivered" => Spoke(CompanionOf[d], EventOf[d])
         /\ \A x \in spoken : crashes = 0 /\ Same(x, d) =>
              fence.status # "none" /\ Mine(d).until + MaxStall <= until + 1
<1>1. CompanionOf[d] \in Companion /\ EventOf[d] \in Event /\ Types
  BY ArbiterAssumption DEF ArbiterInv
<1>2. fence \in Fence /\ Mine(d) \in Reservation /\ now \in Nat
  BY <1>1 DEF Types, Mine
<1>3. until \in Nat /\ until >= fence.until /\ fence.until \in Nat /\ Mine(d).until \in Nat
  BY <1>2, ArbiterAssumption DEF Later, Fence, Reservation
<1>4. fence.status = "delivered" => Spoke(CompanionOf[d], EventOf[d])
  BY <1>1 DEF ArbiterInv, FateIsTrue
<1>5. \A x \in spoken : crashes = 0 /\ Same(x, d) =>
        fence.status # "none" /\ Mine(d).until + MaxStall <= fence.until + 1
  BY DEF ArbiterInv, Fenced, Same, Mine
<1>6. Mine(d).until + MaxStall <= fence.until + 1 => Mine(d).until + MaxStall <= until + 1
  BY <1>3, ArbiterAssumption
<1> QED
  BY <1>2, <1>3, <1>4, <1>5, <1>6

LEMMA SendEnds ==
  ASSUME ArbiterInv, NEW d \in Drive, NEW m \in Memory, NEW f \in Fence,
         NEW until \in Nat, f.until = until,
         until = Later(fences[CompanionOf[d]][EventOf[d]].until, now + FenceWindow),
         pc[d] = "sending", Step(d, "complete", m), m.token = mem[d].token, m.at = mem[d].at,
         UNCHANGED <<now, resv, leases, breaker, spoke, charge, crashes>>, spoken' = spoken,
         fences' = [fences EXCEPT ![CompanionOf[d]][EventOf[d]] = f],
         (f.status = "delivered" /\ d \in spoken) \/ f.status = fences[CompanionOf[d]][EventOf[d]].status,
         m.fate = "delivered" => d \in spoken
  PROVE  ArbiterInv'
<1> DEFINE c == CompanionOf[d]
           e == EventOf[d]
           fence == fences[c][e]
           p == "complete"
<1>0. c \in Companion /\ e \in Event
  BY ArbiterAssumption
<1>1. /\ fence \in Fence
      /\ fence.status = "delivered" => Spoke(c, e)
      /\ \A x \in spoken : crashes = 0 /\ Same(x, d) =>
           fence.status # "none" /\ Mine(d).until + MaxStall <= until + 1
  BY FenceRaised
<1>2. d \in spoken => Spoke(c, e)
  BY DEF Spoke
<1>3. Spoke(c, e) => \E x \in spoken' : Same(x, d)
  BY DEF Spoke, Same
<1>4. \A x \in spoken' : crashes = 0 /\ Same(x, d) =>
        /\ f.status # "none" /\ p # "generate" /\ Mine(d).until + MaxStall <= f.until + 1
        /\ spoken' = spoken \/ x = d
  BY <1>1
<1>5. /\ f.status = "delivered" => \E x \in spoken' : Same(x, d)
      /\ m.fate = "delivered" => p = "complete" /\ \E x \in spoken' : Same(x, d)
  BY <1>1, <1>2, <1>3
<1>6. p \in {"generate", "sending", "complete"} /\ pc[d] \in Leased /\ Step(d, p, m)
      /\ spoken' \in {spoken, spoken \cup {d}}
  BY DEF Leased
<1> HIDE DEF p
<1> QED
  BY <1>0, <1>4, <1>5, <1>6, SenderMoves

LEMMA SendReturnsKeeps ==
  ASSUME ArbiterInv, NEW d \in Drive, SendReturns(d) PROVE ArbiterInv'
<1> DEFINE until == Later(fences[CompanionOf[d]][EventOf[d]].until, now + FenceWindow)
           f == [status |-> "delivered", until |-> until]
           m == [mem[d] EXCEPT !.fate = "delivered"]
<1>1. /\ pc[d] = "sending" /\ spoken' = spoken /\ d \in spoken /\ Step(d, "complete", m)
      /\ UNCHANGED <<now, resv, leases, breaker, spoke, charge, crashes>>
      /\ fences' = [fences EXCEPT ![CompanionOf[d]][EventOf[d]] = f]
  BY DEF SendReturns, store
<1>2. until \in Nat
  BY <1>1, FenceRaised
<1>3. f \in Fence /\ f.until = until /\ f.status = "delivered"
  BY <1>2 DEF Fence
<1>4. m \in Memory /\ m.token = mem[d].token /\ m.at = mem[d].at
  BY DEF ArbiterInv, Types, Memory
<1> HIDE DEF m, f
<1> QED
  BY <1>1, <1>2, <1>3, <1>4, SendEnds

LEMMA SendRejectsKeeps ==
  ASSUME ArbiterInv, NEW d \in Drive, SendRejects(d) PROVE ArbiterInv'
<1> DEFINE fence == fences[CompanionOf[d]][EventOf[d]]
           until == Later(fence.until, now + FenceWindow)
           f == [fence EXCEPT !.until = until]
           m == mem[d]
<1>1. /\ pc[d] = "sending" /\ spoken' = spoken /\ Step(d, "complete", m)
      /\ UNCHANGED <<now, resv, leases, breaker, spoke, charge, crashes>>
      /\ fences' = [fences EXCEPT ![CompanionOf[d]][EventOf[d]] = f]
  BY DEF SendRejects, store, Goto
<1>2. until \in Nat /\ fence \in Fence
  BY <1>1, FenceRaised
<1> HIDE DEF until
<1>3. f \in Fence /\ f.until = until /\ f.status = fence.status
  BY <1>2 DEF Fence
<1>4. m \in Memory /\ m.fate = "failed"
  BY <1>1, StillFailed
<1> HIDE DEF m, f
<1>5. until = Later(fence.until, now + FenceWindow) /\ m = mem[d]
  BY DEF until, m
<1> QED
  BY <1>1, <1>2, <1>3, <1>4, <1>5, SendEnds

-----------------------------------------------------------------------------
(* Steps that close leases and reservations. *)

(* Drives stay where they are, or end. *)
LEMMA StoreMoves ==
  ASSUME ArbiterInv, LeasesKept, RowsKept, HeldAlone', DeliveredWasSpoken',
         UNCHANGED <<now, breaker, charge, fences, spoken, crashes>>,
         spoke' \in [Companion -> [when : Nat, count : Nat]],
         pc' \in [Drive -> Phase], mem' \in [Drive -> Memory],
         \A x \in Drive : \/ pc'[x] = pc[x] /\ mem'[x] = mem[x]
                          \/ pc'[x] = "done" /\ mem'[x] = NoMemory
  PROVE  ArbiterInv'
<1>0. \A x \in Drive : /\ CompanionOf[x] \in Companion /\ EventOf[x] \in Event
                       /\ pc'[x] \notin Ended => pc'[x] = pc[x] /\ mem'[x] = mem[x]
  BY ArbiterAssumption DEF Ended
<1>1. Replying \cap Ended = {} /\ Leased \cap Ended = {} /\ Gates \subseteq Replying
  BY DEF Replying, Leased, Gates, Ended
<1>2. Types'
  BY DEF ArbiterInv, Types, LeasesKept, RowsKept
<1>3. OneDrive'
  BY <1>0 DEF ArbiterInv, OneDrive
<1>4. TokenIsMine'
  <2> SUFFICES ASSUME NEW x \in Drive, pc'[x] \in Leased
               PROVE  /\ mem'[x].token \in DOMAIN leases'[EventOf[x]]
                      /\ leases'[EventOf[x]][mem'[x].token].by = CompanionOf[x]
                      /\ leases'[EventOf[x]][mem'[x].token].until = mem'[x].at + LeaseTtl
    BY DEF TokenIsMine
  <2>1. pc'[x] = pc[x] /\ mem'[x] = mem[x]
    BY <1>0, <1>1
  <2> QED
    BY <2>1, TokensKept
<1>5. FateIsTrue'
  BY DEF ArbiterInv, FateIsTrue, Spoke, NoMemory
<1>6. \A x \in Drive : Mine(x).status # "none" =>
        Mine(x)'.status # "none" /\ Mine(x)'.until = Mine(x).until
  BY <1>0 DEF RowsKept, Mine
<1>7. RowExists'
  BY <1>0, <1>6 DEF ArbiterInv, RowExists
<1>8. Timing'
  <2>1. \A x \in Drive : pc'[x] \in Replying =>
          Mine(x)'.until = Mine(x).until /\ pc'[x] = pc[x] /\ mem'[x] = mem[x]
    BY <1>0, <1>1, <1>6 DEF ArbiterInv, RowExists
  <2>2. \A c \in Companion, e \in Event :
          resv'[c][e].status # "none" => resv'[c][e].until <= now' + ReservationTtl
    BY DEF RowsKept
  <2> QED
    BY <1>1, <2>1, <2>2 DEF ArbiterInv, Timing, Gates
<1>9. Fenced' /\ AnswersOnce'
  <2>1. \A x \in spoken : x \in Drive /\ Mine(x)'.until = Mine(x).until
    BY <1>6 DEF ArbiterInv, RowExists, Types
  <2>2. \A x \in Drive : pc'[x] = "generate" => pc[x] = "generate"
    OBVIOUS
  <2> QED
    BY <2>1, <2>2 DEF ArbiterInv, Fenced, AnswersOnce
<1> QED
  BY <1>2, <1>3, <1>4, <1>5, <1>7, <1>8, <1>9 DEF ArbiterInv

(* The completion writes the status of the one held lease. *)
LEMMA CompletedTable ==
  ASSUME ArbiterInv, NEW d \in Drive, CompleteLease(d),
         NEW e \in Event, e = EventOf[d], NEW tok, tok = mem[d].token
  PROVE  /\ LeasesKept /\ tok \in DOMAIN leases[e] /\ leases[e][tok].by = CompanionOf[d]
         /\ DOMAIN leases'[e] = DOMAIN leases[e]
         /\ leases'[e][tok].status = mem[d].fate
         /\ \A i \in DOMAIN leases[e] \ {tok} :
              /\ leases'[e][i] = leases[e][i] 
              /\ leases[e][i].status \notin {"held", "delivered"}
         /\ leases[e][tok].status = "held"
         /\ \A x \in Event \ {e} : leases'[x] = leases[x]
<1>0. Types /\ leases[e] \in Seq(Lease) /\ mem[d] \in Memory
  BY DEF ArbiterInv, Types
<1>1. /\ tok \in DOMAIN leases[e] /\ leases[e][tok].by = CompanionOf[d]
      /\ leases[e][tok].status = "held"
  BY DEF ArbiterInv, TokenIsMine, Leased, CompleteLease
<1> DEFINE row == [leases[e][tok] EXCEPT !.status = mem[d].fate]
           rows == [leases[e] EXCEPT ![tok] = row]
<1>2. leases' = [leases EXCEPT ![e] = rows]
  BY DEF CompleteLease
<1>3. leases[e][tok] \in Lease
  BY <1>0, <1>1
<1>4. /\ row \in Lease /\ row.by = leases[e][tok].by /\ row.until = leases[e][tok].until
      /\ row.status = mem[d].fate
  BY <1>0, <1>3 DEF Lease, Memory
<1> HIDE DEF row
<1>5. /\ DOMAIN rows = DOMAIN leases[e] /\ rows[tok] = row
      /\ \A i \in DOMAIN leases[e] \ {tok} : rows[i] = leases[e][i]
  BY <1>0, <1>1
<1>6. rows \in Seq(Lease) /\ Len(rows) = Len(leases[e])
  BY <1>0, <1>1, <1>4
<1> HIDE DEF rows
<1>7. leases' \in [Event -> Seq(Lease)] /\ leases'[e] = rows
      /\ \A x \in Event \ {e} : leases'[x] = leases[x]
  BY <1>0, <1>2, <1>6 DEF Types
<1>8. LeasesKept
  BY <1>0, <1>4, <1>5, <1>6, <1>7 DEF LeasesKept, Types
<1>9. \A i \in DOMAIN leases[e] \ {tok} : leases[e][i].status \notin {"held", "delivered"}
  BY <1>1 DEF ArbiterInv, HeldAlone, Held, Speech
<1> QED
  BY <1>1, <1>4, <1>5, <1>7, <1>8, <1>9

LEMMA CompleteKeeps == ASSUME ArbiterInv, NEW d \in Drive, CompleteLease(d) PROVE ArbiterInv'
<1> DEFINE c == CompanionOf[d]
           e == EventOf[d]
           tok == mem[d].token
           speech == mem[d].fate = "delivered"
           Retire(x) == IF x = c \/ speech THEN [resv[x] EXCEPT ![e] = Released(@)] ELSE resv[x]
<1>0. c \in Companion /\ e \in Event /\ Types /\ mem[d] \in Memory
  BY ArbiterAssumption DEF ArbiterInv, Types
<1>1. /\ pc[d] = "complete" /\ Step(d, "done", mem[d]) /\ resv' = [x \in Companion |-> Retire(x)]
      /\ UNCHANGED <<now, breaker, charge, fences, spoken, crashes>>
  BY DEF CompleteLease, Goto
<1>2. /\ LeasesKept /\ tok \in DOMAIN leases[e] /\ leases[e][tok].by = c
      /\ DOMAIN leases'[e] = DOMAIN leases[e]
      /\ leases'[e][tok].status = mem[d].fate
      /\ \A i \in DOMAIN leases[e] \ {tok} :
           /\ leases'[e][i] = leases[e][i]
           /\ leases[e][i].status \notin {"held", "delivered"}
      /\ \A x \in Event \ {e} : leases'[x] = leases[x]
  BY <1>0, CompletedTable
<1>3. mem[d].fate \in {"delivered", "failed"} /\ mem[d].at \in Nat
  BY <1>0 DEF Memory
<1>4. spoke' \in [Companion -> [when : Nat, count : Nat]]
  <2>1. spoke \in [Companion -> [when : Nat, count : Nat]]
    BY <1>0 DEF Types
  <2> DEFINE row == [when |-> mem[d].at, count |-> spoke[c].count + 1]
  <2>2. row \in [when : Nat, count : Nat]
    BY <1>0, <1>3, <2>1
  <2>3. spoke' = IF speech THEN [spoke EXCEPT ![c] = row] ELSE spoke
    BY DEF CompleteLease
  <2> HIDE DEF row
  <2> QED
    BY <1>0, <2>1, <2>2, <2>3
<1>5. RowsKept
  <2>1. \A x \in Companion, y \in Event : resv[x][y] \in Reservation
    BY <1>0 DEF Types
  <2>2. \A x \in Companion : resv[x] \in [Event -> Reservation]
    BY <1>0 DEF Types
  <2>3. \A x \in Companion, y \in Event :
          resv'[x][y] = resv[x][y] \/ resv'[x][y] = Released(resv[x][y])
    BY <1>0, <1>1, <2>2
  <2>4. \A x \in Companion : resv'[x] = Retire(x) /\ Retire(x) \in [Event -> Reservation]
    <3>1. \A x \in Companion : Released(resv[x][e]) \in Reservation
      BY <1>0, <2>1, ReleasedRow
    <3> QED
      BY <1>0, <1>1, <2>2, <3>1
  <2>5. resv' \in [Companion -> [Event -> Reservation]]
    BY <1>1, <2>4
  <2>6. \A x \in Companion, y \in Event :
          resv[x][y].status # "none" => resv[x][y].until <= now + ReservationTtl
    BY DEF ArbiterInv, Timing
  <2>7. \A x \in Companion, y \in Event :
          /\ resv'[x][y].until = resv[x][y].until
          /\ resv'[x][y].status = "none" <=> resv[x][y].status = "none"
    BY <2>1, <2>3, ReleasedRow
  <2> QED
    BY <2>5, <2>6, <2>7 DEF RowsKept
<1>6. HeldAlone'
  BY <1>2, <1>3 DEF ArbiterInv, HeldAlone, Held, Speech
<1>7. DeliveredWasSpoken'
  <2>1. speech => \E x \in spoken : EventOf[x] = e /\ CompanionOf[x] = c
    BY DEF ArbiterInv, FateIsTrue, Spoke
  <2>2. leases'[e][tok].by = c
    BY <1>0, <1>2 DEF LeasesKept
  <2> QED
    BY <1>1, <1>2, <2>1, <2>2 DEF ArbiterInv, DeliveredWasSpoken, Speech
<1>8. /\ pc' \in [Drive -> Phase] /\ mem' \in [Drive -> Memory]
      /\ pc'[d] = "done" /\ mem'[d] = NoMemory
      /\ \A x \in Drive \ {d} : pc'[x] = pc[x] /\ mem'[x] = mem[x]
  BY <1>0, <1>1, StepsOne DEF Phase
<1> QED
  BY <1>1, <1>2, <1>4, <1>5, <1>6, <1>7, <1>8, StoreMoves

(* What the watchdog does to the tables. *)
LEMMA SweptTables ==
  ASSUME ArbiterInv, SweepLeases
  PROVE  /\ LeasesKept
         /\ \A e \in Event : /\ DOMAIN leases'[e] = DOMAIN leases[e]
                             /\ \A i \in DOMAIN leases[e] :
                                  \/ leases'[e][i].status = leases[e][i].status
                                  \/ leases[e][i].status = "held" /\ leases'[e][i].status = "expired"
<1>1. leases' = [e \in Event |-> [i \in DOMAIN leases[e] |-> Swept(leases[e][i])]]
  BY DEF SweepLeases
<1>2. \A l \in Lease : /\ Swept(l) \in Lease /\ Swept(l).by = l.by /\ Swept(l).until = l.until
                       /\ \/ Swept(l).status = l.status
                          \/ l.status = "held" /\ Swept(l).status = "expired"
  BY DEF Swept, Lease
<1>3. ASSUME NEW e \in Event
      PROVE  /\ leases'[e] \in Seq(Lease) /\ Len(leases'[e]) = Len(leases[e])
             /\ DOMAIN leases'[e] = DOMAIN leases[e]
             /\ \A i \in DOMAIN leases[e] : leases'[e][i] = Swept(leases[e][i])
                                           /\ leases[e][i] \in Lease
  <2> DEFINE s == leases[e]
             f == [i \in DOMAIN s |-> Swept(s[i])]
  <2>1. s \in Seq(Lease) /\ leases'[e] = f
    BY <1>1 DEF ArbiterInv, Types
  <2>2. \A i \in DOMAIN s : s[i] \in Lease
    BY <2>1
  <2>3. DOMAIN f = DOMAIN s /\ \A i \in DOMAIN s : f[i] = Swept(s[i])
    OBVIOUS
  <2>4. f = [i \in DOMAIN s |-> f[i]] /\ \A i \in DOMAIN s : f[i] \in Lease
    BY <1>2, <2>2, <2>3
  <2> HIDE DEF f, s
  <2>5. f \in Seq(Lease) /\ Len(f) = Len(s)
    BY <2>1, <2>3, <2>4, TableRewritten
  <2> QED
    BY <2>1, <2>2, <2>3, <2>5 DEF s
<1>4. leases' \in [Event -> Seq(Lease)]
  BY <1>1, <1>3
<1>5. LeasesKept
  BY <1>2, <1>3, <1>4 DEF LeasesKept, ArbiterInv, Types
<1>6. ASSUME NEW e \in Event, NEW i \in DOMAIN leases[e]
      PROVE  \/ leases'[e][i].status = leases[e][i].status
             \/ leases[e][i].status = "held" /\ leases'[e][i].status = "expired"
  <2>1. leases[e][i] \in Lease /\ leases'[e][i] = Swept(leases[e][i])
    BY <1>3
  <2> QED
    BY <1>2, <2>1
<1>7. \A e \in Event : DOMAIN leases'[e] = DOMAIN leases[e]
  BY <1>3
<1> QED
  BY <1>5, <1>6, <1>7

LEMMA ExpiredRow ==
  ASSUME NEW r \in Reservation, NEW x, x = [r EXCEPT !.status = "expired"]
  PROVE  x \in Reservation /\ x.until = r.until /\ x.status = "expired"
BY DEF Reservation

(* Neither statement of the watchdog disturbs the invariant. *)
LEMMA SweepKeeps == ASSUME ArbiterInv, SweepLeases PROVE ArbiterInv'
<1>1. UNCHANGED <<now, resv, breaker, spoke, pc, mem, charge, fences, spoken, crashes>>
  BY DEF SweepLeases
<1>2. HeldAlone' /\ DeliveredWasSpoken'
  <2>1. \A e \in Event : Held(e)' \subseteq Held(e) /\ Speech(e)' = Speech(e)
    BY SweptTables DEF Held, Speech
  <2>2. \A e \in Event : \A i \in Speech(e) : leases'[e][i].by = leases[e][i].by
    BY SweptTables DEF LeasesKept, Speech
  <2>3. HeldAlone'
    BY <2>1 DEF ArbiterInv, HeldAlone
  <2> QED
    BY <1>1, <2>1, <2>2, <2>3 DEF ArbiterInv, DeliveredWasSpoken
<1>3. RowsKept
  BY <1>1 DEF RowsKept, ArbiterInv, Timing, Types
<1>4. /\ spoke' \in [Companion -> [when : Nat, count : Nat]]
      /\ pc' \in [Drive -> Phase] /\ mem' \in [Drive -> Memory]
  BY <1>1 DEF ArbiterInv, Types
<1> QED
  BY <1>1, <1>2, <1>3, <1>4, SweptTables, StoreMoves

(* The second one only ends reservations. *)
LEMMA ReservationSweepKeeps == ASSUME ArbiterInv, SweepReservations PROVE ArbiterInv'
<1>1. UNCHANGED <<now, leases, breaker, spoke, pc, mem, charge, fences, spoken, crashes>>
  BY DEF SweepReservations
<1>2. HeldAlone' /\ DeliveredWasSpoken'
  BY <1>1 DEF ArbiterInv, HeldAlone, DeliveredWasSpoken, Held, Speech
<1>3. RowsKept
  <2>1. \A c \in Companion, e \in Event :
          resv'[c][e] \in {resv[c][e], [resv[c][e] EXCEPT !.status = "expired"]}
    BY DEF SweepReservations
  <2>3. \A c \in Companion, e \in Event : resv[c][e] \in Reservation
    BY DEF ArbiterInv, Types
  <2>4. \A c \in Companion, e \in Event :
          resv'[c][e] \in Reservation /\ resv'[c][e].until = resv[c][e].until
    BY <2>1, <2>3, ExpiredRow
  <2>5. \A c \in Companion, e \in Event :
          resv[c][e].status = "none" <=> resv'[c][e].status = "none"
    <3>1. \A c \in Companion, e \in Event :
            resv'[c][e] = resv[c][e] \/ resv[c][e].status = "reserved"
      BY DEF SweepReservations
    <3> QED
      BY <2>1, <2>3, <3>1, ExpiredRow
  <2>6. resv' \in [Companion -> [Event -> Reservation]]
    <3>1. resv' = [c \in Companion |-> [e \in Event |-> resv'[c][e]]]
      BY DEF SweepReservations
    <3> QED
      BY <2>4, <3>1
  <2> QED
    BY <2>4, <2>5, <2>6 DEF RowsKept, ArbiterInv, Timing
<1>4. /\ spoke' \in [Companion -> [when : Nat, count : Nat]]
      /\ pc' \in [Drive -> Phase] /\ mem' \in [Drive -> Memory]
  BY <1>1 DEF ArbiterInv, Types
<1>5. LeasesKept
  BY <1>1 DEF LeasesKept, ArbiterInv, Types
<1> QED
  BY <1>1, <1>2, <1>3, <1>4, <1>5, StoreMoves

-----------------------------------------------------------------------------
(* The environment. *)

(* After a crash nothing is known of the fences, and nothing is claimed. *)
LEMMA CrashKeeps == ASSUME ArbiterInv, NEW c \in Companion, Crash(c) PROVE ArbiterInv'
<1>0. Types /\ NoMemory \in Memory /\ NoFence \in Fence /\ NoFence.status = "none"
  BY ArbiterAssumption DEF ArbiterInv, NoMemory, Memory, BreakerState, NoFence, Fence
<1>1. /\ crashes' = crashes + 1 /\ crashes < MaxCrashes /\ crashes' # 0
      /\ UNCHANGED <<now, resv, leases, breaker, spoke, charge, spoken>>
  BY <1>0 DEF Crash, store, Types
<1>2. /\ pc' \in [Drive -> Phase] /\ mem' \in [Drive -> Memory]
      /\ \A x \in Drive : \/ pc'[x] = pc[x] /\ mem'[x] = mem[x]
                          \/ pc'[x] = "done" /\ mem'[x] = NoMemory
  BY <1>0 DEF Crash, Types, Phase
<1>3. /\ fences' \in [Companion -> [Event -> Fence]]
      /\ \A x \in Companion, e \in Event : fences'[x][e] = fences[x][e] \/ fences'[x][e] = NoFence
  <2>1. fences' = [fences EXCEPT ![c] = [e \in Event |-> NoFence]]
    BY DEF Crash
  <2> QED
    BY <1>0, <2>1 DEF Types
<1>4. Types'
  BY <1>0, <1>1, <1>2, <1>3, ArbiterAssumption DEF Types
<1>5. OneDrive' /\ RowExists'
  BY <1>1, <1>2 DEF ArbiterInv, OneDrive, RowExists, Ended, Mine
<1>6. TokenIsMine'
  BY <1>1, <1>2 DEF ArbiterInv, TokenIsMine, Leased
<1>7. HeldAlone' /\ DeliveredWasSpoken'
  BY <1>1 DEF ArbiterInv, HeldAlone, DeliveredWasSpoken, Held, Speech
<1>8. FateIsTrue'
  <2>2. \A d \in Drive : mem'[d].fate = "delivered" => mem'[d] = mem[d] /\ pc'[d] = pc[d]
    BY <1>2 DEF NoMemory
  <2>3. \A x \in Companion, e \in Event :
          fences'[x][e].status = "delivered" => fences[x][e].status = "delivered"
    BY <1>0, <1>3
  <2>4. ASSUME NEW d \in Drive, mem'[d].fate = "delivered"
        PROVE  pc'[d] = "complete" /\ Spoke(CompanionOf[d], EventOf[d])'
    <3>1. mem[d].fate = "delivered" /\ pc'[d] = pc[d]
      BY <2>2, <2>4
    <3>2. pc[d] = "complete" /\ Spoke(CompanionOf[d], EventOf[d])
      BY <3>1 DEF ArbiterInv, FateIsTrue
    <3> QED
      BY <1>1, <3>1, <3>2 DEF Spoke
  <2>5. ASSUME NEW x \in Companion, NEW e \in Event, fences'[x][e].status = "delivered"
        PROVE  Spoke(x, e)'
    <3>1. Spoke(x, e)
      BY <2>3, <2>5 DEF ArbiterInv, FateIsTrue
    <3> QED
      BY <1>1, <3>1 DEF Spoke
  <2> QED
    BY <2>4, <2>5 DEF FateIsTrue
<1>9. Timing'
  BY <1>1, <1>2 DEF ArbiterInv, Timing, Mine, Replying, Gates
<1>10. Fenced' /\ AnswersOnce'
  BY <1>1 DEF Fenced, AnswersOnce
<1> QED
  BY <1>4, <1>5, <1>6, <1>7, <1>8, <1>9, <1>10 DEF ArbiterInv

LEMMA TickKeeps == ASSUME ArbiterInv, Tick PROVE ArbiterInv'
<1>1. /\ now' = now + 1 /\ now < MaxTime
      /\ UNCHANGED <<resv, leases, breaker, spoke, pc, mem, charge, fences, spoken, crashes>>
      /\ \A d \in Drive : pc[d] \in Gates => now < mem[d].at + MaxStall
  BY DEF Tick, store
<1>2. Types'
  BY <1>1, ArbiterAssumption DEF ArbiterInv, Types
<1>3. OneDrive' /\ TokenIsMine' /\ HeldAlone' /\ FateIsTrue' /\ RowExists'
  BY <1>1 DEF ArbiterInv, OneDrive, TokenIsMine, HeldAlone, FateIsTrue, RowExists, Mine, Held,
     Speech, Spoke
<1>4. DeliveredWasSpoken' /\ Fenced' /\ AnswersOnce'
  BY <1>1 DEF ArbiterInv, DeliveredWasSpoken, Fenced, AnswersOnce, Mine, Speech
<1>5. Timing'
  <2>1. now \in Nat /\ \A d \in Drive : mem[d].at \in Nat
    BY DEF ArbiterInv, Types, Memory
  <2>2. \A c \in Companion, e \in Event : resv[c][e].until \in Nat
    BY DEF ArbiterInv, Types, Reservation
  <2>3. \A c \in Companion, e \in Event :
          resv[c][e].status # "none" => resv[c][e].until <= now + 1 + ReservationTtl
    BY <2>1, <2>2, ArbiterAssumption DEF ArbiterInv, Timing
  <2>4. \A d \in Drive : pc[d] \in Gates => now + 1 <= mem[d].at + MaxStall
    BY <1>1, <2>1, ArbiterAssumption
  <2> QED
    BY <1>1, <2>3, <2>4 DEF ArbiterInv, Timing, Mine
<1> QED
  BY <1>2, <1>3, <1>4, <1>5 DEF ArbiterInv

LEMMA ArbiterStep == ArbiterInv /\ [Next]_vars => ArbiterInv'
<1> SUFFICES ASSUME ArbiterInv, [Next]_vars PROVE ArbiterInv'
  OBVIOUS
<1>1. ASSUME NEW d \in Drive, DriveStep(d) PROVE ArbiterInv'
  BY <1>1, GatedKeeps, ReserveKeeps, ReleaseKeeps, PhasesKeep, AppraiseReplyKeeps,
     ReadBreakerKeeps, PersistBreakerKeeps, ChargeKeeps, AcquireKeeps, CheckFenceKeeps, SendKeeps,
     SendReturnsKeeps, SendRejectsKeeps, CompleteKeeps DEF DriveStep
<1>2. CASE UNCHANGED vars
  <2>1. UNCHANGED <<now, resv, leases, breaker, spoke, pc, mem, charge, fences, spoken, crashes>>
    BY <1>2 DEF vars
  <2>2. Types' /\ OneDrive' /\ TokenIsMine'
    BY <2>1 DEF ArbiterInv, Types, OneDrive, TokenIsMine
  <2>3. HeldAlone' /\ FateIsTrue' /\ RowExists' /\ Timing'
    BY <2>1 DEF ArbiterInv, HeldAlone, FateIsTrue, RowExists, Timing, Mine, Held, Speech, Spoke
  <2>4. DeliveredWasSpoken' /\ Fenced' /\ AnswersOnce'
    BY <2>1 DEF ArbiterInv, DeliveredWasSpoken, Fenced, AnswersOnce, Mine, Speech
  <2> QED
    BY <2>2, <2>3, <2>4 DEF ArbiterInv
<1> QED
  BY <1>1, <1>2, SweepKeeps, ReservationSweepKeeps, CrashKeeps, TickKeeps DEF Next

LEMMA ArbiterInvariant == Spec => []ArbiterInv
BY ArbiterInit, ArbiterStep, PTL DEF Spec

-----------------------------------------------------------------------------
(* Rows and local variables have their type, and an event has at most one held lease
   (idx_speaking_egress_leases_one_held). *)
THEOREM ArbiterTypes == Spec => []TypeOK
<1>1. ArbiterInv => TypeOK
  <2> SUFFICES ASSUME ArbiterInv PROVE TypeOK
    OBVIOUS
  <2>1. \A e \in Event : Cardinality(Held(e)) <= 1
    <3> SUFFICES ASSUME NEW e \in Event PROVE Cardinality(Held(e)) <= 1
      OBVIOUS
    <3>1. Held(e) = {} \/ \E i \in Held(e) : Held(e) = {i}
      BY DEF ArbiterInv, HeldAlone
    <3>2. Cardinality({}) = 0
      BY FS_EmptySet
    <3>3. \A i \in Held(e) : Cardinality({i}) = 1
      BY FS_Singleton
    <3> QED
      BY <3>1, <3>2, <3>3
  <2> QED
    BY <2>1, ArbiterAssumption DEF ArbiterInv, Types, TypeOK
<1> QED
  BY <1>1, ArbiterInvariant, PTL

(* What completeEgressLease records as delivered was put into the room by the companion
   that held the lease, whatever crashes, lapses and repeats happened meanwhile. *)
THEOREM RecordIsTrue == Spec => []DeliveredWasSpoken
<1>1. ArbiterInv => DeliveredWasSpoken
  BY DEF ArbiterInv
<1> QED
  BY <1>1, ArbiterInvariant, PTL

(* A process that has not crashed answers an event once: the fence of deliver outlives
   every reply that the reservation of the event can still lead to. *)
THEOREM ReplyIsSentOnce == Spec => []AnswersOnce
<1>1. ArbiterInv => AnswersOnce
  BY DEF ArbiterInv
<1> QED
  BY <1>1, ArbiterInvariant, PTL

-----------------------------------------------------------------------------
(* The lease table is a record written once per event. *)

(* With one speech at most, Speaker names its companion. *)
LEMMA SpeakerIs ==
  ASSUME Types, HeldAlone, NEW e \in Event
  PROVE  /\ Speech(e) = {} => Speaker[e] = "nobody"
         /\ \A i \in Speech(e) : Speaker[e] = leases[e][i].by
<1>1. Speech(e) = {} => Speaker[e] = "nobody"
  BY DEF Speaker
<1>2. ASSUME NEW i \in Speech(e) PROVE Speaker[e] = leases[e][i].by
  <2> DEFINE last == CHOOSE k \in Speech(e) : \A j \in Speech(e) : j <= k
  <2>1. i <= i
    BY <1>2 DEF Types, Speech
  <2>2. last = i
    BY <1>2, <2>1 DEF HeldAlone
  <2> QED
    BY <1>2, <2>2 DEF Speaker
<1> QED
  BY <1>1, <1>2

LEMMA SpeakerIsNext ==
  ASSUME ArbiterInv', NEW e \in Event
  PROVE  /\ Speech(e)' = {} => Speaker'[e] = "nobody"
         /\ \A i \in Speech(e)' : Speaker'[e] = leases'[e][i].by
<1>1. (/\ Speech(e) = {} => Speaker[e] = "nobody"
       /\ \A i \in Speech(e) : Speaker[e] = leases[e][i].by)'
  BY SpeakerIs, PTL DEF ArbiterInv
<1> QED
  BY <1>1

LEMMA SpeakerInit == Init => Record!Init
<1> SUFFICES ASSUME Init PROVE Speaker = [e \in Event |-> "nobody"]
  BY DEF Record!Init
<1>1. \A e \in Event : Speech(e) = {}
  BY DEF Init, Speech
<1> QED
  BY <1>1 DEF Speaker

(* Steps that record no delivery leave the speaker of an event alone. *)
LEMMA SpeakerStays ==
  ASSUME ArbiterInv, ArbiterInv', NEW e \in Event,
         \A i \in Speech(e)' : i \in Speech(e) /\ leases'[e][i].by = leases[e][i].by,
         Speech(e)' = {} => Speech(e) = {}
  PROVE  Speaker'[e] = Speaker[e]
<1>1. /\ Speech(e) = {} => Speaker[e] = "nobody"
      /\ \A i \in Speech(e) : Speaker[e] = leases[e][i].by
  BY SpeakerIs DEF ArbiterInv
<1>2. /\ Speech(e)' = {} => Speaker'[e] = "nobody"
      /\ \A i \in Speech(e)' : Speaker'[e] = leases'[e][i].by
  BY SpeakerIsNext
<1>3. CASE Speech(e)' = {}
  BY <1>1, <1>2, <1>3
<1>4. CASE Speech(e)' # {}
  BY <1>1, <1>2, <1>4
<1> QED
  BY <1>3, <1>4

LEMMA SpeakerPointwise ==
  ASSUME \A e \in Event : Speaker'[e] = Speaker[e] PROVE Speaker' = Speaker
<1>1. Speaker = [e \in Event |-> Speaker[e]] /\ Speaker' = [e \in Event |-> Speaker'[e]]
  BY DEF Speaker
<1> QED
  BY <1>1

(* The steps that write no lease. *)
LEMMA OtherStepsKeepLeases ==
  ASSUME NEW d \in Drive, DriveStep(d), ~AcquireGranted(d), ~CompleteLease(d)
  PROVE  leases' = leases
BY DEF DriveStep, Gated, Reserve, AppraiseIgnore, AppraiseReact, AppraiseReply, ReadBreaker,
   PersistBreaker, Fairness, GateError, Draw, DrawRefused, AcquireDeclined, AcquireThrows,
   RefundDraw, ReleaseSilently, ReleaseThrows, CheckFence, NothingToSend, Send, SendReturns,
   SendRejects, CompleteThrows, store

LEMMA SpeakerStep ==
  ASSUME ArbiterInv, ArbiterInv', [Next]_vars PROVE [Record!Next]_Speaker
<1>1. CASE leases' = leases
  <2>1. \A e \in Event : Speaker'[e] = Speaker[e]
    BY <1>1, SpeakerStays DEF Speech
  <2> QED
    BY <2>1, SpeakerPointwise
<1>2. ASSUME NEW d \in Drive, AcquireGranted(d) PROVE Speaker' = Speaker
  <2> DEFINE e == EventOf[d]
  <2>1. e \in Event /\ Len(leases[e]) \in Nat
    BY ArbiterAssumption DEF ArbiterInv, Types
  <2>2. /\ \A i \in DOMAIN leases'[e] : leases'[e][i].status # "delivered"
        /\ \A x \in Event \ {e} : leases'[x] = leases[x]
    BY <1>2, <2>1, GrantedTable
  <2>3. Speech(e) = {} /\ Speech(e)' = {}
    BY <1>2, <2>2 DEF AcquireGranted, Speech
  <2>4. ASSUME NEW x \in Event PROVE Speaker'[x] = Speaker[x]
    <3>1. CASE x = e
      BY <2>3, <3>1, SpeakerStays
    <3>2. CASE x # e
      BY <2>2, <3>2, SpeakerStays DEF Speech
    <3> QED
      BY <3>1, <3>2
  <2> QED
    BY <2>4, SpeakerPointwise
<1>3. ASSUME SweepLeases PROVE Speaker' = Speaker
  <2>1. \A x \in Event : Speech(x)' = Speech(x) /\ 
          \A i \in Speech(x) : leases'[x][i].by = leases[x][i].by
    BY <1>3, SweptTables DEF LeasesKept, Speech
  <2>2. \A x \in Event : Speaker'[x] = Speaker[x]
    BY <2>1, SpeakerStays
  <2> QED
    BY <2>2, SpeakerPointwise
<1>4. ASSUME NEW d \in Drive, CompleteLease(d) PROVE [Record!Next]_Speaker
  <2> DEFINE e == EventOf[d]
             c == CompanionOf[d]
             tok == mem[d].token
  <2>1. e \in Event /\ c \in Companion
    BY ArbiterAssumption
  <2>2. /\ LeasesKept /\ tok \in DOMAIN leases[e] /\ leases[e][tok].by = c
        /\ DOMAIN leases'[e] = DOMAIN leases[e]
        /\ leases'[e][tok].status = mem[d].fate /\ leases[e][tok].status = "held"
        /\ \A i \in DOMAIN leases[e] \ {tok} :
             /\ leases'[e][i] = leases[e][i]
             /\ leases[e][i].status \notin {"held", "delivered"}
        /\ \A x \in Event \ {e} : leases'[x] = leases[x]
    BY <1>4, <2>1, CompletedTable
  <2>3. \A x \in Event \ {e} : Speaker'[x] = Speaker[x]
    BY <2>2, SpeakerStays DEF Speech
  <2>4. Speech(e) = {} /\ Speaker[e] = "nobody"
    <3>1. Speech(e) = {}
      BY <2>2 DEF Speech
    <3> QED
      BY <2>1, <3>1, SpeakerIs DEF ArbiterInv
  <2>5. CASE mem[d].fate # "delivered"
    <3>1. Speech(e)' = {}
      BY <2>2, <2>5 DEF Speech
    <3>2. Speaker'[e] = Speaker[e]
      BY <2>1, <2>4, <3>1, SpeakerStays
    <3> QED
      BY <2>3, <3>2, SpeakerPointwise
  <2>6. CASE mem[d].fate = "delivered"
    <3>1. tok \in Speech(e)' /\ leases'[e][tok].by = c
      BY <2>1, <2>2, <2>6 DEF Speech, LeasesKept
    <3>2. \A i \in Speech(e)' : Speaker'[e] = leases'[e][i].by
      BY <2>1, SpeakerIsNext
    <3>3. Speaker'[e] = c
      BY <3>1, <3>2
    <3>4. Speaker = [x \in Event |-> Speaker[x]] /\ Speaker' = [x \in Event |-> Speaker'[x]]
      BY DEF Speaker
    <3>5. Speaker' = [Speaker EXCEPT ![e] = c]
      BY <2>1, <2>3, <3>3, <3>4
    <3>6. Record!Speak(e, c)
      BY <2>4, <3>5 DEF Record!Speak
    <3> QED
      BY <2>1, <3>6 DEF Record!Next
  <2> QED
    BY <2>5, <2>6
<1>5. SweepReservations \/ (\E c \in Companion : Crash(c)) \/ Tick \/ UNCHANGED vars
        => leases' = leases
  BY DEF SweepReservations, Crash, Tick, store, vars
<1>6. ASSUME NEW d \in Drive, DriveStep(d) PROVE [Record!Next]_Speaker
  BY <1>1, <1>2, <1>4, <1>6, OtherStepsKeepLeases
<1> QED
  BY <1>1, <1>3, <1>5, <1>6 DEF Next

(* The lease table implements the record of one speaker per event: completeEgressLease
   writes it when it is empty, and nothing ever overwrites it. *)
THEOREM OneSpeakerOnRecord == Spec => KeepsSpeechRecord
<1>1. ArbiterInv /\ ArbiterInv' /\ [Next]_vars => [Record!Next]_Speaker
  BY SpeakerStep
<1> QED
  BY <1>1, SpeakerInit, ArbiterInvariant, PTL DEF Spec, KeepsSpeechRecord, Record!Spec
=============================================================================
