-------------------------- MODULE FleetBatonProofs --------------------------
(* The baton of heavy maintenance for any fleet, any manifests, any number of  *)
(* drains of a process, any lease time and any age of the clock readings: the  *)
(* drains that work under leases nobody gave back are of one process, a        *)
(* waiting companion is passed once by each other one, and a request to yield  *)
(* that is not wiped is seen at the next checkpoint.                           *)
EXTENDS FleetBaton, FiniteSetTheorems, TLAPS

Row == [by : Instance \cup {Nobody}, until : Nat, preempt : BOOLEAN, token : Nat,
        manifest : Manifest \cup {Nobody}, last : Nat]
Mark == [token : Nat, until : Nat, preempt : BOOLEAN]
Run == [pc : Phase, lease : [token : Nat, until : Nat],
        failure : {"none", "fence", "error"}, told : {"continue", "yield"},
        outcome : {"complete", "yield", "cleanup"}]

Types ==
  /\ now \in Nat
  /\ baton \in Row
  /\ demand \in [Companion -> [manifest : Manifest \cup {Nobody}, until : Nat]]
  /\ coord \in [Instance -> Mark]
  /\ drain \in [Drain -> Run]
  /\ passed \in [Companion -> [Companion -> Nat]]
  /\ due \subseteq Drain
  /\ asked \in BOOLEAN
  /\ deaf \in BOOLEAN

(* Phases in which a drain works under a lease, and those in which it gives it back. *)
Working == {"granted", "running", "renewed", "committed", "told"}
Leaving == {"release", "released"}

(* Who counts on a lease that was not given back has the row, for at least as long. *)
LeaseIsRow ==
  \A d \in Drain :
    drain[d].pc \in Working /\ drain[d].lease.until > now /\ drain[d].lease.token \notin freed =>
      Owned(d, now) /\ drain[d].lease.until <= baton.until

(* A token is given to drains of one process, and a mark belongs to a token. *)
TokensAreOwn ==
  /\ baton.by # Nobody => baton.token # 0
  /\ \A d \in Drain :
       /\ drain[d].lease.token <= baton.token
       /\ drain[d].pc \in Working \cup Leaving => drain[d].lease.token # 0
       /\ drain[d].lease.token = baton.token /\ drain[d].lease.token # 0 =>
            baton.by \in {Home(d), Nobody}
  /\ \A i \in Instance : coord[i].token = 0 => coord[i] = NoMark

(* A request to yield that was noted is in the row, or in the memory of the holder
   unless that was wiped because its deadline had passed. *)
RequestIsKept ==
  \A i \in Instance : asked /\ baton.by = i /\ coord[i].token # 0 =>
    baton.preempt \/ (coord[i].preempt /\ coord[i].token = baton.token)

(* ... and an answer that is on its way back tells of it, or the memory does. *)
AnswerTells ==
  \A d \in due :
    /\ drain[d].pc = "committed"
    /\ coord[Home(d)].token # 0 =>
         \/ drain[d].told = "yield"
         \/ coord[Home(d)].preempt /\ coord[Home(d)].token = drain[d].lease.token

(* The holder and the demands belong to the manifest of the row. *)
OneManifest ==
  /\ baton.by # Nobody => baton.manifest = ManifestOf[baton.by]
  /\ \A c \in Companion : demand[c].until > 0 =>
       demand[c].manifest = baton.manifest /\ baton.manifest \in Manifest
  /\ baton.last <= Cardinality(Companion)

Waiting(c) == LiveDemand(c, baton.manifest, now) /\ \E h \in Companion : passed[c][h] > 0

(* Whoever passed a waiting companion comes after it, and the holder before it. *)
TurnsKept ==
  /\ \A c, h \in Companion : LiveDemand(c, baton.manifest, now) /\ passed[c][h] > 0 =>
       passed[c][h] = 1 /\ Before(baton.manifest, baton.last, c, h)
  /\ baton.by # Nobody => \A c \in Companion \ {CompanionOf[baton.by]} :
       Waiting(c) => Before(baton.manifest, baton.last, CompanionOf[baton.by], c)

BatonInv ==
  /\ Types /\ LeaseIsRow /\ TokensAreOwn /\ RequestIsKept /\ AnswerTells /\ OneManifest
  /\ TurnsKept /\ ~deaf

-----------------------------------------------------------------------------
(* The cyclic order of the manifest. *)

LEMMA Sizes ==
  /\ Cardinality(Companion) \in Nat
  /\ \A m \in Manifest, c \in Companion :
       Ordinal[m][c] \in Nat /\ Ordinal[m][c] < Cardinality(Companion)
  /\ \A m \in Manifest, a, b \in Companion : Ordinal[m][a] = Ordinal[m][b] => a = b
  /\ \A i \in Instance : CompanionOf[i] \in Companion /\ ManifestOf[i] \in Manifest
  /\ \A d \in Drain : Home(d) \in Instance /\ Mine(d) \in Companion /\ Plan(d) \in Manifest
BY BatonAssumption, OrdinalAssumption, FS_CardinalityType DEF Manifest, Mine, Home, Plan

(* Two companions do not precede each other. *)
LEMMA BeforeIsOrder ==
  ASSUME NEW m \in Manifest, NEW last \in Nat, last <= Cardinality(Companion),
         NEW a \in Companion, NEW b \in Companion, Before(m, last, a, b)
  PROVE  a # b /\ ~Before(m, last, b, a)
BY Sizes DEF Before

(* The one served last comes after everybody else. *)
LEMMA ServedIsLast ==
  ASSUME NEW m \in Manifest, NEW a \in Companion, NEW x \in Companion, a # x
  PROVE  Before(m, Ordinal[m][x] + 1, a, x)
<1> DEFINE n == Cardinality(Companion)
           oa == Ordinal[m][a]
           ox == Ordinal[m][x]
<1>1. n \in Nat /\ oa \in Nat /\ ox \in Nat /\ oa < n /\ ox < n /\ oa # ox
  BY Sizes
<1> HIDE DEF n, oa, ox
<1>2. (IF oa + 1 > ox + 1 THEN oa + 1 - (ox + 1) ELSE oa + 1 + n - (ox + 1))
      < (IF ox + 1 > ox + 1 THEN ox + 1 - (ox + 1) ELSE ox + 1 + n - (ox + 1))
  BY <1>1
<1> QED
  BY <1>2 DEF Before, n, oa, ox

(* Serving somebody keeps the order of those who come after. *)
LEMMA ServingKeepsOrder ==
  ASSUME NEW m \in Manifest, NEW last \in Nat, last <= Cardinality(Companion),
         NEW x \in Companion, NEW a \in Companion, NEW b \in Companion,
         Before(m, last, x, a), Before(m, last, a, b)
  PROVE  Before(m, Ordinal[m][x] + 1, a, b)
<1> DEFINE n == Cardinality(Companion)
           oa == Ordinal[m][a]
           ob == Ordinal[m][b]
           ox == Ordinal[m][x]
           T(o, l) == IF o + 1 > l THEN o + 1 - l ELSE o + 1 + n - l
<1>1. n \in Nat /\ oa \in Nat /\ ob \in Nat /\ ox \in Nat /\ oa < n /\ ob < n /\ ox < n
  BY Sizes
<1>2. T(ox, last) < T(oa, last) /\ T(oa, last) < T(ob, last)
  BY DEF Before
<1> HIDE DEF n, oa, ob, ox
<1>3. T(oa, ox + 1) < T(ob, ox + 1)
  BY <1>1, <1>2
<1> QED
  BY <1>3 DEF Before, n, oa, ob, ox

-----------------------------------------------------------------------------
LEMMA BatonInit == Init => BatonInv
<1> SUFFICES ASSUME Init PROVE BatonInv
  OBVIOUS
<1>1. Types
  BY BatonAssumption
  DEF Init, Types, Row, Mark, Run, NoMark, NoDemand, NoLease, Begin, Phase, Manifest
<1>2. LeaseIsRow /\ TokensAreOwn /\ RequestIsKept /\ AnswerTells
  BY DEF Init, LeaseIsRow, TokensAreOwn, RequestIsKept, AnswerTells, Begin, NoLease, NoMark,
     Working, Leaving
<1>3. OneManifest /\ TurnsKept /\ ~deaf
  BY Sizes DEF Init, OneManifest, TurnsKept, LiveDemand, NoDemand
<1> QED
  BY <1>1, <1>2, <1>3 DEF BatonInv

(* One drain moves. *)
LEMMA DrainOne ==
  ASSUME Types, NEW d \in Drain, NEW r \in Run, To(d, r)
  PROVE  /\ drain' \in [Drain -> Run] /\ drain'[d] = r
         /\ \A e \in Drain \ {d} : drain'[e] = drain[e]
BY DEF Types, To

(* The memory of one instance changes. *)
LEMMA CoordOne ==
  ASSUME Types, NEW i \in Instance, NEW k \in Mark, coord' = [coord EXCEPT ![i] = k]
  PROVE  /\ coord' \in [Instance -> Mark] /\ coord'[i] = k
         /\ \A j \in Instance \ {i} : coord'[j] = coord[j]
BY DEF Types

(* The order of service is a matter of the row and the demands. *)
LEMMA TurnsStay ==
  ASSUME Types, OneManifest, TurnsKept, UNCHANGED <<demand, passed>>,
         now' \in Nat, now <= now', baton'.by = baton.by, baton'.manifest = baton.manifest,
         baton'.last = baton.last
  PROVE  OneManifest' /\ TurnsKept'
<1>1. OneManifest'
  BY DEF OneManifest
<1>2. \A c \in Companion : demand[c].until \in Nat /\ now \in Nat
  BY DEF Types
<1>3. \A c \in Companion : LiveDemand(c, baton.manifest, now)' => LiveDemand(c, baton.manifest, now)
  BY <1>2 DEF LiveDemand
<1>4. \A c \in Companion : Waiting(c)' => Waiting(c)
  BY <1>3 DEF Waiting
<1>5. TurnsKept'
  BY <1>3, <1>4 DEF TurnsKept
<1> QED
  BY <1>1, <1>5

(* What a drain keeps of its lease when it takes up none. *)
Onward(d) ==
  /\ drain'[d].lease.token \in {0, drain[d].lease.token}
  /\ drain'[d].pc \in Working \cup Leaving => drain'[d].lease.token # 0
  /\ drain'[d].pc \in Working => drain[d].pc \in Working /\ drain'[d].lease = drain[d].lease

(* Steps that leave the store alone, for drains and memories. *)
LEMMA MoveKeeps ==
  ASSUME BatonInv, drain' \in [Drain -> Run], coord' \in [Instance -> Mark], due' \subseteq Drain,
         asked' \in BOOLEAN, deaf' = FALSE, UNCHANGED <<now, baton, demand, passed, freed>>,
         \A d \in Drain : Onward(d),
         \A i \in Instance : coord'[i].token = 0 => coord'[i] = NoMark,
         RequestIsKept', AnswerTells'
  PROVE  BatonInv'
<1>1. Types' /\ ~deaf'
  BY DEF BatonInv, Types
<1>2. LeaseIsRow'
  BY DEF BatonInv, LeaseIsRow, Owned, Onward, Home
<1>3. TokensAreOwn'
  BY DEF BatonInv, TokensAreOwn, Types, Row, Onward, Home
<1>4. OneManifest' /\ TurnsKept'
  BY TurnsStay DEF BatonInv, Types
<1> QED
  BY <1>1, <1>2, <1>3, <1>4 DEF BatonInv

(* A drain moves on its own and takes up no lease; a checkpoint of its may be lost. *)
LEMMA LocalMove ==
  ASSUME BatonInv, NEW d \in Drain, NEW r \in Run, To(d, r),
         UNCHANGED <<now, baton, demand, coord, passed, freed, asked, deaf>>,
         due' = due \ {d} \/ (due' = due /\ drain[d].pc # "committed"),
         r.lease.token \in {0, drain[d].lease.token},
         r.pc \in Working \cup Leaving => r.lease.token # 0,
         r.pc \in Working => drain[d].pc \in Working /\ r.lease = drain[d].lease
  PROVE  BatonInv'
<1>1. /\ drain' \in [Drain -> Run] /\ drain'[d] = r
      /\ \A e \in Drain \ {d} : drain'[e] = drain[e]
  BY DrainOne DEF BatonInv
<1>2. \A e \in Drain : Onward(e)
  BY <1>1 DEF Onward, BatonInv, TokensAreOwn
<1>3. due' \subseteq due /\ d \notin due'
  BY DEF BatonInv, AnswerTells
<1>4. AnswerTells'
  BY <1>1, <1>3 DEF BatonInv, AnswerTells, Types
<1>5. RequestIsKept'
  BY DEF BatonInv, RequestIsKept
<1>6. /\ coord' \in [Instance -> Mark] /\ asked' \in BOOLEAN /\ deaf' = FALSE /\ due' \subseteq Drain
      /\ \A i \in Instance : coord'[i].token = 0 => coord'[i] = NoMark
  BY <1>3 DEF BatonInv, Types, TokensAreOwn
<1> QED
  BY <1>1, <1>2, <1>4, <1>5, <1>6, MoveKeeps

(* What a drain is, before it moves. *)
LEMMA DrainFacts ==
  ASSUME BatonInv, NEW d \in Drain
  PROVE  /\ drain[d] \in Run /\ Home(d) \in Instance /\ coord[Home(d)] \in Mark
         /\ drain[d].lease \in [token : Nat, until : Nat]
         /\ drain[d].pc \in Working \cup Leaving => drain[d].lease.token # 0
         /\ coord[Home(d)].token = 0 => coord[Home(d)] = NoMark
BY Sizes DEF BatonInv, Types, TokensAreOwn, Run

LEMMA BeginIsRun == Begin \in Run /\ Begin.pc = "idle" /\ Begin.lease = NoLease /\ NoMark \in Mark
BY DEF Begin, Run, NoLease, Phase, NoMark, Mark

(* A drain that holds nothing ends. *)
LEMMA EndsKeeps ==
  ASSUME BatonInv, NEW d \in Drain,
         CallFails(d) \/ \E t \in Readings : ManifestThrows(d, t)
  PROVE  BatonInv'
<1>1. /\ To(d, Begin) /\ drain[d].pc \in {"idle", "acquire", "granted"}
      /\ UNCHANGED <<now, baton, demand, coord, passed, freed, asked, due, deaf>>
  BY DEF CallFails, ManifestThrows, Ended, store, ghost
<1>2. Begin \in Run /\ Begin.pc = "idle" /\ Begin.lease.token = 0
  BY BeginIsRun DEF NoLease
<1> QED
  BY <1>1, <1>2, LocalMove DEF Working, Leaving

(* Authority fails, a checkpoint is refused, or the work ends. *)
LEMMA RunKeeps ==
  ASSUME BatonInv, NEW d \in Drain,
         \/ CheckpointRefused(d) \/ MutationFails(d)
         \/ \E outcome \in {"complete", "yield", "cleanup"} : RunEnds(d, outcome)
  PROVE  BatonInv'
<1>0. /\ drain[d] \in Run /\ drain[d].lease \in [token : Nat, until : Nat]
      /\ drain[d].pc \in Working => drain[d].lease.token # 0
  BY DrainFacts
<1>1. CASE CheckpointRefused(d)
  <2> DEFINE p == IF drain[d].failure = "fence" THEN "told" ELSE "release"
             r == [drain[d] EXCEPT !.pc = p]
  <2>1. To(d, r) /\ drain[d].pc = "running"
        /\ UNCHANGED <<now, baton, demand, coord, passed, freed, asked, due, deaf>>
    BY <1>1 DEF CheckpointRefused, Goto, At, store, ghost
  <2>2. r \in Run /\ r.pc = p /\ r.lease = drain[d].lease
    BY <1>0 DEF Run, Phase
  <2> HIDE DEF r
  <2> QED
    BY <1>0, <2>1, <2>2, LocalMove DEF Working, Leaving
<1>2. CASE MutationFails(d)
  <2> DEFINE p == IF drain[d].pc = "committed" THEN "release" ELSE "running"
             r == [drain[d] EXCEPT !.pc = p, !.failure = "error"]
  <2>1. To(d, r) /\ drain[d].pc \in {"running", "renewed", "committed"} /\ due' = due \ {d}
        /\ UNCHANGED <<now, baton, demand, coord, passed, freed, asked, deaf>>
    BY <1>2 DEF MutationFails, Fails, At, store
  <2>2. r \in Run /\ r.pc = p /\ r.lease = drain[d].lease
    BY <1>0 DEF Run, Phase
  <2> HIDE DEF r
  <2> QED
    BY <1>0, <2>1, <2>2, LocalMove DEF Working, Leaving
<1>3. ASSUME NEW outcome \in {"complete", "yield", "cleanup"}, RunEnds(d, outcome) PROVE BatonInv'
  <2> DEFINE over == IF drain[d].failure = "none"
                        \/ (drain[d].failure = "fence" /\ outcome = "yield")
                     THEN outcome ELSE "cleanup"
             r == [drain[d] EXCEPT !.pc = "release", !.lease.until = 0,
                     !.failure = "none", !.outcome = over]
  <2>1. To(d, r) /\ drain[d].pc \in {"running", "told"}
        /\ UNCHANGED <<now, baton, demand, coord, passed, freed, asked, due, deaf>>
    BY <1>3 DEF RunEnds, At, store, ghost
  <2>2. over \in {"complete", "yield", "cleanup"}
    OBVIOUS
  <2> HIDE DEF over
  <2>3. r \in Run /\ r.pc = "release" /\ r.lease.token = drain[d].lease.token
    BY <1>0, <2>2 DEF Run, Phase
  <2> HIDE DEF r
  <2> QED
    BY <1>0, <2>1, <2>3, LocalMove DEF Working, Leaving
<1> QED
  BY <1>1, <1>2, <1>3

-----------------------------------------------------------------------------
(* Steps of a coordinator. *)

(* The memory of an instance is wiped or begun anew, and with it the requests that
   are not in the row. *)
LEMMA WipeKeeps ==
  ASSUME BatonInv, NEW d \in Drain, NEW r \in Run, To(d, r), MarkForgotten(d),
         NEW k \in Mark, coord' = [coord EXCEPT ![Home(d)] = k], k.token = 0 => k = NoMark,
         UNCHANGED <<now, baton, demand, passed, freed, deaf>>,
         r.lease.token \in {0, drain[d].lease.token},
         r.pc \in Working \cup Leaving => r.lease.token # 0,
         r.pc \in Working => drain[d].pc \in Working /\ r.lease = drain[d].lease
  PROVE  BatonInv'
<1>1. /\ drain' \in [Drain -> Run] /\ drain'[d] = r
      /\ \A e \in Drain \ {d} : drain'[e] = drain[e]
  BY DrainOne DEF BatonInv
<1>2. /\ coord' \in [Instance -> Mark] /\ coord'[Home(d)] = k
      /\ \A j \in Instance \ {Home(d)} : coord'[j] = coord[j]
  BY CoordOne, DrainFacts DEF BatonInv
<1>3. \A e \in Drain : Onward(e)
  BY <1>1 DEF Onward, BatonInv, TokensAreOwn
<1>4. /\ asked' \in BOOLEAN /\ deaf' = FALSE /\ due' \subseteq Drain
      /\ asked' => asked /\ (baton.preempt \/ baton.by # Home(d))
      /\ \A e \in due' : e \in due /\ e \in Drain /\ Home(e) # Home(d)
  BY DEF BatonInv, Types, MarkForgotten, Siblings
<1>5. RequestIsKept'
  BY <1>2, <1>4 DEF BatonInv, RequestIsKept
<1>6. AnswerTells'
  <2> SUFFICES ASSUME NEW e \in due'
               PROVE  /\ drain'[e].pc = "committed"
                      /\ coord'[Home(e)].token # 0 =>
                           \/ drain'[e].told = "yield"
                           \/ coord'[Home(e)].preempt /\ coord'[Home(e)].token = drain'[e].lease.token
    BY DEF AnswerTells, Home
  <2>1. e # d /\ e \in due /\ Home(e) \in Instance \ {Home(d)}
    BY <1>4, Sizes
  <2> QED
    BY <1>1, <1>2, <1>4, <2>1 DEF BatonInv, AnswerTells
<1>7. \A i \in Instance : coord'[i].token = 0 => coord'[i] = NoMark
  BY <1>2 DEF BatonInv, TokensAreOwn
<1> QED
  BY <1>1, <1>2, <1>3, <1>4, <1>5, <1>6, <1>7, MoveKeeps

LEMMA AcquireReturnsKeeps ==
  ASSUME BatonInv, NEW d \in Drain, AcquireReturns(d) PROVE BatonInv'
<1> DEFINE lease == drain[d].lease
           k == [token |-> lease.token, until |-> lease.until, preempt |-> FALSE]
           r == [drain[d] EXCEPT !.pc = "running"]
<1>1. /\ To(d, r) /\ drain[d].pc = "granted" /\ coord' = [coord EXCEPT ![Home(d)] = k]
      /\ MarkForgotten(d) /\ UNCHANGED <<now, baton, demand, passed, freed, deaf>>
  BY DEF AcquireReturns, At, Goto, store
<1>2. drain[d] \in Run /\ lease \in [token : Nat, until : Nat] /\ lease.token # 0
  BY <1>1, DrainFacts DEF Working
<1>3. r \in Run /\ r.pc = "running" /\ r.lease = lease
  BY <1>2 DEF Run, Phase
<1>4. k \in Mark /\ k.token = lease.token
  BY <1>2 DEF Mark
<1> HIDE DEF r, k
<1> QED
  BY <1>1, <1>2, <1>3, <1>4, WipeKeeps DEF Working

(* The deadline of the memory follows the lease. *)
LEMMA NotedMark ==
  ASSUME BatonInv, NEW d \in Drain, drain[d].pc \in Working
  PROVE  \E k \in Mark : /\ Noted(Home(d), drain[d].lease) = [coord EXCEPT ![Home(d)] = k]
                         /\ k.token = coord[Home(d)].token /\ k.preempt = coord[Home(d)].preempt
                         /\ k.token = 0 => k = NoMark
<1> DEFINE i == Home(d)
           lease == drain[d].lease
<1>1. /\ coord[i] \in Mark /\ lease \in [token : Nat, until : Nat] /\ lease.token # 0
      /\ i \in Instance /\ coord \in [Instance -> Mark]
      /\ coord[i].token = 0 => coord[i] = NoMark
  BY DrainFacts DEF BatonInv, Types
<1> HIDE DEF i
<1>2. CASE coord[i].token = lease.token
  <2> DEFINE k == [coord[i] EXCEPT !.until = lease.until]
  <2>1. k \in Mark /\ k.token = coord[i].token /\ k.preempt = coord[i].preempt
    BY <1>1 DEF Mark
  <2>2. Noted(i, lease) = [coord EXCEPT ![i] = k]
    BY <1>2 DEF Noted
  <2> QED
    BY <1>1, <1>2, <2>1, <2>2 DEF i
<1>3. CASE coord[i].token # lease.token
  <2>1. Noted(i, lease) = [coord EXCEPT ![i] = coord[i]]
    BY <1>1, <1>3 DEF Noted
  <2> QED
    BY <1>1, <2>1 DEF i
<1> QED
  BY <1>2, <1>3

(* An answer is back and its deadline noted. *)
LEMMA NotedKeeps ==
  ASSUME BatonInv, NEW d \in Drain, NEW r \in Run, To(d, r), drain[d].pc \in Working,
         coord' = Noted(Home(d), drain[d].lease), due' = due \ {d}, deaf' = FALSE,
         UNCHANGED <<now, baton, demand, passed, freed, asked>>,
         r.pc \in Working, r.lease = drain[d].lease
  PROVE  BatonInv'
<1>1. /\ drain' \in [Drain -> Run] /\ drain'[d] = r
      /\ \A e \in Drain \ {d} : drain'[e] = drain[e]
  BY DrainOne DEF BatonInv
<1>2. PICK k \in Mark : /\ coord' = [coord EXCEPT ![Home(d)] = k]
                        /\ k.token = coord[Home(d)].token /\ k.preempt = coord[Home(d)].preempt
                        /\ k.token = 0 => k = NoMark
  BY NotedMark
<1>3. /\ coord' \in [Instance -> Mark]
      /\ \A i \in Instance : /\ coord'[i].token = coord[i].token
                             /\ coord'[i].preempt = coord[i].preempt
                             /\ coord'[i].token = 0 => coord'[i] = NoMark
  BY <1>2, CoordOne, DrainFacts DEF BatonInv, TokensAreOwn
<1>4. \A e \in Drain : Onward(e)
  BY <1>1, DrainFacts DEF Onward, BatonInv, TokensAreOwn
<1>5. RequestIsKept'
  BY <1>3 DEF BatonInv, RequestIsKept
<1>6. AnswerTells'
  <2>1. \A e \in due' : e \in Drain \ {d} /\ e \in due /\ Home(e) \in Instance /\ Home(e)' = Home(e)
    BY Sizes DEF BatonInv, Types, Home
  <2> QED
    BY <1>1, <1>3, <2>1 DEF BatonInv, AnswerTells
<1>7. asked' \in BOOLEAN /\ due' \subseteq Drain
  BY DEF BatonInv, Types
<1> QED
  BY <1>1, <1>3, <1>4, <1>5, <1>6, <1>7, MoveKeeps

LEMMA RenewReturnsKeeps ==
  ASSUME BatonInv, NEW d \in Drain, RenewReturns(d) PROVE BatonInv'
<1> DEFINE r == [drain[d] EXCEPT !.pc = "running"]
<1>1. /\ To(d, r) /\ drain[d].pc = "renewed" /\ coord' = Noted(Home(d), drain[d].lease)
      /\ UNCHANGED <<now, baton, demand, passed, freed, asked, due, deaf>>
  BY DEF RenewReturns, At, Goto, store, ghost
<1>2. r \in Run /\ r.pc = "running" /\ r.lease = drain[d].lease
  BY DrainFacts DEF Run, Phase
<1>3. due' = due \ {d} /\ deaf' = FALSE
  BY <1>1 DEF BatonInv, AnswerTells, Types
<1> HIDE DEF r
<1> QED
  BY <1>1, <1>2, <1>3, NotedKeeps DEF Working

(* The answer of a checkpoint: a request is not missed. *)
LEMMA CommitReturnsKeeps ==
  ASSUME BatonInv, NEW d \in Drain, CommitReturns(d) PROVE BatonInv'
<1> DEFINE i == Home(d)
           p == CommitAnswer(d)
           r == [drain[d] EXCEPT !.pc = p, !.told = "continue"]
<1>1. /\ To(d, r) /\ drain[d].pc = "committed" /\ coord' = Noted(Home(d), drain[d].lease)
      /\ UNCHANGED <<now, baton, demand, passed, freed, asked>> /\ due' = due \ {d}
      /\ deaf' = (deaf \/ (d \in due /\ p = "running" /\ now < coord[i].until))
  BY DEF CommitReturns, At, store
<1>2. /\ drain[d] \in Run /\ drain[d].lease.token # 0 /\ coord[i] \in Mark /\ now \in Nat
      /\ coord[i].token = 0 => coord[i] = NoMark
  BY <1>1, DrainFacts DEF Working, BatonInv, Types
<1>3. p \in {"told", "running"}
  BY DEF CommitAnswer
<1>4. deaf' = FALSE
  <2>1. CASE coord[i].token = 0
    <3>1. ~(now < coord[i].until)
      BY <1>2, <2>1 DEF NoMark
    <3> QED
      BY <1>1, <3>1 DEF BatonInv
  <2>2. CASE coord[i].token # 0
    <3>1. d \in due => drain[d].told = "yield"
                        \/ (coord[i].preempt /\ coord[i].token = drain[d].lease.token)
      BY <1>1, <2>2 DEF BatonInv, AnswerTells
    <3>2. d \in due => p = "told"
      BY <1>2, <2>2, <3>1 DEF CommitAnswer
    <3> QED
      BY <1>1, <3>2 DEF BatonInv
  <2> QED
    BY <2>1, <2>2
<1> HIDE DEF p
<1>5. r \in Run /\ r.pc = p /\ r.lease = drain[d].lease
  BY <1>2, <1>3 DEF Run, Phase
<1> HIDE DEF r
<1> QED
  BY <1>1, <1>3, <1>4, <1>5, NotedKeeps DEF Working

LEMMA ReleaseEndsKeeps ==
  ASSUME BatonInv, NEW d \in Drain,
         ReleaseReturns(d) \/ \E t \in Readings : ReleaseFails(d, t)
  PROVE  BatonInv'
<1>0. /\ drain[d] \in Run /\ Dropped(d) /\ drain[d].pc \in Leaving
      /\ UNCHANGED <<now, baton, demand, passed, freed, deaf>>
  BY DrainFacts DEF ReleaseReturns, ReleaseFails, At, Leaving, store
<1>1. PICK r \in Run : /\ To(d, r) /\ r.lease.token \in {0, drain[d].lease.token}
                       /\ r.pc \notin Working
                       /\ r.pc \in Leaving => r.lease.token # 0
  <2>1. CASE To(d, Begin)
    <3>1. Begin \in Run /\ Begin.pc = "idle" /\ Begin.lease.token = 0
      BY BeginIsRun DEF NoLease
    <3> QED
      BY <2>1, <3>1 DEF Leaving, Working
  <2>2. CASE drain[d].pc = "release" /\ To(d, [drain[d] EXCEPT !.outcome = "cleanup"])
    <3> DEFINE r == [drain[d] EXCEPT !.outcome = "cleanup"]
    <3>1. r \in Run /\ r.pc = "release" /\ r.lease = drain[d].lease /\ r.lease.token # 0
      BY <1>0, <2>2, DrainFacts DEF Run, Leaving
    <3> HIDE DEF r
    <3> QED
      BY <2>2, <3>1 DEF r, Working
  <2> QED
    BY <2>1, <2>2 DEF ReleaseReturns, ReleaseFails, Ended, At
<1>2. CASE coord[Home(d)].token = drain[d].lease.token
  <2>1. coord' = [coord EXCEPT ![Home(d)] = NoMark] /\ MarkForgotten(d) /\ NoMark \in Mark
    BY <1>0, <1>2, BeginIsRun DEF Dropped
  <2> QED
    BY <1>0, <1>1, <2>1, WipeKeeps
<1>3. CASE coord[Home(d)].token # drain[d].lease.token
  <2>1. UNCHANGED <<coord, asked, due>>
    BY <1>0, <1>3 DEF Dropped
  <2> QED
    BY <1>0, <1>1, <2>1, LocalMove DEF Leaving
<1> QED
  BY <1>2, <1>3

LEMMA CrashKeeps == ASSUME BatonInv, NEW i \in Instance, Crash(i) PROVE BatonInv'
<1> DEFINE r == [Begin EXCEPT !.pc = "dead"]
<1>1. /\ drain' = [d \in Drain |-> IF Home(d) = i THEN r ELSE drain[d]]
      /\ coord' = [coord EXCEPT ![i] = NoMark] /\ due' = {d \in due : Home(d) # i}
      /\ UNCHANGED <<now, baton, demand, passed, freed, asked, deaf>>
  BY DEF Crash, store
<1>2. r \in Run /\ r.pc = "dead" /\ r.lease.token = 0
  BY DEF Begin, Run, NoLease, Phase
<1> HIDE DEF r
<1>3. /\ coord' \in [Instance -> Mark] /\ coord'[i] = NoMark
      /\ \A j \in Instance \ {i} : coord'[j] = coord[j]
  BY <1>1, CoordOne, BeginIsRun DEF BatonInv
<1>4. drain' \in [Drain -> Run] /\ \A d \in Drain : drain'[d] = IF Home(d) = i THEN r ELSE drain[d]
  BY <1>1, <1>2 DEF BatonInv, Types
<1>5. \A d \in Drain : Onward(d)
  BY <1>2, <1>4 DEF Onward, Working, Leaving, BatonInv, TokensAreOwn
<1>6. RequestIsKept'
  BY <1>1, <1>3 DEF BatonInv, RequestIsKept, NoMark
<1>7. AnswerTells'
  <2>1. \A e \in due' : e \in Drain /\ e \in due /\ Home(e) \in Instance \ {i} /\ Home(e)' = Home(e)
    BY <1>1, Sizes DEF BatonInv, Types, Home
  <2> QED
    BY <1>3, <1>4, <2>1 DEF BatonInv, AnswerTells
<1>8. /\ asked' \in BOOLEAN /\ deaf' = FALSE /\ due' \subseteq Drain
      /\ \A j \in Instance : coord'[j].token = 0 => coord'[j] = NoMark
  BY <1>1, <1>3 DEF BatonInv, Types, TokensAreOwn
<1> QED
  BY <1>1, <1>3, <1>4, <1>5, <1>6, <1>7, <1>8, MoveKeeps

LEMMA PreemptFailsKeeps == ASSUME BatonInv, NEW i \in Instance, PreemptFails(i) PROVE BatonInv'
<1>1. /\ drain' = drain /\ coord' = [coord EXCEPT ![i] = NoMark]
      /\ UNCHANGED <<now, baton, demand, passed, freed, asked, due, deaf>>
  BY DEF PreemptFails, store, ghost
<1>2. /\ coord' \in [Instance -> Mark] /\ coord'[i] = NoMark
      /\ \A j \in Instance \ {i} : coord'[j] = coord[j]
  BY <1>1, CoordOne, BeginIsRun DEF BatonInv
<1>3. \A d \in Drain : Onward(d)
  BY <1>1 DEF Onward, BatonInv, TokensAreOwn
<1>4. RequestIsKept' /\ AnswerTells'
  <2>1. \A e \in due : e \in Drain /\ Home(e) \in Instance /\ Home(e)' = Home(e)
    BY Sizes DEF BatonInv, Types, Home
  <2> QED
    BY <1>1, <1>2, <2>1 DEF BatonInv, RequestIsKept, AnswerTells, NoMark
<1>5. /\ drain' \in [Drain -> Run] /\ asked' \in BOOLEAN /\ deaf' = FALSE /\ due' \subseteq Drain
      /\ \A j \in Instance : coord'[j].token = 0 => coord'[j] = NoMark
  BY <1>1, <1>2 DEF BatonInv, Types, TokensAreOwn
<1> QED
  BY <1>1, <1>2, <1>3, <1>4, <1>5, MoveKeeps

LEMMA PreemptLocallyKeeps == ASSUME BatonInv, NEW i \in Instance, PreemptLocally(i) PROVE BatonInv'
<1> DEFINE k == [coord[i] EXCEPT !.preempt = TRUE]
<1>1. /\ drain' = drain /\ coord[i].token # 0 /\ coord' = [coord EXCEPT ![i] = k]
      /\ asked' = (asked \/ (baton.by = i /\ coord[i].token = baton.token))
      /\ UNCHANGED <<now, baton, demand, passed, freed, due, deaf>>
  BY DEF PreemptLocally, store
<1>2. k \in Mark /\ k.token = coord[i].token /\ k.preempt
  BY DEF Mark, BatonInv, Types
<1> HIDE DEF k
<1>3. /\ coord' \in [Instance -> Mark] /\ coord'[i] = k
      /\ \A j \in Instance \ {i} : coord'[j] = coord[j]
  BY <1>1, <1>2, CoordOne DEF BatonInv
<1>4. \A d \in Drain : Onward(d)
  BY <1>1 DEF Onward, BatonInv, TokensAreOwn
<1>5. RequestIsKept'
  BY <1>1, <1>2, <1>3 DEF BatonInv, RequestIsKept
<1>6. AnswerTells'
  <2>1. \A e \in due : e \in Drain /\ Home(e) \in Instance /\ Home(e)' = Home(e)
    BY Sizes DEF BatonInv, Types, Home
  <2> QED
    BY <1>1, <1>2, <1>3, <2>1 DEF BatonInv, AnswerTells
<1>7. /\ drain' \in [Drain -> Run] /\ asked' \in BOOLEAN /\ deaf' = FALSE /\ due' \subseteq Drain
      /\ \A j \in Instance : coord'[j].token = 0 => coord'[j] = NoMark
  BY <1>1, <1>2, <1>3 DEF BatonInv, Types, TokensAreOwn
<1> QED
  BY <1>1, <1>3, <1>4, <1>5, <1>6, <1>7, MoveKeeps

-----------------------------------------------------------------------------
LEMMA TickKeeps == ASSUME BatonInv, Tick PROVE BatonInv'
<1>1. /\ now' = now + 1
      /\ UNCHANGED <<baton, demand, coord, drain, passed, freed, asked, due, deaf>>
  BY DEF Tick, store, ghost
<1>2. Types' /\ ~deaf' /\ now <= now'
  BY <1>1 DEF BatonInv, Types
<1>3. LeaseIsRow'
  <2>1. now \in Nat /\ \A d \in Drain : drain[d].lease.until \in Nat
    BY DEF BatonInv, Types, Run
  <2>2. baton.until \in Nat
    BY DEF BatonInv, Types, Row
  <2> QED
    BY <1>1, <2>1, <2>2 DEF BatonInv, LeaseIsRow, Owned, Home
<1>4. TokensAreOwn' /\ RequestIsKept' /\ AnswerTells'
  BY <1>1 DEF BatonInv, TokensAreOwn, RequestIsKept, AnswerTells, Home
<1>5. OneManifest' /\ TurnsKept'
  BY <1>1, <1>2, TurnsStay DEF BatonInv, Types
<1> QED
  BY <1>2, <1>3, <1>4, <1>5 DEF BatonInv

-----------------------------------------------------------------------------
(* Steps that write the row. *)

LEMMA ReadingsAreOld == ASSUME BatonInv, NEW t \in Readings PROVE t \in Nat /\ t <= now /\ now \in Nat
BY DEF Readings, BatonInv, Types

LEMMA PreemptSharedKeeps ==
  ASSUME BatonInv, NEW i \in Instance, NEW t \in Readings, PreemptShared(i, t) PROVE BatonInv'
<1> DEFINE hit == baton.by # Nobody /\ baton.until > t
<1>1. /\ coord' = [coord EXCEPT ![i] = NoMark] /\ drain' = drain
      /\ baton' = IF hit THEN [baton EXCEPT !.preempt = TRUE] ELSE baton
      /\ asked' = (asked \/ hit)
      /\ UNCHANGED <<now, demand, passed, freed, due, deaf>>
  BY DEF PreemptShared
<1>2. /\ baton' \in Row /\ baton'.by = baton.by /\ baton'.until = baton.until
      /\ baton'.token = baton.token /\ baton'.manifest = baton.manifest /\ baton'.last = baton.last
      /\ hit => baton'.preempt
      /\ baton.preempt => baton'.preempt
  BY <1>1 DEF BatonInv, Types, Row
<1>3. /\ coord' \in [Instance -> Mark] /\ coord'[i] = NoMark
      /\ \A x \in Instance \ {i} : coord'[x] = coord[x]
  BY <1>1, BeginIsRun DEF BatonInv, Types
<1>4. Types' /\ ~deaf'
  <2>1. asked' \in BOOLEAN /\ deaf' = deaf /\ ~deaf /\ deaf \in BOOLEAN
    BY <1>1 DEF BatonInv, Types
  <2> QED
    BY <1>1, <1>2, <1>3, <2>1 DEF BatonInv, Types
<1>5. LeaseIsRow'
  BY <1>1, <1>2 DEF BatonInv, LeaseIsRow, Owned, Home
<1>6. TokensAreOwn'
  BY <1>1, <1>2, <1>3 DEF BatonInv, TokensAreOwn, NoMark, Home
<1>7. RequestIsKept'
  <2>1. CASE hit
    BY <1>2, <2>1 DEF RequestIsKept
  <2>2. CASE ~hit
    <3>1. asked' => asked
      BY <1>1, <2>2
    <3> QED
      BY <1>1, <1>2, <1>3, <3>1 DEF BatonInv, RequestIsKept, NoMark
  <2> QED
    BY <2>1, <2>2
<1>8. AnswerTells'
  <2>1. \A e \in due : e \in Drain /\ Home(e) \in Instance /\ Home(e)' = Home(e)
    BY Sizes DEF BatonInv, Types, Home
  <2> QED
    BY <1>1, <1>3, <2>1 DEF BatonInv, AnswerTells, NoMark
<1>9. OneManifest' /\ TurnsKept'
  BY <1>1, <1>2, TurnsStay DEF BatonInv, Types
<1> QED
  BY <1>4, <1>5, <1>6, <1>7, <1>8, <1>9 DEF BatonInv

(* The holder extends its lease. *)
LEMMA Extended ==
  ASSUME BatonInv, NEW d \in Drain, NEW u \in Nat, baton.until <= u,
         baton.by = Home(d), baton.token = drain[d].lease.token,
         baton' = [baton EXCEPT !.until = u],
         NEW r \in Run, To(d, r), r.pc \in {"renewed", "committed"}, drain[d].pc = "running",
         r.lease.token = drain[d].lease.token, r.lease.until = u,
         UNCHANGED <<now, demand, coord, passed, freed, asked, deaf>>,
         \/ due' = due
         \/ /\ due' = due \cup {d} /\ r.pc = "committed"
            /\ coord[Home(d)].token # 0 =>
                 \/ r.told = "yield"
                 \/ coord[Home(d)].preempt /\ coord[Home(d)].token = r.lease.token
  PROVE  BatonInv'
<1>1. /\ drain' \in [Drain -> Run] /\ drain'[d] = r
      /\ \A e \in Drain \ {d} : drain'[e] = drain[e]
  BY DrainOne DEF BatonInv
<1>2. /\ baton' \in Row /\ baton'.by = baton.by /\ baton'.until = u /\ baton'.preempt = baton.preempt
      /\ baton'.token = baton.token /\ baton'.manifest = baton.manifest /\ baton'.last = baton.last
  BY DEF BatonInv, Types, Row
<1>3. Types' /\ ~deaf'
  BY <1>1, <1>2 DEF BatonInv, Types
<1>4. LeaseIsRow'
  <2>1. /\ baton.until \in Nat /\ now \in Nat /\ freed' = freed /\ now' = now
        /\ \A e \in Drain : drain[e].lease.until \in Nat /\ Home(e)' = Home(e)
    BY DEF BatonInv, Types, Row, Run, Home
  <2>2. \A e \in Drain \ {d} :
          drain[e].pc \in Working /\ drain[e].lease.until > now /\ drain[e].lease.token \notin freed =>
            Owned(e, now)' /\ drain[e].lease.until <= u
    BY <1>1, <1>2, <2>1 DEF BatonInv, LeaseIsRow, Owned
  <2>3. u > now => Owned(d, now)'
    BY <1>1, <1>2, <2>1 DEF Owned
  <2> QED
    BY <1>1, <1>2, <2>1, <2>2, <2>3 DEF LeaseIsRow
<1>5. TokensAreOwn'
  BY <1>1, <1>2 DEF BatonInv, TokensAreOwn, Working, Leaving, Home
<1>6. RequestIsKept'
  BY <1>1, <1>2 DEF BatonInv, RequestIsKept
<1>7. AnswerTells'
  <2>1. d \notin due /\ \A e \in due : e \in Drain
    BY DEF BatonInv, AnswerTells, Types
  <2> QED
    BY <1>1, <2>1 DEF BatonInv, AnswerTells, Home
<1>8. OneManifest' /\ TurnsKept'
  BY <1>2, TurnsStay DEF BatonInv, Types
<1> QED
  BY <1>3, <1>4, <1>5, <1>6, <1>7, <1>8 DEF BatonInv

LEMMA FailsKeeps ==
  ASSUME BatonInv, NEW d \in Drain, NEW p \in {"running", "told", "release"},
         NEW error \in {"fence", "error"}, Fails(d, p, error), drain[d].pc = "running",
         UNCHANGED <<now, baton, demand, coord, passed, freed, asked, due, deaf>>
  PROVE  BatonInv'
<1> DEFINE r == [drain[d] EXCEPT !.pc = p, !.failure = error]
<1>1. drain[d] \in Run /\ drain[d].lease.token # 0 /\ To(d, r)
  BY DrainFacts DEF Working, Fails
<1>2. r \in Run /\ r.pc = p /\ r.lease = drain[d].lease
  BY <1>1 DEF Run, Phase
<1> HIDE DEF r
<1> QED
  BY <1>1, <1>2, LocalMove DEF Leaving, Working

LEMMA RenewKeeps ==
  ASSUME BatonInv, NEW d \in Drain, NEW t \in Readings, Renew(d, t) PROVE BatonInv'
<1>0. /\ t + LeaseTime \in Nat /\ drain[d] \in Run /\ drain[d].pc = "running"
      /\ baton.until \in Nat /\ drain[d].lease \in [token : Nat, until : Nat]
  BY ReadingsAreOld, DrainFacts, BatonAssumption DEF Renew, At, BatonInv, Types, Row
<1>1. UNCHANGED <<now, demand, coord, passed, freed, asked, due, deaf>>
  BY DEF Renew, ghost
<1>2. CASE Owned(d, t) /\ t + LeaseTime > baton.until
  <2> DEFINE u == t + LeaseTime
             r == [drain[d] EXCEPT !.pc = "renewed", !.lease.until = u]
  <2>1. To(d, r) /\ baton' = [baton EXCEPT !.until = u]
    BY <1>2 DEF Renew
  <2>2. baton.by = Home(d) /\ baton.token = drain[d].lease.token /\ baton.until <= u /\ u \in Nat
    BY <1>0, <1>2 DEF Owned
  <2> HIDE DEF u
  <2>3. r \in Run /\ r.pc = "renewed" /\ r.lease.until = u /\ r.lease.token = drain[d].lease.token
    BY <1>0, <2>2 DEF Run, Phase
  <2> HIDE DEF r
  <2> QED
    BY <1>0, <1>1, <2>1, <2>2, <2>3, Extended
<1>3. CASE ~(Owned(d, t) /\ t + LeaseTime > baton.until)
  <2>1. Fails(d, "running", IF Owned(d, t) THEN "error" ELSE "fence") /\ baton' = baton
    BY <1>3 DEF Renew
  <2> QED
    BY <1>0, <1>1, <2>1, FailsKeeps
<1> QED
  BY <1>2, <1>3

LEMMA CommitKeeps ==
  ASSUME BatonInv, NEW d \in Drain, NEW t \in Readings, Commit(d, t) PROVE BatonInv'
<1>0. /\ t + LeaseTime \in Nat /\ drain[d] \in Run /\ drain[d].pc = "running" /\ now \in Nat
      /\ baton.until \in Nat /\ drain[d].lease \in [token : Nat, until : Nat]
  BY ReadingsAreOld, DrainFacts, BatonAssumption DEF Commit, At, BatonInv, Types, Row
<1>1. UNCHANGED <<now, demand, coord, passed, freed, asked, deaf>>
  BY DEF Commit
<1>2. CASE Owned(d, t) /\ t + LeaseTime >= baton.until
  <2> DEFINE u == t + LeaseTime
             told == IF baton.preempt THEN "yield" ELSE "continue"
             r == [drain[d] EXCEPT !.pc = "committed", !.lease.until = u, !.told = told]
  <2>1. /\ To(d, r) /\ baton' = [baton EXCEPT !.until = u]
        /\ due' = IF asked /\ now < baton.until THEN due \cup {d} ELSE due
    BY <1>2 DEF Commit
  <2>2. baton.by = Home(d) /\ baton.token = drain[d].lease.token /\ baton.until <= u /\ u \in Nat
    BY <1>0, <1>2 DEF Owned
  <2>3. told \in {"yield", "continue"}
    OBVIOUS
  <2>4. asked /\ coord[Home(d)].token # 0 =>
          told = "yield" \/ (coord[Home(d)].preempt /\ coord[Home(d)].token = baton.token)
    BY <2>2, Sizes DEF BatonInv, RequestIsKept
  <2> HIDE DEF u, told
  <2>5. r \in Run /\ r.pc = "committed" /\ r.lease.until = u /\ r.lease.token = drain[d].lease.token
        /\ r.told = told
    BY <1>0, <2>2, <2>3 DEF Run, Phase
  <2> HIDE DEF r
  <2>6. \/ due' = due
        \/ /\ due' = due \cup {d} /\ r.pc = "committed"
           /\ coord[Home(d)].token # 0 =>
                \/ r.told = "yield"
                \/ coord[Home(d)].preempt /\ coord[Home(d)].token = r.lease.token
    BY <2>1, <2>2, <2>4, <2>5
  <2> QED
    BY <1>0, <1>1, <2>1, <2>2, <2>5, <2>6, Extended
<1>3. CASE ~(Owned(d, t) /\ t + LeaseTime >= baton.until)
  <2>1. /\ IF Owned(d, t) THEN Fails(d, "release", "error") ELSE Fails(d, "told", "fence")
        /\ baton' = baton /\ due' = due
    BY <1>3 DEF Commit
  <2> QED
    BY <1>0, <1>1, <2>1, FailsKeeps
<1> QED
  BY <1>2, <1>3

(* A row without a live holder is freed; the drain that does it holds nothing. *)
LEMMA RowFreed ==
  ASSUME BatonInv, NEW d \in Drain, NEW r \in Run, To(d, r), r.pc \in {"idle", "acquire"},
         r.lease.token \in {0, drain[d].lease.token}, drain[d].pc \in {"idle", "acquire"},
         baton' \in Row, baton'.token = baton.token,
         baton' = baton \/ (baton'.by = Nobody /\ (baton.by = Nobody \/ baton.until <= now)),
         demand' \in [Companion -> [manifest : Manifest \cup {Nobody}, until : Nat]],
         passed' \in [Companion -> [Companion -> Nat]],
         UNCHANGED <<now, coord, freed, asked, due, deaf>>
  PROVE  /\ Types' /\ LeaseIsRow' /\ TokensAreOwn' /\ RequestIsKept' /\ AnswerTells' /\ ~deaf'
<1>1. /\ drain' \in [Drain -> Run] /\ drain'[d] = r
      /\ \A e \in Drain \ {d} : drain'[e] = drain[e]
  BY DrainOne DEF BatonInv
<1>2. Types' /\ ~deaf'
  BY <1>1 DEF BatonInv, Types
<1>3. LeaseIsRow'
  <2>1. CASE baton' = baton
    BY <1>1, <2>1 DEF BatonInv, LeaseIsRow, Owned, Working, Home
  <2>2. CASE baton'.by = Nobody /\ (baton.by = Nobody \/ baton.until <= now)
    <3>1. baton.until \in Nat /\ now \in Nat /\ \A e \in Drain : drain[e].lease.until \in Nat
      BY DEF BatonInv, Types, Row, Run
    <3>2. \A e \in Drain : drain[e].pc \in Working /\ drain[e].lease.token \notin freed =>
                             ~(drain[e].lease.until > now)
      BY <2>2, <3>1, Sizes, BatonAssumption DEF BatonInv, LeaseIsRow, Owned
    <3> QED
      BY <1>1, <3>2 DEF LeaseIsRow, Working
  <2> QED
    BY <2>1, <2>2
<1>4. TokensAreOwn'
  <2>1. r.pc \notin Working \cup Leaving /\ baton.token \in Nat /\ baton'.by \in {baton.by, Nobody}
    BY DEF Working, Leaving, BatonInv, Types, Row
  <2>2. r.lease.token <= baton.token
    BY <2>1 DEF BatonInv, TokensAreOwn
  <2> QED
    BY <1>1, <2>1, <2>2 DEF BatonInv, TokensAreOwn, Home
<1>5. RequestIsKept'
  BY <1>1, BatonAssumption DEF BatonInv, RequestIsKept
<1>6. AnswerTells'
  <2>1. d \notin due /\ \A e \in due : e \in Drain
    BY DEF BatonInv, AnswerTells, Types
  <2> QED
    BY <1>1, <2>1 DEF BatonInv, AnswerTells, Home
<1> QED
  BY <1>2, <1>3, <1>4, <1>5, <1>6

(* The row as a transaction finds it: reconciled, and without a lapsed holder. *)
LEMMA CurrentRow ==
  ASSUME BatonInv, NEW d \in Drain, NEW t \in Readings, NEW m, m = Plan(d),
         Reconcilable(m, t), NEW row, row \in {Current(m, t), Reconciled(m)}
  PROVE  /\ row \in Row /\ row.token = baton.token /\ row.manifest = m
         /\ row.last <= Cardinality(Companion)
         /\ baton.manifest = m => row.last = baton.last
         /\ row = baton \/ (row.by = Nobody /\ (baton.by = Nobody \/ baton.until <= now))
<1>0. /\ m \in Manifest /\ t \in Nat /\ t <= now /\ now \in Nat /\ baton \in Row
      /\ Cardinality(Companion) \in Nat /\ baton.last <= Cardinality(Companion)
      /\ baton.until \in Nat
  BY Sizes, ReadingsAreOld DEF BatonInv, Types, OneManifest, Row
<1>1. /\ Reconciled(m) \in Row /\ Reconciled(m).token = baton.token /\ Reconciled(m).manifest = m
      /\ Reconciled(m).last <= Cardinality(Companion)
      /\ baton.manifest = m => Reconciled(m) = baton
      /\ \/ Reconciled(m) = baton
         \/ Reconciled(m).by = Nobody /\ (baton.by = Nobody \/ baton.until <= now)
  <2>1. CASE baton.manifest = m
    BY <1>0, <2>1 DEF Reconciled
  <2>2. CASE baton.manifest # m
    <3>1. baton.by = Nobody \/ baton.until <= now
      BY <1>0, <2>2 DEF Reconcilable
    <3> DEFINE free == [by |-> Nobody, until |-> 0, preempt |-> FALSE, token |-> baton.token,
                        manifest |-> m, last |-> 0]
    <3>2. free \in Row /\ free.token = baton.token /\ free.manifest = m /\ free.last = 0
          /\ free.by = Nobody
      BY <1>0 DEF Row
    <3>3. Reconciled(m) = free
      BY <2>2 DEF Reconciled
    <3> HIDE DEF free
    <3> QED
      BY <1>0, <2>2, <3>1, <3>2, <3>3
  <2> QED
    BY <2>1, <2>2
<1>2. CASE row = Reconciled(m)
  BY <1>1, <1>2
<1>3. CASE row = Current(m, t) /\ row # Reconciled(m)
  <2> DEFINE old == Reconciled(m)
             free == [old EXCEPT !.by = Nobody, !.until = 0, !.preempt = FALSE]
  <2>1. row = free /\ old.by # Nobody /\ old.until <= t
    BY <1>3 DEF Current
  <2>2. free \in Row /\ free.token = old.token /\ free.manifest = old.manifest /\ free.last = old.last
        /\ free.by = Nobody
    BY <1>1 DEF Row
  <2>3. old = baton
    BY <1>1, <2>1
  <2> HIDE DEF free
  <2> QED
    BY <1>0, <1>1, <2>1, <2>2, <2>3
<1> QED
  BY <1>2, <1>3

(* The demands of another manifest are dropped. *)
LEMMA DemandsOf ==
  ASSUME BatonInv, NEW m \in Manifest
  PROVE  /\ Demands(m) \in [Companion -> [manifest : Manifest \cup {Nobody}, until : Nat]]
         /\ baton.manifest = m => Demands(m) = demand
         /\ baton.manifest # m => \A c \in Companion : Demands(m)[c].until = 0
         /\ \A c \in Companion : Demands(m)[c].until > 0 => Demands(m)[c].manifest = m
         /\ \A c \in Companion : demand[c].until \in Nat
BY DEF BatonInv, Types, Demands, NoDemand, OneManifest

LEMMA AnnounceKeeps ==
  ASSUME BatonInv, NEW d \in Drain, NEW t \in Readings, Announce(d, t) PROVE BatonInv'
<1> DEFINE c == Mine(d)
           m == Plan(d)
           r == [drain[d] EXCEPT !.pc = "acquire"]
           new == [manifest |-> m, until |-> t + LeaseTime]
           none == [h \in Companion |-> 0]
           live == LiveDemand(c, m, now)
<1>0. /\ c \in Companion /\ m \in Manifest /\ t \in Nat /\ now \in Nat /\ LeaseTime \in Nat
      /\ Types /\ drain[d] \in Run /\ BatonInv
  BY Sizes, ReadingsAreOld, DrainFacts, BatonAssumption DEF BatonInv
<1>1. /\ drain[d].pc = "idle" /\ Reconcilable(m, t) /\ baton' = Reconciled(m) /\ To(d, r)
      /\ demand' = [Demands(m) EXCEPT ![c] = new]
      /\ passed' = IF live THEN passed ELSE [passed EXCEPT ![c] = none]
      /\ UNCHANGED <<now, coord, freed, asked, due, deaf>>
  BY DEF Announce, At, Goto
<1>2. /\ baton' \in Row /\ baton'.token = baton.token /\ baton'.manifest = m
      /\ baton'.last <= Cardinality(Companion)
      /\ baton' = baton \/ (baton'.by = Nobody /\ (baton.by = Nobody \/ baton.until <= now))
  BY <1>0, <1>1, CurrentRow
<1>3. /\ Demands(m) \in [Companion -> [manifest : Manifest \cup {Nobody}, until : Nat]]
      /\ baton.manifest = m => Demands(m) = demand
      /\ baton.manifest # m => \A x \in Companion : Demands(m)[x].until = 0
      /\ \A x \in Companion : Demands(m)[x].until > 0 => Demands(m)[x].manifest = m
  BY <1>0, DemandsOf
<1>4. new \in [manifest : Manifest \cup {Nobody}, until : Nat] /\ new.manifest = m
  BY <1>0
<1> HIDE DEF new
<1>5. /\ demand' \in [Companion -> [manifest : Manifest \cup {Nobody}, until : Nat]]
      /\ demand'[c] = new /\ \A x \in Companion \ {c} : demand'[x] = Demands(m)[x]
  BY <1>0, <1>1, <1>3, <1>4
<1>6. /\ passed' \in [Companion -> [Companion -> Nat]]
      /\ ~live => \A h \in Companion : passed'[c][h] = 0
      /\ live => passed' = passed
      /\ \A x \in Companion \ {c} : passed'[x] = passed[x]
  <2>1. none \in [Companion -> Nat] /\ \A h \in Companion : none[h] = 0
    OBVIOUS
  <2> HIDE DEF none, live
  <2> QED
    BY <1>0, <1>1, <2>1 DEF Types
<1>7. r \in Run /\ r.pc = "acquire" /\ r.lease = drain[d].lease
  BY <1>0 DEF Run, Phase
<1> HIDE DEF r
<1>8. /\ Types' /\ LeaseIsRow' /\ TokensAreOwn' /\ RequestIsKept' /\ AnswerTells' /\ ~deaf'
  BY <1>1, <1>2, <1>5, <1>6, <1>7, RowFreed
<1>9. OneManifest'
  <2>1. baton'.by # Nobody => baton'.manifest = ManifestOf[baton'.by]
    BY <1>2 DEF BatonInv, OneManifest
  <2> QED
    BY <1>0, <1>2, <1>3, <1>4, <1>5, <2>1 DEF OneManifest
<1>10. TurnsKept'
  <2>1. CASE baton.manifest = m
    <3>1. baton' = baton /\ \A x \in Companion \ {c} : demand'[x] = demand[x]
      BY <1>1, <1>3, <1>5, <2>1 DEF Reconciled
    <3>2. \A x \in Companion, h \in Companion :
            LiveDemand(x, baton.manifest, now)' /\ passed'[x][h] > 0 =>
              LiveDemand(x, baton.manifest, now) /\ passed'[x][h] = passed[x][h]
      BY <1>0, <1>1, <1>6, <2>1, <3>1 DEF LiveDemand
    <3>3. \A x \in Companion : Waiting(x)' => Waiting(x)
      BY <3>2 DEF Waiting
    <3> QED
      BY <3>1, <3>2, <3>3 DEF BatonInv, TurnsKept
  <2>2. CASE baton.manifest # m
    <3>1. baton'.by = Nobody
      BY <1>2, <2>2
    <3>2. ~live
      BY <1>0, <2>2 DEF LiveDemand, BatonInv, OneManifest, Types
    <3>3. \A x \in Companion \ {c} : ~LiveDemand(x, baton.manifest, now)'
      BY <1>0, <1>1, <1>3, <1>5, <2>2 DEF LiveDemand
    <3> QED
      BY <1>6, <3>1, <3>2, <3>3 DEF TurnsKept
  <2> QED
    BY <2>1, <2>2
<1> QED
  BY <1>8, <1>9, <1>10 DEF BatonInv

LEMMA WaitsKeeps ==
  ASSUME BatonInv, NEW d \in Drain, NEW t \in Readings, Waits(d, t) PROVE BatonInv'
<1> DEFINE m == Plan(d)
<1>0. m \in Manifest /\ now \in Nat /\ Types /\ Cardinality(Companion) \in Nat
  BY Sizes DEF BatonInv, Types
<1>1. /\ drain[d].pc = "acquire" /\ Reconcilable(m, t) /\ baton' = Current(m, t) /\ To(d, Begin)
      /\ demand' = Demands(m)
      /\ UNCHANGED <<now, coord, passed, freed, asked, due, deaf>>
  BY DEF Waits, At, Ended, ghost
<1>2. /\ baton' \in Row /\ baton'.token = baton.token /\ baton'.manifest = m
      /\ baton'.last <= Cardinality(Companion)
      /\ baton.manifest = m => baton'.last = baton.last
      /\ baton' = baton \/ (baton'.by = Nobody /\ (baton.by = Nobody \/ baton.until <= now))
  BY <1>1, CurrentRow
<1>3. /\ demand' \in [Companion -> [manifest : Manifest \cup {Nobody}, until : Nat]]
      /\ baton.manifest = m => demand' = demand
      /\ baton.manifest # m => \A x \in Companion : demand'[x].until = 0
      /\ \A x \in Companion : demand'[x].until > 0 => demand'[x].manifest = m
  BY <1>0, <1>1, DemandsOf
<1>4. Begin \in Run /\ Begin.pc = "idle" /\ Begin.lease.token = 0
  BY BeginIsRun DEF NoLease
<1>5. passed' \in [Companion -> [Companion -> Nat]]
  BY <1>0, <1>1 DEF Types
<1>6. /\ Types' /\ LeaseIsRow' /\ TokensAreOwn' /\ RequestIsKept' /\ AnswerTells' /\ ~deaf'
  BY <1>1, <1>2, <1>3, <1>4, <1>5, RowFreed
<1>7. OneManifest'
  <2>1. baton'.by # Nobody => baton'.manifest = ManifestOf[baton'.by]
    BY <1>2 DEF BatonInv, OneManifest
  <2> QED
    BY <1>0, <1>2, <1>3, <2>1 DEF OneManifest
<1>8. TurnsKept'
  <2>1. CASE baton.manifest = m
    <3>1. \A x \in Companion : /\ LiveDemand(x, baton.manifest, now)' <=> LiveDemand(x, baton.manifest, now)
                               /\ Waiting(x)' <=> Waiting(x)
      BY <1>1, <1>2, <1>3, <2>1 DEF LiveDemand, Waiting
    <3>2. baton'.by # Nobody => baton'.by = baton.by
      BY <1>2
    <3> QED
      BY <1>1, <1>2, <2>1, <3>1, <3>2 DEF BatonInv, TurnsKept
  <2>2. CASE baton.manifest # m
    <3>1. \A x \in Companion : ~LiveDemand(x, baton.manifest, now)'
      BY <1>0, <1>1, <1>3, <2>2 DEF LiveDemand
    <3> QED
      BY <3>1 DEF TurnsKept, Waiting
  <2> QED
    BY <2>1, <2>2
<1> QED
  BY <1>6, <1>7, <1>8 DEF BatonInv

LEMMA GrantKeeps ==
  ASSUME BatonInv, NEW d \in Drain, NEW t \in Readings, Grant(d, t) PROVE BatonInv'
<1> DEFINE c == Mine(d)
           m == Plan(d)
           row == Current(m, t)
           Live == {x \in Companion : Demands(m)[x].manifest = m /\ Demands(m)[x].until > t}
           tok == row.token + 1
           end == t + LeaseTime
           new == [row EXCEPT !.by = Home(d), !.token = tok, !.until = end, !.preempt = FALSE]
           lease == [token |-> new.token, until |-> new.until]
           r == [drain[d] EXCEPT !.pc = "granted", !.lease = lease]
<1>0. /\ c \in Companion /\ m \in Manifest /\ t \in Nat /\ t <= now /\ now \in Nat
      /\ LeaseTime \in Nat /\ Types /\ drain[d] \in Run /\ baton.token \in Nat
      /\ Home(d) \in Instance
  BY Sizes, ReadingsAreOld, DrainFacts, BatonAssumption DEF BatonInv, Types, Row
<1>1. /\ drain[d].pc = "acquire" /\ Reconcilable(m, t) /\ row.by = Nobody /\ c \in Live
      /\ \A x \in Live \ {c} : Before(m, row.last, c, x)
      /\ baton' = new /\ demand' = Demands(m) /\ To(d, r) /\ asked' = FALSE
      /\ UNCHANGED <<now, coord, passed, freed, due, deaf>>
  BY DEF Grant, At
<1>2. /\ row \in Row /\ row.token = baton.token /\ row.manifest = m
      /\ row.last <= Cardinality(Companion)
      /\ baton.manifest = m => row.last = baton.last
      /\ row = baton \/ (row.by = Nobody /\ (baton.by = Nobody \/ baton.until <= now))
  BY <1>1, CurrentRow
<1> HIDE DEF row
<1>3. /\ new \in Row /\ new.by = Home(d) /\ new.token = baton.token + 1 /\ new.until = t + LeaseTime
      /\ new.preempt = FALSE /\ new.manifest = m /\ new.last = row.last
  <2>1. tok \in Nat /\ end \in Nat /\ tok = baton.token + 1
    BY <1>0, <1>2
  <2> HIDE DEF tok, end
  <2>2. new \in Row /\ new.by = Home(d) /\ new.token = tok /\ new.until = end
        /\ new.preempt = FALSE /\ new.manifest = row.manifest /\ new.last = row.last
    BY <1>0, <1>2, <2>1 DEF Row
  <2> QED
    BY <1>2, <2>1, <2>2 DEF end
<1> HIDE DEF new
<1>4. lease \in [token : Nat, until : Nat] /\ lease.token = baton.token + 1 /\ lease.until = new.until
  BY <1>0, <1>3
<1> HIDE DEF lease
<1>5. r \in Run /\ r.pc = "granted" /\ r.lease = lease
  BY <1>0, <1>4 DEF Run, Phase
<1> HIDE DEF r
<1>6. /\ drain' \in [Drain -> Run] /\ drain'[d] = r
      /\ \A e \in Drain \ {d} : drain'[e] = drain[e]
  BY <1>0, <1>1, <1>5, DrainOne
<1>7. baton.manifest = m /\ demand' = demand /\ row.last = baton.last
  <2>1. Demands(m)[c].until > t
    BY <1>1
  <2>2. baton.manifest # m => Demands(m)[c].until = 0
    BY <1>0, DemandsOf
  <2>3. baton.manifest = m
    BY <1>0, <2>1, <2>2
  <2> QED
    BY <1>0, <1>1, <1>2, <2>3, DemandsOf
<1>8. Types' /\ ~deaf'
  BY <1>0, <1>1, <1>3, <1>6, <1>7 DEF BatonInv, Types
<1>9. LeaseIsRow'
  <2>1. \A e \in Drain : baton.until \in Nat /\ drain[e].lease.until \in Nat
    BY DEF BatonInv, Types, Row, Run
  <2>2. \A e \in Drain : drain[e].pc \in Working /\ drain[e].lease.token \notin freed =>
                           ~(drain[e].lease.until > now)
    BY <1>0, <1>1, <1>2, <2>1, Sizes, BatonAssumption DEF BatonInv, LeaseIsRow, Owned
  <2>3. r.lease.until = new.until /\ r.lease.token = new.token /\ new.until \in Nat
    BY <1>0, <1>3, <1>4, <1>5
  <2> QED
    BY <1>1, <1>3, <1>6, <2>2, <2>3 DEF LeaseIsRow, Owned, Home
<1>10. TokensAreOwn'
  <2>1. \A e \in Drain : drain[e].lease.token \in Nat /\ drain[e].lease.token <= baton.token
    BY DEF BatonInv, TokensAreOwn, Types, Run
  <2>2. \A e \in Drain \ {d} : drain[e].lease.token <= baton.token + 1
                                /\ drain[e].lease.token # baton.token + 1
    BY <1>0, <2>1
  <2>3. baton.token + 1 # 0 /\ baton.token + 1 <= baton.token + 1
    BY <1>0
  <2> QED
    BY <1>1, <1>3, <1>4, <1>5, <1>6, <2>2, <2>3 DEF BatonInv, TokensAreOwn, Home
<1>11. RequestIsKept' /\ AnswerTells'
  <2>1. d \notin due /\ \A e \in due : e \in Drain
    BY <1>1 DEF BatonInv, AnswerTells, Types
  <2> QED
    BY <1>1, <1>5, <1>6, <2>1 DEF BatonInv, RequestIsKept, AnswerTells, Home
<1>12. OneManifest'
  BY <1>0, <1>1, <1>2, <1>3, <1>7 DEF BatonInv, OneManifest, Plan
<1>13. TurnsKept'
  <2>1. \A x \in Companion : demand[x].until \in Nat
    BY <1>0, DemandsOf
  <2>2. \A x \in Companion : LiveDemand(x, m, now) => x \in Live
    BY <1>0, <1>1, <1>7, <2>1 DEF LiveDemand
  <2>3. \A x \in Companion : /\ LiveDemand(x, baton.manifest, now)' <=> LiveDemand(x, m, now)
                             /\ Waiting(x)' => LiveDemand(x, m, now)
    BY <1>1, <1>3, <1>7 DEF LiveDemand, Waiting
  <2>4. \A x \in Companion \ {c} : Waiting(x)' => Before(m, baton.last, c, x)
    BY <1>1, <1>7, <2>2, <2>3
  <2> QED
    BY <1>1, <1>3, <1>7, <2>3, <2>4 DEF BatonInv, TurnsKept, Mine
<1> QED
  BY <1>8, <1>9, <1>10, <1>11, <1>12, <1>13 DEF BatonInv

LEMMA ReplayKeeps ==
  ASSUME BatonInv, NEW d \in Drain, NEW t \in Readings, Replay(d, t) PROVE BatonInv'
<1> DEFINE m == Plan(d)
           row == Current(m, t)
           lease == [token |-> row.token, until |-> row.until]
           r == [drain[d] EXCEPT !.pc = "granted", !.lease = lease]
<1>1. /\ drain[d].pc = "acquire" /\ Reconcilable(m, t) /\ row.by = Home(d) /\ To(d, r)
      /\ UNCHANGED <<now, baton, demand, coord, passed, freed, asked, due, deaf>>
  BY DEF Replay, At, store, ghost
<1>2. row = baton
  BY <1>1, CurrentRow, Sizes, BatonAssumption
<1> HIDE DEF row
<1>3. /\ baton \in Row /\ baton.by = Home(d) /\ drain[d] \in Run /\ baton.token # 0 /\ baton.token \in Nat
      /\ baton.until \in Nat
  BY <1>1, <1>2, DrainFacts, Sizes, BatonAssumption DEF BatonInv, Types, TokensAreOwn, Row
<1>4. lease \in [token : Nat, until : Nat] /\ lease.token = baton.token /\ lease.until = baton.until
  BY <1>2, <1>3
<1> HIDE DEF lease
<1>5. r \in Run /\ r.pc = "granted" /\ r.lease = lease
  BY <1>3, <1>4 DEF Run, Phase
<1> HIDE DEF r
<1>6. /\ drain' \in [Drain -> Run] /\ drain'[d] = r
      /\ \A e \in Drain \ {d} : drain'[e] = drain[e]
  BY <1>1, <1>5, DrainOne DEF BatonInv
<1>7. Types' /\ ~deaf'
  BY <1>1, <1>6 DEF BatonInv, Types
<1>8. LeaseIsRow'
  BY <1>1, <1>3, <1>4, <1>5, <1>6 DEF BatonInv, LeaseIsRow, Owned, Home
<1>9. TokensAreOwn'
  BY <1>1, <1>3, <1>4, <1>5, <1>6 DEF BatonInv, TokensAreOwn, Home
<1>10. RequestIsKept' /\ AnswerTells'
  <2>1. d \notin due /\ \A e \in due : e \in Drain
    BY <1>1 DEF BatonInv, AnswerTells, Types
  <2> QED
    BY <1>1, <1>5, <1>6, <2>1 DEF BatonInv, RequestIsKept, AnswerTells, Home
<1>11. OneManifest' /\ TurnsKept'
  BY <1>1, TurnsStay DEF BatonInv, Types
<1> QED
  BY <1>7, <1>8, <1>9, <1>10, <1>11 DEF BatonInv

LEMMA ReleaseKeeps ==
  ASSUME BatonInv, NEW d \in Drain, NEW t \in Readings, Release(d, t) PROVE BatonInv'
<1> DEFINE c == Mine(d)
           m == Plan(d)
           whole == drain[d].outcome = "complete"
           next == Ordinal[m][c] + 1
           last == IF whole THEN next ELSE baton.last
           new == [baton EXCEPT !.by = Nobody, !.until = 0, !.preempt = FALSE, !.last = last]
           none == [h \in Companion |-> 0]
           r == [drain[d] EXCEPT !.pc = "released"]
           Live(x) == LiveDemand(x, baton.manifest, now)
           Once(x) == [passed[x] EXCEPT ![c] = @ + 1]
<1>0. /\ c \in Companion /\ m \in Manifest /\ now \in Nat /\ Types /\ drain[d] \in Run
      /\ baton \in Row /\ baton.by = Home(d) /\ baton.by # Nobody /\ baton.manifest = m
      /\ CompanionOf[baton.by] = c
      /\ baton.last \in Nat /\ baton.last <= Cardinality(Companion)
      /\ next \in Nat /\ next <= Cardinality(Companion)
  <2>1. c \in Companion /\ m \in Manifest /\ next \in Nat /\ next <= Cardinality(Companion)
    BY Sizes
  <2>2. baton.by = Home(d) /\ baton.by # Nobody /\ CompanionOf[baton.by] = c
    BY Sizes, BatonAssumption DEF Release, Owned, Mine
  <2> QED
    BY <2>1, <2>2, DrainFacts DEF BatonInv, OneManifest, Types, Row, Plan
<1>1. /\ drain[d].pc = "release" /\ Owned(d, t) /\ To(d, r)
      /\ demand' = [demand EXCEPT ![c] = NoDemand]
      /\ baton' = new
      /\ passed' = [x \in Companion |->
                      CASE x = c -> none
                        [] whole /\ (x # c /\ Live(x)) -> Once(x)
                        [] OTHER -> passed[x]]
      /\ freed' = freed \cup {baton.token} /\ asked' = FALSE
      /\ UNCHANGED <<now, coord, due, deaf>>
  BY DEF Release, At, Goto
<1>2. /\ new \in Row /\ new.by = Nobody /\ new.token = baton.token /\ new.manifest = m
      /\ new.last = last /\ last <= Cardinality(Companion)
  <2>1. last \in Nat /\ last <= Cardinality(Companion)
    BY <1>0
  <2> HIDE DEF last
  <2> QED
    BY <1>0, <2>1 DEF Row
<1> HIDE DEF new
<1>3. /\ demand' \in [Companion -> [manifest : Manifest \cup {Nobody}, until : Nat]]
      /\ demand'[c].until = 0 /\ \A x \in Companion \ {c} : demand'[x] = demand[x]
  BY <1>0, <1>1 DEF NoDemand, Types
<1>4. r \in Run /\ r.pc = "released" /\ r.lease = drain[d].lease
  BY <1>0 DEF Run, Phase
<1> HIDE DEF r
<1>5. /\ drain' \in [Drain -> Run] /\ drain'[d] = r
      /\ \A e \in Drain \ {d} : drain'[e] = drain[e]
  BY <1>0, <1>1, <1>4, DrainOne
<1>6. \A x \in Companion \ {c} :
        /\ passed'[x] \in [Companion -> Nat]
        /\ ~(whole /\ Live(x)) => passed'[x] = passed[x]
        /\ whole /\ Live(x) => /\ passed'[x][c] = passed[x][c] + 1
                               /\ \A h \in Companion \ {c} : passed'[x][h] = passed[x][h]
  <2> SUFFICES ASSUME NEW x \in Companion \ {c}
               PROVE  /\ passed'[x] \in [Companion -> Nat]
                      /\ ~(whole /\ Live(x)) => passed'[x] = passed[x]
                      /\ whole /\ Live(x) =>
                           /\ passed'[x][c] = passed[x][c] + 1
                           /\ \A h \in Companion \ {c} : passed'[x][h] = passed[x][h]
    OBVIOUS
  <2>1. passed[x] \in [Companion -> Nat]
    BY <1>0 DEF Types
  <2>2. /\ Once(x) \in [Companion -> Nat] /\ Once(x)[c] = passed[x][c] + 1
        /\ \A h \in Companion \ {c} : Once(x)[h] = passed[x][h]
    BY <1>0, <2>1
  <2> HIDE DEF whole, Live, Once, none, c
  <2>3. passed'[x] = IF whole /\ Live(x) THEN Once(x) ELSE passed[x]
    BY <1>1
  <2> QED
    BY <2>1, <2>2, <2>3
<1>7. passed' \in [Companion -> [Companion -> Nat]] /\ passed'[c] = none
  <2>1. passed'[c] = none /\ none \in [Companion -> Nat]
    <3> HIDE DEF whole, Live, Once
    <3> QED
      BY <1>0, <1>1
  <2>2. \A x \in Companion : passed'[x] \in [Companion -> Nat]
    BY <1>6, <2>1
  <2>3. passed' = [x \in Companion |-> passed'[x]]
    <3> HIDE DEF whole, Live, Once, none, c
    <3> QED
      BY <1>1
  <2> QED
    BY <2>1, <2>2, <2>3
<1>8. Types' /\ ~deaf'
  BY <1>0, <1>1, <1>2, <1>3, <1>5, <1>7 DEF BatonInv, Types
<1>9. LeaseIsRow'
  <2>1. \A e \in Drain \ {d} : drain[e].pc \in Working /\ drain[e].lease.token \notin freed \cup {baton.token}
                              => ~(drain[e].lease.until > now)
    BY <1>0 DEF BatonInv, LeaseIsRow, Owned
  <2> QED
    BY <1>1, <1>4, <1>5, <2>1 DEF LeaseIsRow, Working
<1>10. TokensAreOwn'
  BY <1>1, <1>2, <1>4, <1>5 DEF BatonInv, TokensAreOwn, Working, Leaving, Home
<1>11. RequestIsKept'
  BY <1>1 DEF RequestIsKept
<1>12. AnswerTells'
  <2>1. d \notin due /\ \A e \in due : e \in Drain
    BY <1>1 DEF BatonInv, AnswerTells, Types
  <2> QED
    BY <1>1, <1>4, <1>5, <2>1 DEF BatonInv, AnswerTells, Home
<1>13. OneManifest'
  BY <1>0, <1>1, <1>2, <1>3 DEF BatonInv, OneManifest
<1>14. TurnsKept'
  <2> SUFFICES ASSUME NEW x \in Companion, NEW h \in Companion,
                      LiveDemand(x, baton.manifest, now)', passed'[x][h] > 0
               PROVE  passed'[x][h] = 1 /\ Before(m, last, x, h)
    BY <1>1, <1>2 DEF TurnsKept
  <2>1. x # c /\ Live(x)
    BY <1>0, <1>1, <1>2, <1>3 DEF LiveDemand
  <2>2. \A y \in Companion : /\ passed[x][y] \in Nat
                             /\ passed[x][y] > 0 => passed[x][y] = 1 /\ Before(m, baton.last, x, y)
    BY <1>0, <2>1 DEF BatonInv, TurnsKept, Types
  <2>3. \A y \in Companion : passed[x][y] > 0 => Before(m, baton.last, c, x)
    BY <1>0, <2>1 DEF BatonInv, TurnsKept, Waiting
  <2>4. CASE ~whole
    BY <1>6, <2>1, <2>2, <2>4
  <2>5. CASE whole /\ h = c
    <3>1. passed[x][c] = 0
      BY <1>0, <2>2, <2>3, BeforeIsOrder
    <3> QED
      BY <1>0, <1>6, <2>1, <2>5, <3>1, ServedIsLast
  <2>6. CASE whole /\ h # c
    <3>1. passed'[x][h] = passed[x][h]
      BY <1>6, <2>1, <2>6
    <3> QED
      BY <1>0, <2>2, <2>3, <2>6, <3>1, ServingKeepsOrder
  <2> QED
    BY <2>4, <2>5, <2>6
<1> QED
  BY <1>8, <1>9, <1>10, <1>11, <1>12, <1>13, <1>14 DEF BatonInv

-----------------------------------------------------------------------------
LEMMA BatonStep == BatonInv /\ [Next]_vars => BatonInv'
<1> SUFFICES ASSUME BatonInv, [Next]_vars PROVE BatonInv'
  OBVIOUS
<1>1. ASSUME NEW d \in Drain, NEW t \in Readings, Store(d, t) PROVE BatonInv'
  BY <1>1, AnnounceKeeps, EndsKeeps, GrantKeeps, ReplayKeeps, WaitsKeeps, RenewKeeps,
     CommitKeeps, ReleaseKeeps, ReleaseEndsKeeps DEF Store
<1>2. ASSUME NEW d \in Drain, Runner(d) PROVE BatonInv'
  BY <1>2, AcquireReturnsKeeps, EndsKeeps, RenewReturnsKeeps, CommitReturnsKeeps, RunKeeps,
     ReleaseEndsKeeps DEF Runner
<1>3. ASSUME NEW i \in Chats, Chat(i) PROVE BatonInv'
  <2>1. i \in Instance
    BY BatonAssumption
  <2> QED
    BY <1>3, <2>1, PreemptLocallyKeeps, PreemptFailsKeeps, PreemptSharedKeeps DEF Chat
<1>4. CASE UNCHANGED vars
  BY <1>4 DEF vars, BatonInv, Types, LeaseIsRow, Owned, TokensAreOwn, RequestIsKept, AnswerTells,
     OneManifest, TurnsKept, Waiting, LiveDemand, Home
<1> QED
  BY <1>1, <1>2, <1>3, <1>4, CrashKeeps, TickKeeps DEF Next

LEMMA BatonInvariant == Spec => []BatonInv
BY BatonInit, BatonStep, PTL DEF Spec

(* Drains that may go on working under leases that nobody gave back are of one process,
   whatever expires, is renewed or granted again and whenever the answers arrive
   (tryAcquire, release, runWithFleetMaintenanceBaton): such a lease is the lease of
   the row.  Two drains of a process may share it, and the first to give it back takes
   it from the other. *)
THEOREM OneProcessWorks == Spec => []OneAuthority
<1>1. BatonInv => OneAuthority
  BY DEF BatonInv, LeaseIsRow, Owned, OneAuthority, Authority, Working
<1> QED
  BY <1>1, BatonInvariant, PTL

(* A companion with a live demand is passed at most once by each other companion
   (the cyclic order of tryAcquire, the ordinal that release leaves behind). *)
THEOREM NobodyPassesTwice == Spec => []PassedOnce
<1>1. BatonInv => PassedOnce
  BY DEF BatonInv, TurnsKept, PassedOnce, Types
<1> QED
  BY <1>1, BatonInvariant, PTL

(* A checkpoint that begins after a request to yield is answered with it, whatever the
   other drains of the process do short of taking up or dropping a lease, which wipes
   the mark (requestForegroundPreemption, commitCheckpoint, MarkForgotten). *)
THEOREM RequestsAreHeard == Spec => []PreemptionHeardInTime
<1>1. BatonInv => PreemptionHeardInTime
  BY DEF BatonInv, PreemptionHeardInTime
<1> QED
  BY <1>1, BatonInvariant, PTL
=============================================================================
