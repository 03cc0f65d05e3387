---------------------- MODULE ProtectedMessagesProofs ----------------------
(***************************************************************************)
(* For any number of messages, authors, activities, copies and faults: no  *)
(* mark of a message in flight is left behind, a text that is out is not   *)
(* sent again, a row outlives the delivery of its message and turns begin  *)
(* in the order of arrival.                                                *)
(*                                                                         *)
(* Four inductive invariants, each on top of the first.  MarksInv says how *)
(* the pump, its entries, the marks and the checkpoints fit together.      *)
(* SaidInv says that the process knows of every text it has sent.  AckInv  *)
(* says where a message that the gateway delivered once can be.  OrderInv  *)
(* says that entries, rows and admissions are one line in the order of     *)
(* arrival, but for what was turned away.                                  *)
(*                                                                         *)
(* What the pump does when it takes a bundle is shown once (TakeIs,        *)
(* TakeLine) for the three steps that do it.                               *)
(***************************************************************************)
EXTENDS ProtectedMessages, WellFoundedInduction, TLAPS

(* Inductive invariant, in named parts.  The parts that concern the pump are stated of a   *)
(* pump p, waiting entries q, marks fl and checkpoints F, so that the lemmas about them can *)
(* speak of the state before and after a step alike.                                       *)

PumpType == [at : {"off", "turn", "send", "notice"}, bundle : Seq(Entry), reply : Checkpoint]

(* The messages an entry answers for, by the checkpoints F. *)
Cl(F, m) == IF F[m] # NoReply THEN F[m].keys ELSE {m}

(* A checkpoint is parked under each of its messages and no other. *)
GroupsClosed(F) ==
  \A m \in Message : F[m] # NoReply =>
    m \in F[m].keys /\ \A k \in F[m].keys : F[k] = F[m]

(* The pump rests only when nothing waits. *)
RestsEmpty(p, q) == p.at = "off" => p = Idle /\ q = <<>>

(* The pump works for a whole checkpoint or for messages that have none. *)
PumpGroup(p, F) ==
  \A m \in p.reply.keys :
    /\ F[m] = NoReply \/ F[m].keys = p.reply.keys
    /\ p.at = "turn" => F[m] = NoReply

BundleCovered(p) == Keys(p.bundle) \subseteq p.reply.keys

(* Of the entries that wait, each knows whether there is a delivery to resume, and no two  *)
(* answer for the same message.                                                            *)
Orderly(q, F) ==
  /\ q \in Seq(Entry)
  /\ \A i \in DOMAIN q : q[i].resumes <=> F[q[i].m] # NoReply
  /\ \A i, j \in DOMAIN q : i # j => Cl(F, q[i].m) \cap Cl(F, q[j].m) = {}

(* No message is waited for and worked for. *)
Apart(p, q, F) == \A i \in DOMAIN q : Cl(F, q[i].m) \cap p.reply.keys = {}

(* NoMarkLeft *)
Marks(p, q, fl, F) == fl = p.reply.keys \cup UNION {Cl(F, q[i].m) : i \in DOMAIN q}

PumpInv(p, q, fl, F) ==
  /\ p \in PumpType /\ F \in [Message -> Checkpoint]
  /\ GroupsClosed(F) /\ RestsEmpty(p, q) /\ PumpGroup(p, F) /\ BundleCovered(p)
  /\ Orderly(q, F) /\ Apart(p, q, F) /\ Marks(p, q, fl, F)

(* The one entry the drain waits for is the head of its batch. *)
AwaitedIsHead(p, q, d) ==
  /\ \A i \in DOMAIN q : q[i].awaited => d.at = "await" /\ q[i].m = Head(d.batch)
  /\ \A i \in DOMAIN p.bundle : p.bundle[i].awaited => d.at = "await" /\ p.bundle[i].m = Head(d.batch)

(* What is left of the batch is in the durable queue. *)
BatchQueued(d, rows) ==
  /\ d.batch \in Seq(Message) /\ IsInjective(d.batch)
  /\ \A k \in DOMAIN d.batch : Contains(rows, d.batch[k])
  /\ d.at \in {"await", "ack"} => d.batch # <<>>

MarksInv ==
  /\ TypeOK /\ PumpInv(pump, prompts, inFlight, failed)
  /\ AwaitedIsHead(pump, prompts, drain) /\ BatchQueued(drain, queue)

-----------------------------------------------------------------------------
(* Why no text is sent again: of a pump p, waiting entries q, checkpoints F, messages rec    *)
(* answered lately, messages fg whose records have run out and texts sent, sd.             *)

HasText(left) == left \in {<<"text">>, <<"text", "media">>}

(* The pump speaks only for messages to which no text was sent. *)
PumpUnsaid(p, fg, sd) ==
  p.at = "turn" \/ (p.at = "send" /\ HasText(p.reply.left)) =>
    \A m \in p.reply.keys \ fg : sd[m] \in {"no", "part"}

(* A checkpoint with text to send belongs to messages to which none was sent, unless the   *)
(* pump is just resuming it.                                                               *)
CheckpointUnsaid(p, F, fg, sd) ==
  \A m \in Message \ fg :
    F[m] # NoReply /\ HasText(F[m].left) /\ ~(p.at = "send" /\ m \in p.reply.keys) => sd[m] \in {"no", "part"}

(* The process knows of every text it has sent. *)
SaidKnown(p, F, rec, fg, sd) ==
  \A m \in Message \ fg :
    sd[m] \notin {"no", "part"} => m \in rec \/ F[m] # NoReply \/ (p.at = "send" /\ m \in p.reply.keys)

(* No text was sent to a message that waits for a turn. *)
WaitingUnsaid(q, F, fg, sd) ==
  \A i \in DOMAIN q : F[q[i].m] = NoReply /\ q[i].m \notin fg => sd[q[i].m] \in {"no", "part"}

SaidInv(p, q, F, rec, fg, sd) ==
  /\ PumpUnsaid(p, fg, sd) /\ CheckpointUnsaid(p, F, fg, sd) /\ SaidKnown(p, F, rec, fg, sd)
  /\ WaitingUnsaid(q, F, fg, sd)
  /\ \A m \in Message \ fg : sd[m] # "again"

-----------------------------------------------------------------------------
(* Why a row outlives the delivery of its message. *)

(* The gateway has delivered the message at most once. *)
Once(cp, m) == cp[m] <= 1

(* The drain acknowledges what was answered, if the gateway delivered it once. *)
AckKnown(d, rp, cp) == d.at = "ack" => Head(d.batch) \in rp \/ ~Once(cp, Head(d.batch))

(* Where a message is in the tail of admissions. *)
OnWay(t, m) == {i \in DOMAIN t : t[i].kind = "message" /\ t[i].of = m}

(* A message that waits in the durable queue, is in flight or has a checkpoint. *)
Busy(rows, fl, F, m) == Contains(rows, m) \/ m \in fl \/ F[m] # NoReply

(* A message delivered once is in one place: on its way in, or beyond. *)
OnePlace(t, rows, fl, F, cp) ==
  \A m \in Message :
    /\ cp[m] = 0 => OnWay(t, m) = {} /\ ~Busy(rows, fl, F, m)
    /\ Once(cp, m) /\ OnWay(t, m) # {} =>
         (\A i, j \in OnWay(t, m) : i = j) /\ ~Busy(rows, fl, F, m)

(* While its row is in the queue, only the drain has a message delivered that arrived once. *)
QueuedByDrain(p, q, F, rows, cp) ==
  \A m \in Message :
    Once(cp, m) /\ Contains(rows, m) =>
      /\ m \in p.reply.keys => \E i \in DOMAIN p.bundle : p.bundle[i].awaited
      /\ \A i \in DOMAIN q : m \in Cl(F, q[i].m) => q[i].awaited

AckInv ==
  /\ AckKnown(drain, replied, copies) /\ recent \subseteq replied
  /\ OnePlace(tail, queue, inFlight, failed, copies)
  /\ QueuedByDrain(pump, prompts, failed, queue, copies)

-----------------------------------------------------------------------------
(* Why messages have their turns in order: of the messages A that arrived, those L that     *)
(* were turned away, the turns B that have begun, entries P that wait for the pump, rows Q  *)
(* and the tail T of admissions.                                                            *)

Earlier(A, u, v) == \E k, l \in DOMAIN A : k < l /\ A[k] = u /\ A[l] = v

(* What arrived before v, was not turned away and still has to have its turn. *)
Due(A, L, B, v) == {u \in Message \ L : Earlier(A, u, v) /\ ~Contains(B, u)}

FirstKeys(P, n)     == {P[i].m : i \in {k \in DOMAIN P : k < n}}
FirstRows(Q, n)     == {Q[i] : i \in {k \in DOMAIN Q : k < n}}
FirstMessages(T, n) == {T[i].of : i \in {k \in DOMAIN T : k < n /\ T[k].kind = "message"}}

(* Each message arrives first once, and none has a turn that did not arrive. *)
ArrivedOnce(A, B) ==
  /\ A \in Seq(Message) /\ \A k, l \in DOMAIN A : A[k] = A[l] => k = l
  /\ B \in Seq(Message \cup {None}) /\ \A i \in DOMAIN B : B[i] = None \/ Contains(A, B[i])

(* What arrived before a message that has had its turn has had it before, if it was not     *)
(* turned away.                                                                             *)
TurnsOrdered(A, L, B) ==
  /\ \A u \in Message \ L, v \in Message : Earlier(A, u, v) /\ Contains(B, v) => Contains(B, u)
  /\ \A i, j \in DOMAIN B :
       i < j /\ B[i] # None /\ B[j] # None /\ B[j] \notin L => Earlier(A, B[i], B[j])

(* What arrived before an entry, a row or a message on its way in is before it in the line *)
(* of entries, rows and admissions, until its turn.                                        *)
EntriesOrdered(A, L, B, P) ==
  \A j \in DOMAIN P : Contains(A, P[j].m) /\ Due(A, L, B, P[j].m) \subseteq FirstKeys(P, j)

RowsOrdered(A, L, B, P, Q) ==
  \A j \in DOMAIN Q : Contains(A, Q[j]) /\ Due(A, L, B, Q[j]) \subseteq Keys(P) \cup FirstRows(Q, j)

TailOrdered(A, L, B, P, Q, T) ==
  \A j \in DOMAIN T : T[j].kind = "message" =>
    /\ Contains(A, T[j].of)
    /\ Due(A, L, B, T[j].of) \subseteq Keys(P) \cup Range(Q) \cup FirstMessages(T, j)

(* No message that arrived is lost before its turn, but for those turned away. *)
NoneLost(A, L, B, P, Q, T) ==
  \A u \in Message \ L : Contains(A, u) /\ ~Contains(B, u) =>
    u \in Keys(P) \cup Range(Q) \cup FirstMessages(T, Len(T) + 1)

Line(A, L, B, P, Q, T) ==
  /\ ArrivedOnce(A, B) /\ TurnsOrdered(A, L, B)
  /\ EntriesOrdered(A, L, B, P) /\ RowsOrdered(A, L, B, P, Q) /\ TailOrdered(A, L, B, P, Q, T)
  /\ NoneLost(A, L, B, P, Q, T)

(* What the pump works for, what was answered lately and what has a checkpoint has had a   *)
(* turn.                                                                                   *)
WorkedFor(B, p, rec, F) ==
  \A m \in Message : m \in p.reply.keys \/ m \in rec \/ F[m] # NoReply => Contains(B, m)

(* The batch of the drain is the front of the durable queue. *)
BatchFirst(d, Q) == \A k \in DOMAIN d.batch : k \in DOMAIN Q /\ Q[k] = d.batch[k]

(* A row that is acknowledged is one whose message has had its turn or waits for it. *)
AckCovered(d, B, P) == d.at = "ack" => Contains(B, Head(d.batch)) \/ Head(d.batch) \in Keys(P)

OrderInv ==
  /\ Line(arrived, turnedAway, begun, prompts, queue, tail)
  /\ WorkedFor(begun, pump, recent, failed)
  /\ BatchFirst(drain, queue) /\ AckCovered(drain, begun, prompts)

-----------------------------------------------------------------------------
(* Bundles *)

LEMMA MinOf ==
  ASSUME NEW S, S \subseteq Nat, S # {}
  PROVE  \E x \in S : \A y \in S : x <= y
<1> DEFINE R == {ss \in Nat \X Nat : ss[1] < ss[2]}
<1>1. IsWellFoundedOn(R, Nat)
  BY NatLessThanWellFounded DEF OpToRel
<1>2. \A x, y \in Nat : <<y, x>> \notin R => x <= y
  <2> SUFFICES ASSUME NEW x \in Nat, NEW y \in Nat, ~(x <= y) PROVE <<y, x>> \in R
    OBVIOUS
  <2>1. y < x
    OBVIOUS
  <2> QED
    BY <2>1
<1> HIDE DEF R
<1>3. PICK x \in S : \A y \in S : ~(<<y, x>> \in R)
  BY <1>1, WFMin
<1> QED
  BY <1>2, <1>3

LEMMA BundleLenIs ==
  ASSUME NEW q \in Seq(Entry), q # <<>>, NEW n, n = BundleLen(q)
  PROVE  /\ n \in 1 .. Len(q)
         /\ q[1].resumes => n = 1
         /\ ~q[1].resumes => \A i \in 1 .. n : ~q[i].resumes
<1>1. Len(q) \in Nat \ {0}
  OBVIOUS
<1>2. CASE q[1].resumes
  BY <1>1, <1>2 DEF BundleLen
<1>3. CASE ~q[1].resumes
  <2> DEFINE Other(i) == q[i].resumes \/ Author[q[i].m] # Author[q[1].m]
             P(k) == /\ \A i \in 1 .. k : ~q[i].resumes /\ Author[q[i].m] = Author[q[1].m]
                     /\ k < Len(q) => q[k + 1].resumes \/ Author[q[k + 1].m] # Author[q[1].m]
             S == {i \in 1 .. Len(q) : Other(i)}
  <2>1. \E k \in 1 .. Len(q) : P(k)
    <3>1. CASE S = {}
      <4>1. P(Len(q))
        BY <1>1, <3>1
      <4> QED
        BY <1>1, <4>1
    <3>2. CASE S # {}
      <4>0. S \subseteq Nat
        BY <1>1
      <4>1. PICK x \in S : \A y \in S : x <= y
        BY <3>2, <4>0, MinOf
      <4>2. x \in 1 .. Len(q) /\ Other(x) /\ x # 1
        BY <1>3, <4>1
      <4>3. x - 1 \in 1 .. Len(q)
        BY <1>1, <4>2
      <4>4. \A i \in 1 .. x - 1 : ~Other(i)
        <5> SUFFICES ASSUME NEW i \in 1 .. x - 1, Other(i) PROVE FALSE
          OBVIOUS
        <5>1. i \in S
          BY <1>1, <4>2
        <5>2. x <= i
          BY <4>1, <5>1
        <5> QED
          BY <4>2, <5>2
      <4>5. P(x - 1)
        BY <1>1, <4>2, <4>4
      <4> QED
        BY <4>3, <4>5
    <3> QED
      BY <3>1, <3>2
  <2>2. n = CHOOSE k \in 1 .. Len(q) : P(k)
    BY <1>3 DEF BundleLen
  <2>3. n \in 1 .. Len(q) /\ P(n)
    BY <2>1, <2>2
  <2> QED
    BY <1>3, <2>3
<1> QED
  BY <1>2, <1>3

(* What taking a bundle from q leaves: every entry waits on or is in the bundle, and the
   pump works for what the bundle claims. *)
Taken(p, r, q, F) ==
  /\ p \in PumpType /\ r \in Seq(Entry)
  /\ p.at \in {"off", "turn", "send"}
  /\ p.at = "off" => p = Idle /\ r = <<>>
  /\ \E n \in Nat : \A i \in DOMAIN r : n + i \in DOMAIN q /\ r[i] = q[n + i]
  /\ \A i \in DOMAIN p.bundle : \E j \in DOMAIN q : p.bundle[i] = q[j]
  /\ \A i \in DOMAIN q : \/ \E j \in DOMAIN r : r[j] = q[i]
                         \/ Cl(F, q[i].m) \subseteq p.reply.keys
  /\ \A m \in p.reply.keys : \E j \in DOMAIN p.bundle : m \in Cl(F, p.bundle[j].m)
  /\ Keys(p.bundle) \subseteq p.reply.keys
  /\ \A i \in DOMAIN r : Cl(F, r[i].m) \cap p.reply.keys = {}
  /\ \A m \in p.reply.keys :
       /\ F[m] = NoReply \/ F[m].keys = p.reply.keys
       /\ p.at = "turn" => F[m] = NoReply
  /\ p.at = "send" => \E i \in DOMAIN q : F[q[i].m] # NoReply /\ p.reply = F[q[i].m]
  /\ p.at = "turn" => \A m \in p.reply.keys : \E i \in DOMAIN q : q[i].m = m /\ F[m] = NoReply

LEMMA ClaimsAre ==
  ASSUME NEW F \in [Message -> Checkpoint], GroupsClosed(F), NEW m \in Message
  PROVE  m \in Cl(F, m) /\ Cl(F, m) \subseteq Message
BY DEF Cl, GroupsClosed, Checkpoint

LEMMA TakeIs ==
  ASSUME NEW F \in [Message -> Checkpoint], F = failed, GroupsClosed(F), NEW q, Orderly(q, F),
         NEW p, p = pump', NEW r, r = prompts', Take(q)
  PROVE  Taken(p, r, q, F)
<1>1. /\ q \in Seq(Entry) /\ \A i \in DOMAIN q : q[i].resumes <=> F[q[i].m] # NoReply
      /\ \A i, j \in DOMAIN q : i # j => Cl(F, q[i].m) \cap Cl(F, q[j].m) = {}
  BY DEF Orderly
<1>2. CASE q = <<>>
  <2>1. p = [at |-> "off", bundle |-> <<>>, reply |-> NoReply] /\ r = <<>>
    BY <1>2 DEF Take, Idle
  <2>2. NoReply \in Checkpoint /\ NoReply.keys = {}
    BY DEF NoReply, Checkpoint, Parts
  <2>3. p \in PumpType /\ r \in Seq(Entry)
    BY <2>1, <2>2 DEF PumpType
  <2>4. p.at = "off" /\ p.bundle = <<>> /\ p.reply.keys = {} /\ p = Idle
    BY <2>1, <2>2 DEF Idle
  <2>5. Keys(p.bundle) = {}
    BY <2>4 DEF Keys
  <2> QED
    BY <1>2, <2>1, <2>3, <2>4, <2>5 DEF Taken
<1>3. CASE q # <<>>
  <2>1. PICK n \in 1 .. Len(q) :
          /\ n = BundleLen(q) /\ (q[1].resumes => n = 1)
          /\ ~q[1].resumes => \A i \in 1 .. n : ~q[i].resumes
    BY <1>1, <1>3, BundleLenIs
  <2>2. PICK b \in Seq(Entry) : b = SubSeq(q, 1, n) /\ DOMAIN b = 1 .. n /\ \A i \in 1 .. n : b[i] = q[i]
    <3>1. Len(q) \in Nat /\ n \in Nat /\ 1 <= n /\ n <= Len(q) /\ DOMAIN q = 1 .. Len(q)
      BY <1>1, <2>1
    <3>2. SubSeq(q, 1, n) \in Seq(Entry)
      BY <1>1, <3>1
    <3>3. Len(SubSeq(q, 1, n)) = n /\ \A i \in 1 .. n : SubSeq(q, 1, n)[i] = q[i]
      BY <1>1, <3>1
    <3>4. DOMAIN SubSeq(q, 1, n) = 1 .. n
      BY <3>2, <3>3
    <3> QED
      BY <3>2, <3>3, <3>4
  <2>3. /\ r = SubSeq(q, n + 1, Len(q))
        /\ p = IF b[1].resumes
                     THEN [at |-> "send", bundle |-> b, reply |-> F[b[1].m]]
                     ELSE [at |-> "turn", bundle |-> b, reply |-> [keys |-> Keys(b), left |-> <<>>]]
    BY <1>3, <2>1, <2>2 DEF Take
  <2>4. Len(q) \in Nat /\ n \in Nat /\ 1 \in 1 .. n /\ DOMAIN q = 1 .. Len(q) /\ 1 .. n \subseteq DOMAIN q
    BY <1>1, <2>1
  <2>5. r \in Seq(Entry) /\ DOMAIN r = 1 .. Len(q) - n /\ \A i \in DOMAIN r : r[i] = q[n + i]
    BY <1>1, <2>3, <2>4
  <2>6. \A i \in DOMAIN r : n + i \in DOMAIN q /\ n + i \notin 1 .. n /\ r[i] = q[n + i]
    BY <2>4, <2>5
  <2>7. \A i \in DOMAIN q : q[i] \in Entry /\ q[i].m \in Message /\ q[i].m \in Cl(F, q[i].m)
    <3>1. \A i \in DOMAIN q : q[i] \in Entry
      BY <1>1
    <3>2. \A e \in Entry : e.m \in Message
      BY DEF Entry
    <3> QED
      BY <3>1, <3>2, ClaimsAre
  <2>8. \A i \in DOMAIN q : i \in 1 .. n \/ \E j \in DOMAIN r : r[j] = q[i]
    <3> SUFFICES ASSUME NEW i \in DOMAIN q, i \notin 1 .. n PROVE \E j \in DOMAIN r : r[j] = q[i]
      OBVIOUS
    <3>1. i - n \in DOMAIN r /\ n + (i - n) = i
      BY <2>4, <2>5
    <3> QED
      BY <2>5, <3>1
  <2>9. \A i \in DOMAIN r, k \in 1 .. n : Cl(F, r[i].m) \cap Cl(F, q[k].m) = {}
    <3> SUFFICES ASSUME NEW i \in DOMAIN r, NEW k \in 1 .. n
                 PROVE  Cl(F, r[i].m) \cap Cl(F, q[k].m) = {}
      OBVIOUS
    <3>1. n + i \in DOMAIN q /\ k \in DOMAIN q /\ n + i # k /\ r[i] = q[n + i]
      BY <2>4, <2>6
    <3> QED
      BY <1>1, <3>1
  <2>10. CASE q[1].resumes
    <3>1. n = 1 /\ b[1] = q[1] /\ F[q[1].m] # NoReply /\ 1 \in DOMAIN q
      BY <1>1, <2>1, <2>2, <2>4, <2>10
    <3>2. p = [at |-> "send", bundle |-> b, reply |-> F[q[1].m]]
      BY <2>3, <2>10, <3>1
    <3>3. q[1].m \in Message /\ F[q[1].m] \in Checkpoint /\ Cl(F, q[1].m) = F[q[1].m].keys
      BY <2>7, <3>1 DEF Cl
    <3>4. p \in PumpType /\ p.at = "send" /\ p.bundle = b /\ p.reply = F[q[1].m]
      BY <3>2, <3>3 DEF PumpType
    <3>5. p.reply.keys = Cl(F, q[1].m)
      BY <3>3, <3>4
    <3>6. \A i \in DOMAIN q : i = 1 \/ \E j \in DOMAIN r : r[j] = q[i]
      BY <2>8, <3>1
    <3>7. \A m \in p.reply.keys : F[m] = F[q[1].m]
      BY <3>1, <3>3, <3>4 DEF GroupsClosed
    <3>8. \A m \in p.reply.keys : F[m].keys = p.reply.keys
      BY <3>4, <3>7
    <3>9. Keys(p.bundle) \subseteq p.reply.keys
      BY <2>2, <2>7, <3>1, <3>4, <3>5 DEF Keys
    <3>10. \A i \in DOMAIN p.bundle : \E j \in DOMAIN q : p.bundle[i] = q[j]
      BY <2>2, <2>4, <3>4
    <3>11. \A m \in p.reply.keys : \E j \in DOMAIN p.bundle : m \in Cl(F, p.bundle[j].m)
      <4>1. 1 \in DOMAIN p.bundle /\ p.bundle[1] = q[1]
        BY <2>2, <2>4, <3>1, <3>4
      <4> QED
        BY <3>5, <4>1
    <3>12. \A i \in DOMAIN r : Cl(F, r[i].m) \cap p.reply.keys = {}
      BY <2>4, <2>9, <3>1, <3>5
    <3>13. \E k \in Nat : \A i \in DOMAIN r : k + i \in DOMAIN q /\ r[i] = q[k + i]
      BY <2>4, <2>6
    <3>14. \A i \in DOMAIN q : \/ \E j \in DOMAIN r : r[j] = q[i]
                               \/ Cl(F, q[i].m) \subseteq p.reply.keys
      BY <3>5, <3>6
    <3> QED
      BY <2>5, <3>1, <3>4, <3>8, <3>9, <3>10, <3>11, <3>12, <3>13, <3>14 DEF Taken
  <2>11. CASE ~q[1].resumes
    <3>1. \A i \in 1 .. n : F[q[i].m] = NoReply /\ Cl(F, q[i].m) = {q[i].m}
      BY <1>1, <2>1, <2>4, <2>11 DEF Cl
    <3>2. Keys(b) = {q[i].m : i \in 1 .. n}
      BY <2>2 DEF Keys
    <3>3. p = [at |-> "turn", bundle |-> b, reply |-> [keys |-> Keys(b), left |-> <<>>]]
      BY <2>2, <2>3, <2>4, <2>11
    <3>4. [keys |-> Keys(b), left |-> <<>>] \in Checkpoint
      BY <2>4, <2>7, <3>2 DEF Checkpoint, Parts
    <3>5. p \in PumpType /\ p.at = "turn" /\ p.bundle = b /\ p.reply.keys = {q[i].m : i \in 1 .. n}
      BY <3>2, <3>3, <3>4 DEF PumpType
    <3>6. \A m \in p.reply.keys : \E i \in 1 .. n : q[i].m = m /\ F[m] = NoReply
      BY <3>1, <3>5
    <3>7. \A m \in p.reply.keys : F[m] = NoReply
      BY <3>6 
    <3>8. Keys(p.bundle) \subseteq p.reply.keys
      BY <3>2, <3>5
    <3>9. \A i \in DOMAIN p.bundle : \E j \in DOMAIN q : p.bundle[i] = q[j]
      BY <2>2, <2>4, <3>5
    <3>10. \A m \in p.reply.keys : \E j \in DOMAIN p.bundle : m \in Cl(F, p.bundle[j].m)
      <4> SUFFICES ASSUME NEW m \in p.reply.keys
                   PROVE  \E j \in DOMAIN p.bundle : m \in Cl(F, p.bundle[j].m)
        OBVIOUS
      <4>1. PICK i \in 1 .. n : m = q[i].m
        BY <3>5
      <4>2. i \in DOMAIN p.bundle /\ p.bundle[i] = q[i]
        BY <2>2, <3>5
      <4> QED
        BY <3>1, <4>1, <4>2
    <3>11. \A i \in DOMAIN r : Cl(F, r[i].m) \cap p.reply.keys = {}
      <4> SUFFICES ASSUME NEW i \in DOMAIN r, NEW m \in p.reply.keys PROVE m \notin Cl(F, r[i].m)
        OBVIOUS
      <4>1. PICK k \in 1 .. n : m = q[k].m
        BY <3>5
      <4> QED
        BY <2>9, <3>1, <4>1
    <3>12. \E k \in Nat : \A i \in DOMAIN r : k + i \in DOMAIN q /\ r[i] = q[k + i]
      BY <2>4, <2>6
    <3>13. \A i \in DOMAIN q : \/ \E j \in DOMAIN r : r[j] = q[i]
                               \/ Cl(F, q[i].m) \subseteq p.reply.keys
      <4> SUFFICES ASSUME NEW i \in DOMAIN q, i \in 1 .. n PROVE Cl(F, q[i].m) \subseteq p.reply.keys
        BY <2>8
      <4> QED
        BY <3>1, <3>5
    <3>14. \A m \in p.reply.keys : \E i \in DOMAIN q : q[i].m = m /\ F[m] = NoReply
      BY <2>4, <3>6
    <3> QED
      BY <2>5, <3>5, <3>7, <3>8, <3>9, <3>10, <3>11, <3>12, <3>13, <3>14 DEF Taken
  <2> QED
    BY <2>10, <2>11
<1> QED
  BY <1>2, <1>3

-----------------------------------------------------------------------------
(* The pump's part of the invariant, step by step *)

(* Checkpoints outside of what the pump works for share no message with it. *)
LEMMA GroupsApart ==
  ASSUME NEW F \in [Message -> Checkpoint], GroupsClosed(F), NEW p \in PumpType, PumpGroup(p, F),
         NEW m \in Message, m \notin p.reply.keys, F[m] # NoReply
  PROVE  F[m].keys \cap p.reply.keys = {}
<1> SUFFICES ASSUME NEW x \in F[m].keys, x \in p.reply.keys PROVE FALSE
  OBVIOUS
<1>1. F[x] = F[m] /\ m \in F[m].keys
  BY DEF GroupsClosed
<1>2. F[x].keys = p.reply.keys
  BY <1>1 DEF PumpGroup
<1> QED
  BY <1>1, <1>2

(* Taking the next bundle, when the checkpoints of what waits are as they were. *)
LEMMA TakenKeeps ==
  ASSUME NEW F \in [Message -> Checkpoint], GroupsClosed(F), NEW q, Orderly(q, F),
         NEW p, NEW r, Taken(p, r, q, F),
         NEW G \in [Message -> Checkpoint], GroupsClosed(G),
         \A i \in DOMAIN q : \A k \in Cl(F, q[i].m) : G[k] = F[k],
         NEW fl, fl = UNION {Cl(F, q[i].m) : i \in DOMAIN q}
  PROVE  PumpInv(p, r, fl, G)
<1>1. /\ q \in Seq(Entry) /\ \A i \in DOMAIN q : q[i].resumes <=> F[q[i].m] # NoReply
      /\ \A i, j \in DOMAIN q : i # j => Cl(F, q[i].m) \cap Cl(F, q[j].m) = {}
  BY DEF Orderly
<1>2. PICK n \in Nat : \A i \in DOMAIN r : n + i \in DOMAIN q /\ r[i] = q[n + i]
  BY DEF Taken
<1>3. p \in PumpType /\ r \in Seq(Entry) /\ RestsEmpty(p, r) /\ BundleCovered(p)
  BY DEF Taken, RestsEmpty, BundleCovered
<1>4. \A i \in DOMAIN q : q[i].m \in Message /\ q[i].m \in Cl(F, q[i].m)
  <2>1. \A i \in DOMAIN q : q[i] \in Entry
    BY <1>1
  <2>2. \A e \in Entry : e.m \in Message
    BY DEF Entry
  <2> QED
    BY <2>1, <2>2, ClaimsAre
<1>5. \A i \in DOMAIN q : G[q[i].m] = F[q[i].m] /\ Cl(G, q[i].m) = Cl(F, q[i].m)
  BY <1>4 DEF Cl
<1>6. \A m \in p.reply.keys : \E i \in DOMAIN q : m \in Cl(F, q[i].m)
  <2> SUFFICES ASSUME NEW m \in p.reply.keys PROVE \E i \in DOMAIN q : m \in Cl(F, q[i].m)
    OBVIOUS
  <2>1. PICK j \in DOMAIN p.bundle : m \in Cl(F, p.bundle[j].m)
    BY DEF Taken
  <2>2. PICK i \in DOMAIN q : p.bundle[j] = q[i]
    BY DEF Taken
  <2> QED
    BY <2>1, <2>2
<1>7. \A m \in p.reply.keys : G[m] = F[m]
  BY <1>6
<1>8. PumpGroup(p, G)
  BY <1>7 DEF PumpGroup, Taken
<1>9. \A i \in DOMAIN r : Cl(G, r[i].m) = Cl(F, r[i].m) /\ (r[i].resumes <=> G[r[i].m] # NoReply)
  BY <1>1, <1>2, <1>5
<1>10. Apart(p, r, G)
  BY <1>9 DEF Apart, Taken
<1>11. \A i, j \in DOMAIN r : i # j => Cl(G, r[i].m) \cap Cl(G, r[j].m) = {}
  <2> SUFFICES ASSUME NEW i \in DOMAIN r, NEW j \in DOMAIN r, i # j
               PROVE  Cl(F, r[i].m) \cap Cl(F, r[j].m) = {}
    BY <1>9
  <2>0. i \in Nat /\ j \in Nat
    BY <1>3
  <2>1. n + i \in DOMAIN q /\ n + j \in DOMAIN q /\ n + i # n + j /\ r[i] = q[n + i] /\ r[j] = q[n + j]
    BY <1>2, <2>0
  <2> QED
    BY <1>1, <2>1
<1>12. Orderly(r, G)
  BY <1>3, <1>9, <1>11 DEF Orderly
<1>13. Marks(p, r, fl, G)
  <2>1. \A x \in fl : x \in p.reply.keys \/ \E i \in DOMAIN r : x \in Cl(G, r[i].m)
    <3> SUFFICES ASSUME NEW x \in fl, x \notin p.reply.keys PROVE \E i \in DOMAIN r : x \in Cl(G, r[i].m)
      OBVIOUS
    <3>1. PICK i \in DOMAIN q : x \in Cl(F, q[i].m)
      OBVIOUS
    <3>2. PICK j \in DOMAIN r : r[j] = q[i]
      BY <3>1 DEF Taken
    <3> QED
      BY <1>9, <3>1, <3>2
  <2>2. \A x \in p.reply.keys : x \in fl
    BY <1>6
  <2>3. \A i \in DOMAIN r : Cl(G, r[i].m) \subseteq fl
    BY <1>2, <1>9
  <2> QED
    BY <2>1, <2>2, <2>3 DEF Marks
<1> QED
  BY <1>3, <1>8, <1>10, <1>12, <1>13 DEF PumpInv

LEMMA AdmitKeeps ==
  ASSUME PumpInv(pump, prompts, inFlight, failed), NEW m \in Message, NEW w \in BOOLEAN,
         ~Dropped(m), Admit(m, w)
  PROVE  /\ PumpInv(pump', prompts', inFlight', failed')
         /\ \A i \in DOMAIN prompts' : \/ \E j \in DOMAIN prompts : prompts'[i] = prompts[j]
                                       \/ prompts'[i].m = m /\ prompts'[i].awaited = w
         /\ \A i \in DOMAIN pump'.bundle : \/ \E j \in DOMAIN pump.bundle : pump'.bundle[i] = pump.bundle[j]
                                           \/ pump'.bundle[i].m = m /\ pump'.bundle[i].awaited = w
         /\ \/ pump' = pump
            \/ \A k \in pump'.reply.keys : \E j \in DOMAIN pump'.bundle : pump'.bundle[j].awaited = w
<1>1. PICK F \in [Message -> Checkpoint] : F = failed
  BY DEF PumpInv
<1>2. PICK q \in Seq(Entry) : q = prompts
  BY DEF PumpInv, Orderly
<1>3. /\ GroupsClosed(F) /\ RestsEmpty(pump, q) /\ PumpGroup(pump, F) /\ BundleCovered(pump)
      /\ Orderly(q, F) /\ Apart(pump, q, F) /\ Marks(pump, q, inFlight, F) /\ pump \in PumpType
  BY <1>1, <1>2 DEF PumpInv
<1>4. PICK e : e = [m |-> m, awaited |-> w, resumes |-> F[m] # NoReply]
  OBVIOUS
<1>5. e \in Entry /\ e.m = m /\ e.awaited = w /\ (e.resumes <=> F[m] # NoReply)
  BY <1>4 DEF Entry
<1>6. Cl(F, m) \cap inFlight = {} /\ m \in Cl(F, m)
  BY <1>1, <1>3, ClaimsAre DEF Dropped, Claims, Resumable, Cl
<1>7. /\ inFlight' = inFlight \cup Cl(F, m) /\ failed' = F
      /\ IF pump.at = "off" THEN Take(<<e>>) ELSE prompts' = Append(q, e) /\ pump' = pump
  BY <1>1, <1>2, <1>4 DEF Admit, Claims, Resumable, Cl
<1>8. CASE pump.at = "off"
  <2>1. Orderly(<<e>>, F)
    <3>1. <<e>> \in Seq(Entry) /\ DOMAIN <<e>> = {1} /\ <<e>>[1] = e
      BY <1>5
    <3> QED
      BY <1>5, <3>1 DEF Orderly
  <2>2. Taken(pump', prompts', <<e>>, F)
    BY <1>1, <1>3, <1>7, <1>8, <2>1, TakeIs
  <2>3. q = <<>> /\ pump.reply.keys = {}
    BY <1>3, <1>8 DEF RestsEmpty, Idle, NoReply
  <2>4. inFlight' = UNION {Cl(F, <<e>>[i].m) : i \in DOMAIN <<e>>}
    <3>1. DOMAIN <<e>> = {1} /\ <<e>>[1] = e
      OBVIOUS
    <3>2. UNION {Cl(F, <<e>>[i].m) : i \in DOMAIN <<e>>} = Cl(F, m)
      BY <1>5, <3>1
    <3>3. inFlight = {}
      BY <1>3, <2>3 DEF Marks
    <3> QED
      BY <1>7, <3>2, <3>3
  <2>5. PumpInv(pump', prompts', inFlight', failed')
    BY <1>3, <1>7, <2>1, <2>2, <2>4, TakenKeeps
  <2>6. \A j \in DOMAIN <<e>> : <<e>>[j].m = m /\ <<e>>[j].awaited = w
    BY <1>5
  <2>7. \A i \in DOMAIN prompts' : \E j \in DOMAIN <<e>> : prompts'[i] = <<e>>[j]
    BY <2>2 DEF Taken
  <2>8. \A i \in DOMAIN pump'.bundle : \E j \in DOMAIN <<e>> : pump'.bundle[i] = <<e>>[j]
    BY <2>2 DEF Taken
  <2>9. \A k \in pump'.reply.keys : \E j \in DOMAIN pump'.bundle : pump'.bundle[j].awaited = w
    <3>1. \A k \in pump'.reply.keys : \E j \in DOMAIN pump'.bundle : TRUE
      BY <2>2 DEF Taken
    <3> QED
      BY <2>6, <2>8, <3>1
  <2> QED
    BY <2>5, <2>6, <2>7, <2>8, <2>9
<1>9. CASE pump.at # "off"
  <2>1. PICK r \in Seq(Entry) : r = Append(q, e)
    <3>1. Append(q, e) \in Seq(Entry)
      BY <1>2, <1>5
    <3> QED
      BY <3>1
  <2>2. /\ DOMAIN q = 1 .. Len(q) /\ Len(q) \in Nat /\ DOMAIN r = 1 .. Len(q) + 1
        /\ r[Len(q) + 1] = e /\ \A i \in 1 .. Len(q) : r[i] = q[i]
    BY <1>5, <2>1
  <2>3. \A i \in DOMAIN r : (i \in DOMAIN q /\ r[i] = q[i]) \/ (i = Len(q) + 1 /\ r[i] = e)
    <3> SUFFICES ASSUME NEW i \in DOMAIN r
                 PROVE  (i \in DOMAIN q /\ r[i] = q[i]) \/ (i = Len(q) + 1 /\ r[i] = e)
      OBVIOUS
    <3>1. i \in 1 .. Len(q) \/ i = Len(q) + 1
      BY <2>2
    <3>2. CASE i \in 1 .. Len(q)
      BY <2>2, <3>2
    <3>3. CASE i = Len(q) + 1
      BY <2>2, <3>3
    <3> QED
      BY <3>1, <3>2, <3>3
  <2>4. \A i \in DOMAIN q : i \in DOMAIN r /\ r[i] = q[i] /\ Cl(F, q[i].m) \subseteq inFlight
    BY <1>3, <2>2 DEF Marks
  <2>5. \A i \in DOMAIN r : r[i].resumes <=> F[r[i].m] # NoReply
    BY <1>3, <1>5, <2>3 DEF Orderly
  <2>6. \A i, j \in DOMAIN r : i # j => Cl(F, r[i].m) \cap Cl(F, r[j].m) = {}
    <3> SUFFICES ASSUME NEW i \in DOMAIN r, NEW j \in DOMAIN r, i # j
                 PROVE  Cl(F, r[i].m) \cap Cl(F, r[j].m) = {}
      OBVIOUS
    <3>1. CASE i \in DOMAIN q /\ r[i] = q[i] /\ j \in DOMAIN q /\ r[j] = q[j]
      BY <1>3, <3>1 DEF Orderly
    <3>2. CASE i \in DOMAIN q /\ r[i] = q[i] /\ r[j] = e
      BY <1>5, <1>6, <2>4, <3>2
    <3>3. CASE j \in DOMAIN q /\ r[j] = q[j] /\ r[i] = e
      BY <1>5, <1>6, <2>4, <3>3
    <3> QED
      BY <2>3, <3>1, <3>2, <3>3
  <2>7. pump.reply.keys \subseteq inFlight
    BY <1>3 DEF Marks
  <2>8. Apart(pump, r, F)
    BY <1>3, <1>5, <1>6, <2>3, <2>7 DEF Apart
  <2>9. Orderly(r, F)
    BY <2>5, <2>6 DEF Orderly
  <2>10. Marks(pump, r, inFlight \cup Cl(F, m), F)
    <3>1. Len(q) + 1 \in DOMAIN r /\ r[Len(q) + 1] = e
      BY <2>2
    <3>2. \A x \in Cl(F, m) : \E i \in DOMAIN r : x \in Cl(F, r[i].m)
      BY <1>5, <3>1
    <3>3. \A x \in inFlight : x \in pump.reply.keys \/ \E i \in DOMAIN r : x \in Cl(F, r[i].m)
      <4>1. \A x \in inFlight : x \in pump.reply.keys \/ \E i \in DOMAIN q : x \in Cl(F, q[i].m)
        BY <1>3 DEF Marks
      <4> QED
        BY <2>4, <4>1
    <3>4. \A i \in DOMAIN r : Cl(F, r[i].m) \subseteq inFlight \cup Cl(F, m)
      BY <1>5, <2>3, <2>4
    <3> QED
      BY <2>7, <3>2, <3>3, <3>4 DEF Marks
  <2>11. PumpInv(pump, r, inFlight \cup Cl(F, m), F)
    BY <1>3, <1>9, <2>8, <2>9, <2>10 DEF PumpInv, RestsEmpty
  <2>12. PumpInv(pump', prompts', inFlight', failed')
    BY <1>7, <1>9, <2>1, <2>11
  <2> QED
    BY <1>2, <1>5, <1>7, <1>9, <2>1, <2>3, <2>12
<1> QED
  BY <1>8, <1>9

(* A step of the pump within a delivery. *)
LEMMA WithinKeeps ==
  ASSUME NEW p \in PumpType, NEW q, NEW fl, NEW F, PumpInv(p, q, fl, F), p.at # "off",
         NEW s \in PumpType, s.at \in {"send", "notice"}, s.bundle = p.bundle, s.reply.keys = p.reply.keys
  PROVE  PumpInv(s, q, fl, F)
<1>1. /\ GroupsClosed(F) /\ PumpGroup(p, F) /\ BundleCovered(p) /\ F \in [Message -> Checkpoint]
      /\ Orderly(q, F) /\ Apart(p, q, F) /\ Marks(p, q, fl, F)
  BY DEF PumpInv
<1>2. PumpGroup(s, F) /\ RestsEmpty(s, q)
  BY <1>1 DEF PumpGroup, RestsEmpty
<1>3. BundleCovered(s) /\ Apart(s, q, F) /\ Marks(s, q, fl, F)
  BY <1>1 DEF BundleCovered, Apart, Marks
<1> QED
  BY <1>1, <1>2, <1>3 DEF PumpInv

LEMMA TurnEndsKeeps ==
  ASSUME PumpInv(pump, prompts, inFlight, failed), TurnEnds
  PROVE  PumpInv(pump', prompts', inFlight', failed') /\ pump'.bundle = pump.bundle
<1>1. PICK parts \in Parts : pump' = [pump EXCEPT !.at = "send", !.reply.left = parts]
  BY DEF TurnEnds
<1>2. pump \in PumpType /\ pump.at = "turn" /\ UNCHANGED <<prompts, inFlight, failed>>
  BY DEF TurnEnds, PumpInv
<1>3. pump.reply \in Checkpoint /\ pump.bundle \in Seq(Entry)
  BY <1>2 DEF PumpType
<1>4. pump' = [at |-> "send", bundle |-> pump.bundle, reply |-> [keys |-> pump.reply.keys, left |-> parts]]
  BY <1>1, <1>2, <1>3 DEF PumpType, Checkpoint
<1>5. pump' \in PumpType /\ pump'.at = "send" /\ pump'.bundle = pump.bundle /\ pump'.reply.keys = pump.reply.keys
  BY <1>3, <1>4 DEF PumpType, Checkpoint
<1> QED
  BY <1>2, <1>5, WithinKeeps

LEMMA SendPartKeeps ==
  ASSUME PumpInv(pump, prompts, inFlight, failed), SendPart
  PROVE  PumpInv(pump', prompts', inFlight', failed') /\ pump'.bundle = pump.bundle
<1>2. /\ pump \in PumpType /\ pump.at = "send" /\ UNCHANGED <<prompts, inFlight, failed>>
      /\ pump' = [pump EXCEPT !.reply.left = Delivered(@)] /\ pump.reply.left # <<>>
  BY DEF SendPart, PumpInv
<1>3. pump.reply \in Checkpoint /\ pump.bundle \in Seq(Entry) /\ pump.reply.left \in Parts
  BY <1>2 DEF PumpType, Checkpoint
<1>4. Tail(pump.reply.left) \in Parts
  <2>1. Tail(<<"text">>) = <<>> /\ Tail(<<"media">>) = <<>> /\ Tail(<<"text", "media">>) = <<"media">>
    OBVIOUS
  <2> QED
    BY <1>2, <1>3, <2>1 DEF Parts
<1>5. pump' = [at |-> "send", bundle |-> pump.bundle, reply |-> [keys |-> pump.reply.keys, left |-> Tail(pump.reply.left)]]
  BY <1>2, <1>3 DEF PumpType, Checkpoint, Delivered
<1>6. pump' \in PumpType /\ pump'.at = "send" /\ pump'.bundle = pump.bundle /\ pump'.reply.keys = pump.reply.keys
  BY <1>3, <1>4, <1>5 DEF PumpType, Checkpoint
<1> QED
  BY <1>2, <1>6, WithinKeeps

LEMMA TurnFailsKeeps ==
  ASSUME PumpInv(pump, prompts, inFlight, failed), TurnFails
  PROVE  PumpInv(pump', prompts', inFlight', failed') /\ pump'.bundle = pump.bundle
<1>2. /\ pump \in PumpType /\ pump.at = "turn" /\ UNCHANGED <<prompts, inFlight, failed>>
      /\ pump' = [pump EXCEPT !.at = "notice"]
  BY DEF TurnFails, PumpInv
<1>3. pump' \in PumpType /\ pump'.at = "notice" /\ pump'.bundle = pump.bundle /\ pump'.reply = pump.reply
  BY <1>2 DEF PumpType
<1> QED
  BY <1>2, <1>3, WithinKeeps

(* A failing send parks what is left of the reply under every message it answers. *)
LEMMA SendFailsKeeps ==
  ASSUME PumpInv(pump, prompts, inFlight, failed), SendFails
  PROVE  /\ PumpInv(pump', prompts', inFlight', failed') /\ pump'.bundle = pump.bundle
         /\ \A i \in DOMAIN prompts : Cl(failed', prompts[i].m) = Cl(failed, prompts[i].m)
<1>1. PICK F \in [Message -> Checkpoint] : F = failed
  BY DEF PumpInv
<1>2. /\ pump \in PumpType /\ pump.at = "send" /\ pump.reply.left # <<>> /\ UNCHANGED <<prompts, inFlight>>
      /\ pump' = [pump EXCEPT !.at = "notice"]
      /\ failed' = [m \in Message |-> IF m \in pump.reply.keys THEN pump.reply ELSE F[m]]
  BY <1>1 DEF SendFails, PumpInv
<1>3. /\ GroupsClosed(F) /\ PumpGroup(pump, F) /\ BundleCovered(pump) /\ Orderly(prompts, F)
      /\ Apart(pump, prompts, F) /\ Marks(pump, prompts, inFlight, F)
  BY <1>1 DEF PumpInv
<1>4. pump' \in PumpType /\ pump'.at = "notice" /\ pump'.bundle = pump.bundle /\ pump'.reply = pump.reply
  BY <1>2 DEF PumpType
<1>5. pump.reply \in Checkpoint /\ pump.reply.keys \subseteq Message /\ pump.reply # NoReply
  BY <1>2 DEF PumpType, Checkpoint, NoReply
<1>6. PICK G \in [Message -> Checkpoint] : G = failed'
  BY <1>2, <1>5
<1>7. /\ \A m \in pump.reply.keys : G[m] = pump.reply
      /\ \A m \in Message \ pump.reply.keys : G[m] = F[m]
  BY <1>2, <1>5, <1>6
<1>8. GroupsClosed(G)
  <2> SUFFICES ASSUME NEW m \in Message, G[m] # NoReply
               PROVE  m \in G[m].keys /\ \A k \in G[m].keys : G[k] = G[m]
    BY DEF GroupsClosed
  <2>1. CASE m \in pump.reply.keys
    BY <1>5, <1>7, <2>1
  <2>2. CASE m \notin pump.reply.keys
    <3>1. G[m] = F[m] /\ F[m].keys \cap pump.reply.keys = {} /\ F[m].keys \subseteq Message
      BY <1>2, <1>3, <1>7, <2>2, GroupsApart DEF Checkpoint
    <3>2. m \in F[m].keys /\ \A k \in F[m].keys : F[k] = F[m]
      BY <1>3, <3>1 DEF GroupsClosed
    <3> QED
      BY <1>7, <3>1, <3>2
  <2> QED
    BY <2>1, <2>2
<1>9. \A i \in DOMAIN prompts : G[prompts[i].m] = F[prompts[i].m] /\ Cl(G, prompts[i].m) = Cl(F, prompts[i].m)
  <2> SUFFICES ASSUME NEW i \in DOMAIN prompts PROVE G[prompts[i].m] = F[prompts[i].m]
    BY DEF Cl
  <2>1. prompts[i].m \in Message
    <3>1. prompts[i] \in Entry
      BY <1>3 DEF Orderly
    <3> QED
      BY <3>1 DEF Entry
  <2>2. prompts[i].m \notin pump.reply.keys
    BY <1>3, <2>1, ClaimsAre DEF Apart
  <2> QED
    BY <1>7, <2>1, <2>2
<1>10. Orderly(prompts, G)
  BY <1>3, <1>9 DEF Orderly
<1>11. Apart(pump', prompts, G) /\ Marks(pump', prompts, inFlight, G)
  BY <1>3, <1>4, <1>9 DEF Apart, Marks
<1>12. PumpGroup(pump', G) /\ RestsEmpty(pump', prompts) /\ BundleCovered(pump')
  BY <1>3, <1>4, <1>7 DEF PumpGroup, RestsEmpty, BundleCovered
<1> QED
  BY <1>1, <1>2, <1>4, <1>6, <1>8, <1>9, <1>10, <1>11, <1>12 DEF PumpInv

(* The pump drops what it worked for and takes the next bundle of what waits. *)
LEMMA ContinueKeeps ==
  ASSUME PumpInv(pump, prompts, inFlight, failed), Continue, inFlight' = Released,
         NEW G \in [Message -> Checkpoint], G = failed', GroupsClosed(G),
         \A k \in Message \ pump.reply.keys : G[k] = failed[k]
  PROVE  /\ PumpInv(pump', prompts', inFlight', failed')
         /\ Taken(pump', prompts', prompts, failed)
         /\ \A i \in DOMAIN prompts : Cl(failed', prompts[i].m) = Cl(failed, prompts[i].m)
<1>1. PICK F \in [Message -> Checkpoint] : F = failed
  BY DEF PumpInv
<1>2. /\ GroupsClosed(F) /\ Orderly(prompts, F) /\ Apart(pump, prompts, F)
      /\ Marks(pump, prompts, inFlight, F)
  BY <1>1 DEF PumpInv
<1>3. Taken(pump', prompts', prompts, F)
  BY <1>1, <1>2, TakeIs DEF Continue
<1>4. \A i \in DOMAIN prompts : Cl(F, prompts[i].m) \subseteq Message
  <2> SUFFICES ASSUME NEW i \in DOMAIN prompts PROVE Cl(F, prompts[i].m) \subseteq Message
    OBVIOUS
  <2>1. prompts[i] \in Entry
    BY <1>2 DEF Orderly
  <2>2. prompts[i].m \in Message
    BY <2>1 DEF Entry
  <2> QED
    BY <1>2, <2>2, ClaimsAre
<1>5. \A i \in DOMAIN prompts : \A k \in Cl(F, prompts[i].m) : G[k] = F[k]
  <2> SUFFICES ASSUME NEW i \in DOMAIN prompts, NEW k \in Cl(F, prompts[i].m) PROVE G[k] = F[k]
    OBVIOUS
  <2>1. k \in Message \ pump.reply.keys
    BY <1>2, <1>4 DEF Apart
  <2> QED
    BY <1>1, <2>1
<1>6. inFlight' = UNION {Cl(F, prompts[i].m) : i \in DOMAIN prompts}
  BY <1>2 DEF Released, Marks, Apart
<1>7. PumpInv(pump', prompts', inFlight', G)
  BY <1>2, <1>3, <1>5, <1>6, TakenKeeps
<1>8. \A i \in DOMAIN prompts : Cl(G, prompts[i].m) = Cl(F, prompts[i].m)
  <2> SUFFICES ASSUME NEW i \in DOMAIN prompts PROVE Cl(G, prompts[i].m) = Cl(F, prompts[i].m)
    OBVIOUS
  <2>1. prompts[i] \in Entry
    BY <1>2 DEF Orderly
  <2>2. prompts[i].m \in Message
    BY <2>1 DEF Entry
  <2>3. prompts[i].m \in Cl(F, prompts[i].m)
    BY <1>2, <2>2, ClaimsAre
  <2> QED
    BY <1>5, <2>3 DEF Cl
<1> QED
  BY <1>1, <1>3, <1>7, <1>8

LEMMA FinishKeeps ==
  ASSUME PumpInv(pump, prompts, inFlight, failed), Finish
  PROVE  /\ PumpInv(pump', prompts', inFlight', failed')
         /\ Taken(pump', prompts', prompts, failed)
         /\ \A i \in DOMAIN prompts : Cl(failed', prompts[i].m) = Cl(failed, prompts[i].m)
<1>1. PICK F \in [Message -> Checkpoint] : F = failed
  BY DEF PumpInv
<1>2. /\ pump \in PumpType /\ inFlight' = Released /\ Continue
      /\ failed' = [m \in Message |-> IF m \in pump.reply.keys THEN NoReply ELSE F[m]]
  BY <1>1 DEF Finish, PumpInv
<1>3. GroupsClosed(F) /\ PumpGroup(pump, F)
  BY <1>1 DEF PumpInv
<1>4. PICK G \in [Message -> Checkpoint] : G = failed'
  BY <1>2 DEF NoReply, Checkpoint, Parts
<1>5. /\ \A m \in Message : m \in pump.reply.keys => G[m] = NoReply
      /\ \A m \in Message \ pump.reply.keys : G[m] = F[m]
  BY <1>2, <1>4
<1>6. GroupsClosed(G)
  <2> SUFFICES ASSUME NEW m \in Message, G[m] # NoReply
               PROVE  m \in G[m].keys /\ \A k \in G[m].keys : G[k] = G[m]
    BY DEF GroupsClosed
  <2>1. m \notin pump.reply.keys
    BY <1>5
  <2>2. G[m] = F[m] /\ F[m].keys \cap pump.reply.keys = {} /\ F[m].keys \subseteq Message
    BY <1>2, <1>3, <1>5, <2>1, GroupsApart DEF Checkpoint
  <2>3. m \in F[m].keys /\ \A k \in F[m].keys : F[k] = F[m]
    BY <1>3, <2>2 DEF GroupsClosed
  <2> QED
    BY <1>5, <2>2, <2>3
<1> QED
  BY <1>1, <1>2, <1>4, <1>5, <1>6, ContinueKeeps

LEMMA NoticeKeeps ==
  ASSUME PumpInv(pump, prompts, inFlight, failed), Notice
  PROVE  /\ PumpInv(pump', prompts', inFlight', failed')
         /\ Taken(pump', prompts', prompts, failed)
         /\ \A i \in DOMAIN prompts : Cl(failed', prompts[i].m) = Cl(failed, prompts[i].m)
<1>1. PICK F \in [Message -> Checkpoint] : F = failed
  BY DEF PumpInv
<1>2. inFlight' = Released /\ Continue /\ failed' = F /\ GroupsClosed(F)
  BY <1>1 DEF Notice, PumpInv
<1> QED
  BY <1>1, <1>2, ContinueKeeps

(* Records run out for a whole checkpoint at once, and not while an entry waits to resume it. *)
LEMMA ForgetKeeps ==
  ASSUME PumpInv(pump, prompts, inFlight, failed), Forget
  PROVE  /\ PumpInv(pump', prompts', inFlight', failed')
         /\ \A i \in DOMAIN prompts : Cl(failed', prompts[i].m) = Cl(failed, prompts[i].m)
<1>1. PICK F \in [Message -> Checkpoint] : F = failed
  BY DEF PumpInv
<1>2. /\ pump \in PumpType /\ GroupsClosed(F) /\ RestsEmpty(pump, prompts) /\ PumpGroup(pump, F)
      /\ BundleCovered(pump) /\ Orderly(prompts, F) /\ Apart(pump, prompts, F)
      /\ Marks(pump, prompts, inFlight, F)
  BY <1>1 DEF PumpInv
<1>3. UNCHANGED <<prompts, pump, inFlight>>
  BY DEF Forget
<1>4. CASE UNCHANGED failed
  BY <1>3, <1>4
<1>5. ASSUME NEW m \in Message, F[m] # NoReply,
             ~\E i \in DOMAIN prompts : prompts[i].resumes /\ prompts[i].m \in F[m].keys,
             failed' = [k \in Message |-> IF k \in F[m].keys THEN NoReply ELSE F[k]]
      PROVE  /\ PumpInv(pump', prompts', inFlight', failed')
             /\ \A i \in DOMAIN prompts : Cl(failed', prompts[i].m) = Cl(failed, prompts[i].m)
  <2>1. PICK G \in [Message -> Checkpoint] : G = failed'
    BY <1>5 DEF NoReply, Checkpoint, Parts
  <2>2. \A k \in Message : G[k] = IF k \in F[m].keys THEN NoReply ELSE F[k]
    BY <1>5, <2>1
  <2>3. \A k \in F[m].keys : F[k] = F[m]
    BY <1>2, <1>5 DEF GroupsClosed
  <2>4. GroupsClosed(G)
    <3> SUFFICES ASSUME NEW n \in Message, G[n] # NoReply
                 PROVE  n \in G[n].keys /\ \A k \in G[n].keys : G[k] = G[n]
      BY DEF GroupsClosed
    <3>1. n \notin F[m].keys /\ G[n] = F[n]
      BY <2>2
    <3>2. n \in F[n].keys /\ \A k \in F[n].keys : F[k] = F[n]
      BY <1>2, <3>1 DEF GroupsClosed
    <3>3. F[n].keys \subseteq Message
      BY DEF Checkpoint
    <3>4. F[n].keys \cap F[m].keys = {}
      BY <2>3, <3>1, <3>2
    <3> QED
      BY <2>2, <3>1, <3>2, <3>3, <3>4
  <2>5. \A i \in DOMAIN prompts : G[prompts[i].m] = F[prompts[i].m] /\ Cl(G, prompts[i].m) = Cl(F, prompts[i].m)
    <3> SUFFICES ASSUME NEW i \in DOMAIN prompts PROVE G[prompts[i].m] = F[prompts[i].m]
      BY DEF Cl
    <3>1. prompts[i] \in Entry /\ (prompts[i].resumes <=> F[prompts[i].m] # NoReply)
      BY <1>2 DEF Orderly
    <3>2. prompts[i].m \in Message
      BY <3>1 DEF Entry
    <3>3. prompts[i].m \notin F[m].keys
      BY <1>5, <2>3, <3>1
    <3> QED
      BY <2>2, <3>2, <3>3
  <2>6. pump.reply.keys \subseteq Message
    BY <1>2 DEF PumpType, Checkpoint
  <2>7. PumpGroup(pump, G)
    BY <1>2, <2>2, <2>6 DEF PumpGroup
  <2>8. Orderly(prompts, G)
    BY <1>2, <2>5 DEF Orderly
  <2>9. Apart(pump, prompts, G) /\ Marks(pump, prompts, inFlight, G)
    BY <1>2, <2>5 DEF Apart, Marks
  <2> QED
    BY <1>1, <1>2, <1>3, <2>1, <2>4, <2>5, <2>7, <2>8, <2>9 DEF PumpInv
<1> QED
  BY <1>1, <1>4, <1>5 DEF Forget, Resumable

LEMMA RestKeeps ==
  PumpInv(Idle, <<>>, {}, [m \in Message |-> NoReply])
<1>1. NoReply \in Checkpoint /\ NoReply.keys = {}
  BY DEF NoReply, Checkpoint, Parts
<1>2. Idle \in PumpType /\ Idle.bundle = <<>> /\ Idle.reply = NoReply
  BY <1>1 DEF Idle, PumpType
<1>3. [m \in Message |-> NoReply] \in [Message -> Checkpoint] /\ GroupsClosed([m \in Message |-> NoReply])
  BY <1>1 DEF GroupsClosed
<1>4. Keys(Idle.bundle) = {}
  BY <1>2 DEF Keys
<1>5. Orderly(<<>>, [m \in Message |-> NoReply])
  BY DEF Orderly
<1> QED
  BY <1>1, <1>2, <1>3, <1>4, <1>5
     DEF PumpInv, RestsEmpty, PumpGroup, BundleCovered, Apart, Marks

LEMMA MarksTyped ==
  ASSUME NEW p, NEW q, NEW fl, NEW F, PumpInv(p, q, fl, F)
  PROVE  fl \subseteq Message
<1>1. p \in PumpType /\ F \in [Message -> Checkpoint] /\ GroupsClosed(F) /\ Orderly(q, F) /\ Marks(p, q, fl, F)
  BY DEF PumpInv
<1>2. p.reply.keys \subseteq Message
  BY <1>1 DEF PumpType, Checkpoint
<1>3. \A i \in DOMAIN q : Cl(F, q[i].m) \subseteq Message
  <2> SUFFICES ASSUME NEW i \in DOMAIN q PROVE Cl(F, q[i].m) \subseteq Message
    OBVIOUS
  <2>1. q[i] \in Entry
    BY <1>1 DEF Orderly
  <2>2. q[i].m \in Message
    BY <2>1 DEF Entry
  <2> QED
    BY <1>1, <2>2, ClaimsAre
<1> QED
  BY <1>1, <1>2, <1>3 DEF Marks

(* Every step keeps the pump's part. *)
LEMMA PumpStep ==
  ASSUME MarksInv, Next
  PROVE  PumpInv(pump', prompts', inFlight', failed')
<1>1. PumpInv(pump, prompts, inFlight, failed) /\ TypeOK /\ BatchQueued(drain, queue)
  BY DEF MarksInv
<1>2. CASE UNCHANGED pumping
  BY <1>1, <1>2 DEF pumping
<1>3. CASE GoOn
  <2>1. Head(tail).of \in Message
    <3>1. tail # <<>> /\ Head(tail).kind = "message"
      BY <1>3 DEF GoOn, Running
    <3>2. Head(tail) \in [kind : {"begin", "end"}, of : Activity, at : {"start"}]
                         \cup [kind : {"message"}, of : Message, at : {"start", "insert"}]
      BY <1>1, <3>1 DEF TypeOK
    <3> QED
      BY <3>1, <3>2
  <2>2. CASE Dropped(Head(tail).of)
    BY <1>2, <1>3, <2>2 DEF GoOn
  <2>3. CASE ~Dropped(Head(tail).of)
    BY <1>1, <1>3, <2>1, <2>3, AdmitKeeps DEF GoOn
  <2> QED
    BY <2>2, <2>3
<1>4. CASE DeliverNext
  <2>1. CASE UNCHANGED pumping
    BY <1>2, <2>1
  <2>2. CASE drain.batch # <<>> /\ ~Dropped(Head(drain.batch)) /\ Admit(Head(drain.batch), TRUE)
    <3>1. Head(drain.batch) \in Message
      BY <1>1, <2>2 DEF BatchQueued
    <3> QED
      BY <1>1, <2>2, <3>1, AdmitKeeps
  <2> QED
    BY <1>4, <2>1, <2>2 DEF DeliverNext
<1>5. CASE Pump
  BY <1>1, <1>5, TurnEndsKeeps, TurnFailsKeeps, SendPartKeeps, SendFailsKeeps, FinishKeeps, NoticeKeeps DEF Pump
<1>6. CASE Forget
  BY <1>1, <1>6, ForgetKeeps
<1>7. CASE Crash
  BY <1>7, RestKeeps DEF Crash
<1>8. CASE \E m \in Message : Arrive(m)
  BY <1>2, <1>8 DEF Arrive
<1>9. CASE \E a \in Activity : BeginActivity(a) \/ EndActivity(a)
  BY <1>2, <1>9 DEF BeginActivity, EndActivity
<1>10. CASE Hold \/ Insert \/ AdmissionFails \/ Transition \/ RetryTimer
  BY <1>2, <1>10 DEF Hold, Insert, AdmissionFails, Transition, Publish, PublishFails, RetryTimer
<1>11. CASE ListPending \/ Acknowledge \/ DrainFails
  BY <1>2, <1>11 DEF ListPending, Acknowledge, DrainFails
<1> QED
  BY <1>3, <1>4, <1>5, <1>6, <1>7, <1>8, <1>9, <1>10, <1>11 DEF Next, Admission, DrainStep

-----------------------------------------------------------------------------
(* The availability state and its tail of requests *)

TailType == Seq([kind : {"begin", "end"}, of : Activity, at : {"start"}]
                \cup [kind : {"message"}, of : Message, at : {"start", "insert"}])

AvailType ==
  /\ current \in {"available", "idle", "do_not_disturb"} /\ ahead \in BOOLEAN
  /\ act \in [Activity -> Stages]
  /\ tail \in TailType

LEMMA AvailStep ==
  ASSUME TypeOK, Next
  PROVE  AvailType'
<1>1. AvailType
  BY DEF TypeOK, AvailType, TailType
<1>2. CASE UNCHANGED <<availability, tail>>
  BY <1>1, <1>2 DEF AvailType, availability
<1>3. tail # <<>> => Tail(tail) \in TailType
  BY <1>1 DEF AvailType, TailType
<1>4. ASSUME NEW m \in Message, Arrive(m) PROVE AvailType'
  <2>1. [kind |-> "message", of |-> m, at |-> "start"] \in [kind : {"message"}, of : Message, at : {"start", "insert"}]
    OBVIOUS
  <2>2. Append(tail, [kind |-> "message", of |-> m, at |-> "start"]) \in TailType
    BY <1>1, <2>1 DEF AvailType, TailType
  <2> QED
    BY <1>1, <1>4, <2>2 DEF AvailType, availability, Arrive, Request
<1>5. ASSUME NEW a \in Activity, BeginActivity(a) \/ EndActivity(a) PROVE AvailType'
  <2>1. \A k \in {"begin", "end"} :
          [kind |-> k, of |-> a, at |-> "start"] \in [kind : {"begin", "end"}, of : Activity, at : {"start"}]
    OBVIOUS
  <2>2. \A k \in {"begin", "end"} : Append(tail, [kind |-> k, of |-> a, at |-> "start"]) \in TailType
    BY <1>1, <2>1 DEF AvailType, TailType
  <2>3. tail' \in TailType
    BY <1>5, <2>2 DEF BeginActivity, EndActivity, Request
  <2>4. act' \in [Activity -> Stages]
    BY <1>1, <1>5 DEF BeginActivity, EndActivity, AvailType, Stages
  <2> QED
    BY <1>1, <1>5, <2>3, <2>4 DEF AvailType, BeginActivity, EndActivity
<1>6. CASE GoOn \/ Insert \/ AdmissionFails
  BY <1>1, <1>3, <1>6 DEF GoOn, Insert, AdmissionFails, AvailType, availability, Running
<1>7. CASE Hold
  <2>1. tail # <<>> /\ Head(tail).kind = "message"
    BY <1>7 DEF Hold, Running
  <2>2. Head(tail) \in [kind : {"begin", "end"}, of : Activity, at : {"start"}]
                       \cup [kind : {"message"}, of : Message, at : {"start", "insert"}]
    BY <1>1, <2>1 DEF AvailType, TailType
  <2>3. Head(tail) \in [kind : {"message"}, of : Message, at : {"start", "insert"}]
    BY <2>1, <2>2
  <2>4. [Head(tail) EXCEPT !.at = "insert"] \in [kind : {"message"}, of : Message, at : {"start", "insert"}]
    BY <2>3
  <2>5. <<[Head(tail) EXCEPT !.at = "insert"]>> \in TailType
    BY <2>4 DEF TailType
  <2>6. tail' \in TailType
    BY <1>3, <1>7, <2>1, <2>5 DEF Hold, TailType
  <2> QED
    BY <1>1, <1>7, <2>6 DEF AvailType, Hold, availability
<1>8. CASE Transition
  <2>1. tail # <<>> /\ tail' = Tail(tail)
    BY <1>8 DEF Transition, Publish, PublishFails, Running, Settle
  <2>2. act' \in [Activity -> Stages]
    BY <1>1, <1>8 DEF AvailType, Transition, Publish, PublishFails, Settle, Stages
  <2>3. current' \in {"available", "idle", "do_not_disturb"}
    BY <1>1, <1>8 DEF AvailType, Transition, Publish, PublishFails, Wanted, Derived
  <2>4. ahead' \in BOOLEAN
    BY <1>1, <1>8, Zenon DEF AvailType, Transition, Publish, PublishFails
  <2> QED
    BY <1>3, <2>1, <2>2, <2>3, <2>4 DEF AvailType
<1>9. CASE Pump
  BY <1>2, <1>9 DEF Pump, TurnEnds, TurnFails, SendPart, SendFails, Finish, Notice
<1>10. CASE DrainStep \/ RetryTimer \/ Forget
  BY <1>2, <1>10 DEF DrainStep, ListPending, DeliverNext, Acknowledge, DrainFails, RetryTimer, Forget
<1>11. CASE Crash
  <2>1. act' \in [Activity -> Stages]
    BY <1>1, <1>11 DEF AvailType, Crash, Stages
  <2>2. tail' \in TailType
    BY <1>11 DEF Crash, TailType
  <2>3. current' = "available" /\ ahead' \in BOOLEAN
    BY <1>11 DEF Crash
  <2> QED
    BY <2>1, <2>2, <2>3 DEF AvailType
<1> QED
  BY <1>4, <1>5, <1>6, <1>7, <1>8, <1>9, <1>10, <1>11 DEF Next, Admission

-----------------------------------------------------------------------------
(* Counters and records *)

RecordsType ==
  /\ copies \in [Message -> Nat] /\ said \in [Message -> {"no", "part", "whole", "again"}]
  /\ forgotten \subseteq Message /\ replied \subseteq Message /\ recent \subseteq Message
  /\ turnedAway \subseteq Message

LEMMA RecordsStep ==
  ASSUME MarksInv, Next
  PROVE  RecordsType'
<1>1. RecordsType /\ pump.reply.keys \subseteq Message /\ failed \in [Message -> Checkpoint]
  BY DEF MarksInv, TypeOK, RecordsType, Checkpoint
<1>2. CASE UNCHANGED <<copies, said, forgotten, replied, recent, turnedAway>>
  BY <1>1, <1>2 DEF RecordsType
<1>3. CASE \E m \in Message : Arrive(m)
  BY <1>1, <1>3 DEF RecordsType, Arrive, pumping
<1>4. CASE \E a \in Activity : BeginActivity(a) \/ EndActivity(a)
  BY <1>2, <1>4 DEF BeginActivity, EndActivity, pumping, ghost
<1>5. CASE GoOn \/ Hold \/ Insert
  BY <1>2, <1>5 DEF GoOn, Hold, Insert, Admit, pumping, ghost
<1>51. CASE AdmissionFails
  <2>1. tail # <<>> /\ Head(tail).kind = "message" /\ tail \in TailType
    BY <1>51 DEF AdmissionFails, Running, MarksInv, TypeOK, TailType
  <2>2. Head(tail) \in [kind : {"begin", "end"}, of : Activity, at : {"start"}]
                       \cup [kind : {"message"}, of : Message, at : {"start", "insert"}]
    BY <2>1 DEF TailType
  <2>3. Head(tail).of \in Message
    BY <2>1, <2>2
  <2> QED
    BY <1>1, <1>51, <2>3 DEF AdmissionFails, RecordsType, pumping
<1>6. CASE Transition \/ RetryTimer
  BY <1>2, <1>6 DEF Transition, Publish, PublishFails, RetryTimer, pumping, ghost
<1>7. CASE TurnEnds \/ TurnFails \/ Notice
  BY <1>2, <1>7 DEF TurnEnds, TurnFails, Notice, ghost
<1>8. CASE SendPart \/ SendFails
  <2>1. \A x \in {"part", "whole"} : Say(x) => said' \in [Message -> {"no", "part", "whole", "again"}]
    BY <1>1 DEF Say, RecordsType
  <2> QED
    BY <1>1, <1>8, <2>1 DEF SendPart, SendFails, RecordsType
<1>9. CASE Finish
  BY <1>1, <1>9 DEF Finish, RecordsType
<1>10. CASE DrainStep
  BY <1>2, <1>10 DEF DrainStep, ListPending, DeliverNext, Acknowledge, DrainFails, Admit, pumping, ghost
<1>11. CASE Forget
  <2>1. \A m \in Message : failed[m].keys \subseteq Message
    BY <1>1 DEF Checkpoint
  <2> QED
    BY <1>1, <1>11, <2>1 DEF Forget, RecordsType
<1>12. CASE Crash
  BY <1>1, <1>12 DEF Crash, RecordsType
<1> QED
  BY <1>3, <1>4, <1>5, <1>51, <1>6, <1>7, <1>8, <1>9, <1>10, <1>11, <1>12 DEF Next, Pump, Admission

-----------------------------------------------------------------------------
(* The durable queue *)

LEMMA RemoveAtIs ==
  ASSUME NEW s \in Seq(Message), NEW i \in DOMAIN s
  PROVE  /\ RemoveAt(s, i) \in Seq(Message)
         /\ Len(RemoveAt(s, i)) = Len(s) - 1
         /\ \A k \in 1 .. Len(s) - 1 : RemoveAt(s, i)[k] = IF k < i THEN s[k] ELSE s[k + 1]
<1>1. i \in 1 .. Len(s) /\ Len(s) \in Nat
  OBVIOUS
<1> DEFINE a == SubSeq(s, 1, i - 1)
           b == SubSeq(s, i + 1, Len(s))
<1>2. a \in Seq(Message) /\ Len(a) = i - 1 /\ \A k \in 1 .. i - 1 : a[k] = s[k]
  BY <1>1
<1>3. b \in Seq(Message) /\ Len(b) = Len(s) - i /\ \A k \in 1 .. Len(s) - i : b[k] = s[i + k]
  BY <1>1
<1> HIDE DEF a, b
<1>4. /\ a \o b \in Seq(Message) /\ Len(a \o b) = Len(s) - 1
      /\ \A k \in 1 .. Len(s) - 1 : (a \o b)[k] = IF k <= i - 1 THEN a[k] ELSE b[k - (i - 1)]
  BY <1>1, <1>2, <1>3
<1>5. \A k \in 1 .. Len(s) - 1 : (a \o b)[k] = IF k < i THEN s[k] ELSE s[k + 1]
  <2> SUFFICES ASSUME NEW k \in 1 .. Len(s) - 1
               PROVE  (a \o b)[k] = IF k < i THEN s[k] ELSE s[k + 1]
    OBVIOUS
  <2>1. CASE k < i
    BY <1>1, <1>2, <1>4, <2>1
  <2>2. CASE ~(k < i)
    <3>1. (a \o b)[k] = b[k - (i - 1)]
      BY <1>1, <1>4, <2>2
    <3>2. k - (i - 1) \in 1 .. Len(s) - i /\ i + (k - (i - 1)) = k + 1
      BY <1>1, <2>2
    <3>3. b[k - (i - 1)] = s[i + (k - (i - 1))]
      BY <1>3, <3>2
    <3> QED
      BY <2>2, <3>1, <3>2, <3>3
  <2> QED
    BY <2>1, <2>2
<1>6. RemoveAt(s, i) = a \o b
  BY DEF RemoveAt, a, b
<1> QED
  BY <1>4, <1>5, <1>6

(* Acknowledging a message removes its row and no other. *)
LEMMA RowRemoved ==
  ASSUME NEW m \in Message, queue \in Seq(Message), IsInjective(queue), Contains(queue, m)
  PROVE  /\ RemoveAt(queue, Row(m)) \in Seq(Message) /\ IsInjective(RemoveAt(queue, Row(m)))
         /\ \A n : Contains(RemoveAt(queue, Row(m)), n) <=> Contains(queue, n) /\ n # m
<1>1. PICK s \in Seq(Message) : s = queue
  OBVIOUS
<1>2. PICK i \in DOMAIN s : i = Row(m) /\ s[i] = m
  <2>1. \E k \in DOMAIN s : s[k] = m
    BY <1>1 DEF Contains
  <2> QED
    BY <1>1, <2>1 DEF Row
<1> DEFINE r == RemoveAt(s, i)
           At(k) == IF k < i THEN k ELSE k + 1
<1>3. i \in 1 .. Len(s) /\ Len(s) \in Nat /\ DOMAIN s = 1 .. Len(s)
  BY <1>1, <1>2
<1>4. r \in Seq(Message) /\ Len(r) = Len(s) - 1
  BY <1>1, <1>2, RemoveAtIs
<1>5. DOMAIN r = 1 .. Len(s) - 1 /\ DOMAIN r = 1 .. Len(r)
  BY <1>3, <1>4
<1>6. \A k \in DOMAIN r : At(k) \in DOMAIN s /\ At(k) # i /\ r[k] = s[At(k)]
  <2> SUFFICES ASSUME NEW k \in DOMAIN r PROVE At(k) \in DOMAIN s /\ At(k) # i /\ r[k] = s[At(k)]
    OBVIOUS
  <2>1. r[k] = IF k < i THEN s[k] ELSE s[k + 1]
    BY <1>1, <1>2, <1>5, RemoveAtIs
  <2>2. At(k) \in DOMAIN s /\ At(k) # i
    BY <1>3, <1>5
  <2> QED
    BY <2>1, <2>2
<1>7. \A k, l \in DOMAIN r : At(k) = At(l) => k = l
  BY <1>3, <1>5
<1>8. \A j \in DOMAIN s : j # i => \E k \in DOMAIN r : At(k) = j
  <2> SUFFICES ASSUME NEW j \in DOMAIN s, j # i PROVE \E k \in DOMAIN r : At(k) = j
    OBVIOUS
  <2>1. CASE j < i
    BY <1>3, <1>5, <2>1
  <2>2. CASE j > i
    <3>1. j - 1 \in DOMAIN r /\ At(j - 1) = j
      BY <1>3, <1>5, <2>2
    <3> QED
      BY <3>1
  <2> QED
    BY <1>3, <2>1, <2>2
<1> HIDE DEF r, At
<1>9. \A j, k \in DOMAIN s : s[j] = s[k] => j = k
  BY <1>1 DEF IsInjective
<1>10. IsInjective(r)
  BY <1>6, <1>7, <1>9 DEF IsInjective
<1>11. \A n : Contains(r, n) <=> \E k \in DOMAIN r : r[k] = n
  BY <1>5 DEF Contains
<1>12. \A n : Contains(s, n) <=> \E k \in DOMAIN s : s[k] = n
  BY <1>3 DEF Contains
<1>13. \A n : Contains(r, n) <=> Contains(s, n) /\ n # m
  <2> TAKE n
  <2>1. ASSUME Contains(r, n) PROVE Contains(s, n) /\ n # m
    <3>1. PICK k \in DOMAIN r : r[k] = n
      BY <1>11, <2>1
    <3> QED
      BY <1>2, <1>6, <1>9, <1>12, <3>1
  <2>2. ASSUME Contains(s, n), n # m PROVE Contains(r, n)
    <3>1. PICK j \in DOMAIN s : s[j] = n
      BY <1>12, <2>2
    <3>2. PICK k \in DOMAIN r : At(k) = j
      BY <1>2, <1>8, <2>2, <3>1
    <3> QED
      BY <1>6, <1>11, <3>1, <3>2
  <2> QED
    BY <2>1, <2>2
<1> QED
  BY <1>1, <1>2, <1>4, <1>10, <1>13 DEF r

(* A message that has a row gets no other one. *)
LEMMA RowAdded ==
  ASSUME NEW m \in Message, queue \in Seq(Message), IsInjective(queue)
  PROVE  /\ Rows(m) \in Seq(Message) /\ IsInjective(Rows(m))
         /\ \A n : Contains(Rows(m), n) <=> Contains(queue, n) \/ n = m
<1>1. CASE Contains(queue, m)
  BY <1>1 DEF Rows
<1>2. CASE ~Contains(queue, m)
  <2>1. PICK s \in Seq(Message) : s = queue
    OBVIOUS
  <2>2. PICK r \in Seq(Message) : r = Append(s, m)
    <3>1. Append(s, m) \in Seq(Message)
      BY <2>1
    <3> QED
      BY <3>1
  <2>3. /\ DOMAIN s = 1 .. Len(s) /\ Len(s) \in Nat /\ DOMAIN r = 1 .. Len(s) + 1 /\ Len(r) = Len(s) + 1
        /\ r[Len(s) + 1] = m /\ \A i \in 1 .. Len(s) : r[i] = s[i]
    BY <2>1, <2>2
  <2>4. \A i \in 1 .. Len(s) : s[i] # m
    BY <1>2, <2>1 DEF Contains
  <2>5. \A j, k \in 1 .. Len(s) : s[j] = s[k] => j = k
    BY <2>1, <2>3 DEF IsInjective
  <2>6. \A k \in 1 .. Len(s) + 1 : k \in 1 .. Len(s) \/ k = Len(s) + 1
    BY <2>3
  <2>7. IsInjective(r)
    BY <2>3, <2>4, <2>5, <2>6 DEF IsInjective
  <2>8. \A n : Contains(r, n) <=> Contains(s, n) \/ n = m
    <3> TAKE n
    <3>1. ASSUME Contains(r, n) PROVE Contains(s, n) \/ n = m
      BY <2>3, <2>6, <3>1 DEF Contains
    <3>2. ASSUME Contains(s, n) PROVE Contains(r, n)
      <4>1. PICK i \in 1 .. Len(s) : s[i] = n
        BY <3>2 DEF Contains
      <4>2. i \in 1 .. Len(r) /\ r[i] = n
        BY <2>3, <4>1
      <4> QED
        BY <4>2 DEF Contains
    <3>3. Contains(r, m)
      <4>1. Len(s) + 1 \in 1 .. Len(r) /\ r[Len(s) + 1] = m
        BY <2>3
      <4> QED
        BY <4>1 DEF Contains
    <3> QED
      BY <3>1, <3>2, <3>3
  <2> QED
    BY <1>2, <2>1, <2>2, <2>7, <2>8 DEF Rows
<1> QED
  BY <1>1, <1>2

(* The batch the drain lists. *)
LEMMA BatchListed ==
  ASSUME NEW s \in Seq(Message), IsInjective(s), NEW n \in 0 .. Len(s)
  PROVE  /\ SubSeq(s, 1, n) \in Seq(Message) /\ IsInjective(SubSeq(s, 1, n))
         /\ \A k \in DOMAIN SubSeq(s, 1, n) : Contains(s, SubSeq(s, 1, n)[k])
<1>1. Len(s) \in Nat /\ n \in Nat /\ n <= Len(s) /\ DOMAIN s = 1 .. Len(s)
  OBVIOUS
<1> DEFINE b == SubSeq(s, 1, n)
<1>2. b \in Seq(Message)
  BY <1>1
<1>3. Len(b) = n /\ \A i \in 1 .. n : b[i] = s[i]
  BY <1>1
<1>4. DOMAIN b = 1 .. n /\ 1 .. n \subseteq 1 .. Len(s)
  BY <1>1, <1>2, <1>3
<1> HIDE DEF b
<1>5. IsInjective(b)
  BY <1>1, <1>3, <1>4 DEF IsInjective
<1>6. \A k \in DOMAIN b : Contains(s, b[k])
  BY <1>3, <1>4 DEF Contains
<1> QED
  BY <1>2, <1>5, <1>6 DEF b

LEMMA BatchTail ==
  ASSUME NEW s \in Seq(Message), IsInjective(s), s # <<>>
  PROVE  /\ Tail(s) \in Seq(Message) /\ IsInjective(Tail(s)) /\ Head(s) \in Message
         /\ \A k \in DOMAIN Tail(s) : Tail(s)[k] # Head(s) /\ \E j \in DOMAIN s : Tail(s)[k] = s[j]
<1>1. Len(s) \in Nat \ {0} /\ DOMAIN s = 1 .. Len(s) /\ Head(s) = s[1]
  OBVIOUS
<1> DEFINE b == Tail(s)
<1>2. b \in Seq(Message)
  BY <1>1
<1>3. Len(b) = Len(s) - 1 /\ \A i \in 1 .. Len(s) - 1 : b[i] = s[i + 1]
  BY <1>1
<1>4. DOMAIN b = 1 .. Len(s) - 1
  BY <1>1, <1>2, <1>3
<1> HIDE DEF b
<1>5. \A i \in DOMAIN b : i + 1 \in DOMAIN s /\ i + 1 # 1 /\ b[i] = s[i + 1]
  BY <1>1, <1>3, <1>4
<1>6. IsInjective(b)
  <2> SUFFICES ASSUME NEW i \in DOMAIN b, NEW j \in DOMAIN b, b[i] = b[j] PROVE i = j
    BY DEF IsInjective
  <2>1. i + 1 = j + 1
    BY <1>5 DEF IsInjective
  <2> QED
    BY <1>1, <1>4, <2>1
<1>7. 1 \in DOMAIN s
  BY <1>1
<1>8. \A k \in DOMAIN b : b[k] # Head(s) /\ \E j \in DOMAIN s : b[k] = s[j]
  BY <1>1, <1>5, <1>7 DEF IsInjective
<1> QED
  BY <1>1, <1>2, <1>6, <1>7, <1>8 DEF b

-----------------------------------------------------------------------------
(* The drain *)

DrainType ==
  /\ drain \in [at : {"off", "list", "next", "await", "ack"}, batch : Seq(Message)]
  /\ owed \in BOOLEAN /\ retry \in BOOLEAN

DrainInv ==
  /\ DrainType /\ queue \in Seq(Message) /\ IsInjective(queue)
  /\ AwaitedIsHead(pump, prompts, drain) /\ BatchQueued(drain, queue)

NoneAwaited(p, q) ==
  (\A i \in DOMAIN q : ~q[i].awaited) /\ (\A i \in DOMAIN p.bundle : ~p.bundle[i].awaited)

LEMMA NoneBut ==
  ASSUME NEW p, NEW q, NEW d, AwaitedIsHead(p, q, d), d.at # "await"
  PROVE  NoneAwaited(p, q)
BY DEF AwaitedIsHead, NoneAwaited

LEMMA NoneIsFine ==
  ASSUME NEW p, NEW q, NEW d, NoneAwaited(p, q)
  PROVE  AwaitedIsHead(p, q, d)
BY DEF AwaitedIsHead, NoneAwaited

LEMMA EmptyBatch ==
  ASSUME NEW d, d.batch = <<>>, d.at \notin {"await", "ack"}, NEW rows
  PROVE  BatchQueued(d, rows)
<1>1. <<>> \in Seq(Message) /\ DOMAIN <<>> = {}
  OBVIOUS
<1>2. IsInjective(<<>>)
  BY <1>1 DEF IsInjective
<1> QED
  BY <1>1, <1>2 DEF BatchQueued

LEMMA BatchlessTyped ==
  ASSUME NEW at \in {"off", "list"}
  PROVE  [at |-> at, batch |-> <<>>] \in [at : {"off", "list", "next", "await", "ack"}, batch : Seq(Message)]
<1>1. <<>> \in Seq(Message)
  OBVIOUS
<1> QED
  BY <1>1

LEMMA ScheduleKeeps ==
  ASSUME DrainInv, ScheduleDrain, UNCHANGED <<pump, prompts>>, NEW rows,
         \A n : Contains(queue, n) => Contains(rows, n)
  PROVE  DrainType' /\ AwaitedIsHead(pump', prompts', drain') /\ BatchQueued(drain', rows)
<1>1. DrainType /\ AwaitedIsHead(pump, prompts, drain) /\ BatchQueued(drain, queue)
  BY DEF DrainInv
<1>2. CASE drain.at = "off"
  <2>1. drain' = [at |-> "list", batch |-> <<>>] /\ owed' = FALSE /\ retry' = FALSE
    BY <1>2 DEF ScheduleDrain
  <2>2. DrainType'
    <3>1. drain' \in [at : {"off", "list", "next", "await", "ack"}, batch : Seq(Message)]
      BY <2>1, BatchlessTyped
    <3>2. owed' \in BOOLEAN /\ retry' \in BOOLEAN
      BY <2>1
    <3> QED
      BY <3>1, <3>2 DEF DrainType
  <2>3. NoneAwaited(pump, prompts)
    BY <1>1, <1>2, NoneBut
  <2>4. AwaitedIsHead(pump, prompts, drain')
    BY <2>3, NoneIsFine
  <2>5. BatchQueued(drain', rows)
    BY <2>1, EmptyBatch
  <2> QED
    BY <2>2, <2>4, <2>5
<1>3. CASE drain.at # "off"
  <2>1. drain' = drain /\ owed' = TRUE /\ retry' = FALSE
    BY <1>3 DEF ScheduleDrain
  <2> QED
    BY <1>1, <2>1 DEF DrainType, BatchQueued
<1> QED
  BY <1>2, <1>3

LEMMA SameKeeps ==
  ASSUME DrainInv, UNCHANGED draining, UNCHANGED <<pump, prompts>>, NEW rows,
         \A n : Contains(queue, n) => Contains(rows, n)
  PROVE  DrainType' /\ AwaitedIsHead(pump', prompts', drain') /\ BatchQueued(drain', rows)
<1>1. DrainType /\ AwaitedIsHead(pump, prompts, drain) /\ BatchQueued(drain, queue)
  BY DEF DrainInv
<1>2. UNCHANGED <<drain, owed, retry>>
  BY DEF draining
<1> QED
  BY <1>1, <1>2 DEF DrainType, BatchQueued

LEMMA EndsKeeps ==
  ASSUME DrainType, NEW again \in BOOLEAN, DrainEnds(again), NoneAwaited(pump', prompts')
  PROVE  DrainType' /\ AwaitedIsHead(pump', prompts', drain') /\ BatchQueued(drain', queue)
<1>1. drain' \in {[at |-> "list", batch |-> <<>>], [at |-> "off", batch |-> <<>>]}
  BY DEF DrainEnds, DrainOff
<1>2. drain' \in [at : {"off", "list", "next", "await", "ack"}, batch : Seq(Message)]
  BY <1>1, BatchlessTyped
<1>3. owed' \in BOOLEAN /\ retry' \in BOOLEAN
  BY Zenon DEF DrainEnds, DrainType
<1>4. drain'.batch = <<>> /\ drain'.at \notin {"await", "ack"}
  BY <1>1
<1> QED
  BY <1>2, <1>3, <1>4, NoneIsFine, EmptyBatch DEF DrainType

(* The entry the drain waits for is alone: when its bundle is done with, no other waits. *)
LEMMA AwaitedAlone ==
  ASSUME PumpInv(pump, prompts, inFlight, failed), AwaitedIsHead(pump, prompts, drain), Awaited
  PROVE  drain.at = "await" /\ \A j \in DOMAIN prompts : ~prompts[j].awaited
<1>1. PICK i \in DOMAIN pump.bundle : pump.bundle[i].awaited
  BY DEF Awaited
<1>2. drain.at = "await" /\ pump.bundle[i].m = Head(drain.batch)
  BY <1>1 DEF AwaitedIsHead
<1>3. Head(drain.batch) \in pump.reply.keys
  BY <1>1, <1>2 DEF PumpInv, BundleCovered, Keys
<1>4. ASSUME NEW j \in DOMAIN prompts, prompts[j].awaited PROVE FALSE
  <2>1. prompts[j].m = Head(drain.batch)
    BY <1>4 DEF AwaitedIsHead
  <2>2. prompts[j] \in Entry
    BY DEF PumpInv, Orderly
  <2>3. prompts[j].m \in Message
    BY <2>2 DEF Entry
  <2>4. prompts[j].m \in Cl(failed, prompts[j].m)
    BY <2>3, ClaimsAre DEF PumpInv
  <2> QED
    BY <1>3, <2>1, <2>4 DEF PumpInv, Apart
<1> QED
  BY <1>2, <1>4

(* A bundle is done with, and what waited waits on or is in the next bundle. *)
LEMMA NextEntries ==
  ASSUME NEW p, NEW q, NEW r, NEW F, Taken(p, r, q, F), q \in Seq(Entry)
  PROVE  /\ (\A j \in DOMAIN q : ~q[j].awaited) => NoneAwaited(p, r)
         /\ \A s, d : AwaitedIsHead(s, q, d) => AwaitedIsHead(p, r, d)
<1>1. \A i \in DOMAIN r : \E j \in DOMAIN q : r[i] = q[j]
  BY DEF Taken
<1>2. \A i \in DOMAIN p.bundle : \E j \in DOMAIN q : p.bundle[i] = q[j]
  BY DEF Taken
<1>3. (\A j \in DOMAIN q : ~q[j].awaited) => NoneAwaited(p, r)
  BY <1>1, <1>2 DEF NoneAwaited
<1>4. ASSUME NEW s, NEW d, AwaitedIsHead(s, q, d) PROVE AwaitedIsHead(p, r, d)
  BY <1>1, <1>2, <1>4 DEF AwaitedIsHead
<1> QED
  BY <1>3, <1>4

LEMMA DrainKept ==
  ASSUME DrainType', AwaitedIsHead(pump', prompts', drain'), BatchQueued(drain', queue'),
         queue' \in Seq(Message), IsInjective(queue')
  PROVE  DrainInv'
BY DEF DrainInv

(* Every step keeps the drain's part. *)
LEMMA DrainSteps ==
  ASSUME MarksInv, Next
  PROVE  DrainInv'
<1>1. DrainInv /\ PumpInv(pump, prompts, inFlight, failed) /\ TypeOK
  BY DEF MarksInv, DrainInv, DrainType, TypeOK
<1>2. /\ DrainType /\ AwaitedIsHead(pump, prompts, drain) /\ BatchQueued(drain, queue)
      /\ queue \in Seq(Message) /\ IsInjective(queue)
  BY <1>1 DEF DrainInv
<1>3. CASE UNCHANGED <<queue, draining, pump, prompts>>
  BY <1>1, <1>2, <1>3, SameKeeps, DrainKept
<1>4. CASE UNCHANGED <<queue, draining, prompts>> /\ pump'.bundle = pump.bundle
  <2>1. AwaitedIsHead(pump', prompts', drain')
    BY <1>2, <1>4 DEF AwaitedIsHead, draining
  <2> QED
    BY <1>2, <1>4, <2>1 DEF DrainInv, DrainType, draining
<1>5. CASE GoOn
  <2>1. UNCHANGED <<queue, drain, owed, retry>>
    BY <1>5 DEF GoOn, draining
  <2>2. CASE UNCHANGED pumping
    BY <1>3, <2>1, <2>2 DEF pumping, draining
  <2>3. CASE ~Dropped(Head(tail).of) /\ Admit(Head(tail).of, FALSE)
    <3>1. Head(tail).of \in Message
      <4>1. tail # <<>> /\ Head(tail).kind = "message"
        BY <1>5 DEF GoOn, Running
      <4>2. Head(tail) \in [kind : {"begin", "end"}, of : Activity, at : {"start"}]
                           \cup [kind : {"message"}, of : Message, at : {"start", "insert"}]
        BY <1>1, <4>1 DEF TypeOK
      <4> QED
        BY <4>1, <4>2
    <3>2. AwaitedIsHead(pump', prompts', drain)
      <4>1. \A i \in DOMAIN prompts' : prompts'[i].awaited => \E j \in DOMAIN prompts : prompts'[i] = prompts[j]
        BY <1>1, <2>3, <3>1, AdmitKeeps
      <4>2. \A i \in DOMAIN pump'.bundle : pump'.bundle[i].awaited =>
              \E j \in DOMAIN pump.bundle : pump'.bundle[i] = pump.bundle[j]
        BY <1>1, <2>3, <3>1, AdmitKeeps
      <4> QED
        BY <1>2, <4>1, <4>2 DEF AwaitedIsHead
    <3> QED
      BY <1>2, <2>1, <3>2, DrainKept DEF DrainType
  <2> QED
    BY <1>5, <2>2, <2>3 DEF GoOn
<1>6. CASE Insert
  <2>1. tail # <<>> /\ Head(tail).kind = "message" /\ queue' = Rows(Head(tail).of) /\ Wake /\ UNCHANGED <<pump, prompts>>
    BY <1>6 DEF Insert, Running, pumping
  <2>2. Head(tail).of \in Message
    <3>1. Head(tail) \in [kind : {"begin", "end"}, of : Activity, at : {"start"}]
                         \cup [kind : {"message"}, of : Message, at : {"start", "insert"}]
      BY <1>1, <2>1 DEF TypeOK
    <3> QED
      BY <2>1, <3>1
  <2>3. /\ queue' \in Seq(Message) /\ IsInjective(queue')
        /\ \A n : Contains(queue, n) => Contains(queue', n)
    BY <1>2, <2>1, <2>2, RowAdded
  <2>4. DrainType' /\ AwaitedIsHead(pump', prompts', drain') /\ BatchQueued(drain', queue')
    BY <1>1, <2>1, <2>3, ScheduleKeeps, SameKeeps DEF Wake
  <2> QED
    BY <2>3, <2>4, DrainKept
<1>61. CASE AdmissionFails
  <2>1. /\ tail # <<>> /\ Head(tail).kind = "message" /\ queue' \in {queue, Rows(Head(tail).of)}
        /\ UNCHANGED <<draining, pump, prompts>>
    BY <1>61 DEF AdmissionFails, Running, pumping
  <2>2. Head(tail).of \in Message
    <3>1. Head(tail) \in [kind : {"begin", "end"}, of : Activity, at : {"start"}]
                         \cup [kind : {"message"}, of : Message, at : {"start", "insert"}]
      BY <1>1, <2>1 DEF TypeOK
    <3> QED
      BY <2>1, <3>1
  <2>3. /\ queue' \in Seq(Message) /\ IsInjective(queue')
        /\ \A n : Contains(queue, n) => Contains(queue', n)
    BY <1>2, <2>1, <2>2, RowAdded
  <2>4. DrainType' /\ AwaitedIsHead(pump', prompts', drain') /\ BatchQueued(drain', queue')
    BY <1>1, <2>1, <2>3, SameKeeps
  <2> QED
    BY <2>3, <2>4, DrainKept
<1>7. CASE Publish \/ RetryTimer
  <2>1. (ScheduleDrain \/ UNCHANGED draining) /\ UNCHANGED <<queue, pump, prompts>>
    BY <1>7 DEF Publish, RetryTimer, pumping
  <2> QED
    BY <1>1, <1>2, <2>1, ScheduleKeeps, SameKeeps, DrainKept
<1>8. CASE ListPending
  <2>1. drain.at = "list" /\ UNCHANGED <<queue, pump, prompts>>
    BY <1>8 DEF ListPending, pumping
  <2>2. NoneAwaited(pump', prompts')
    BY <1>2, <2>1, NoneBut
  <2>3. CASE DrainEnds(FALSE)
    BY <1>2, <2>1, <2>2, <2>3, EndsKeeps, DrainKept
  <2>4. CASE /\ drain' = [at |-> "next", batch |-> SubSeq(queue, 1, IF Len(queue) < BatchSize THEN Len(queue) ELSE BatchSize)]
             /\ UNCHANGED <<owed, retry>>
    <3>1. PICK n : n = IF Len(queue) < BatchSize THEN Len(queue) ELSE BatchSize
      OBVIOUS
    <3>2. n \in 0 .. Len(queue)
      <4>1. Len(queue) \in Nat /\ BatchSize \in Nat
        BY <1>2, MessagesAssumption
      <4> QED
        BY <3>1, <4>1
    <3>3. PICK b \in Seq(Message) : b = SubSeq(queue, 1, n) /\ IsInjective(b) /\ \A k \in DOMAIN b : Contains(queue, b[k])
      BY <1>2, <3>2, BatchListed
    <3>4. drain' = [at |-> "next", batch |-> b]
      BY <2>4, <3>1, <3>3
    <3>5. DrainType'
      <4>1. drain' \in [at : {"off", "list", "next", "await", "ack"}, batch : Seq(Message)]
        BY <3>3, <3>4
      <4> QED
        BY <1>2, <2>4, <4>1 DEF DrainType
    <3>6. BatchQueued(drain', queue)
      BY <3>3, <3>4 DEF BatchQueued
    <3> QED
      BY <1>2, <2>1, <2>2, <3>5, <3>6, NoneIsFine, DrainKept
  <2> QED
    BY <1>8, <2>3, <2>4 DEF ListPending
<1>9. CASE DeliverNext
  <2>1. drain.at = "next" /\ UNCHANGED queue /\ drain.batch \in Seq(Message)
    BY <1>2, <1>9 DEF DeliverNext, BatchQueued
  <2>2. NoneAwaited(pump, prompts)
    BY <1>2, <2>1, NoneBut
  <2>3. ASSUME NEW to \in {"list", "ack"}, drain' = [drain EXCEPT !.at = to], UNCHANGED <<owed, retry, pumping>>,
               to = "ack" => drain.batch # <<>>
        PROVE  DrainInv'
    <3>1. drain'.at = to /\ drain'.batch = drain.batch /\ DrainType'
      BY <1>2, <2>3 DEF DrainType
    <3>2. BatchQueued(drain', queue)
      BY <1>2, <2>3, <3>1 DEF BatchQueued
    <3> QED
      BY <1>2, <2>1, <2>2, <2>3, <3>1, <3>2, NoneIsFine, DrainKept DEF pumping
  <2>4. CASE DrainEnds(FALSE) /\ UNCHANGED pumping
    BY <1>2, <2>1, <2>2, <2>4, EndsKeeps, DrainKept DEF pumping
  <2>5. CASE /\ drain.batch # <<>> /\ ~Dropped(Head(drain.batch)) /\ UNCHANGED <<owed, retry>>
             /\ drain' = [drain EXCEPT !.at = "await"] /\ Admit(Head(drain.batch), TRUE)
    <3>1. Head(drain.batch) \in Message
      BY <2>1, <2>5
    <3>2. drain'.at = "await" /\ drain'.batch = drain.batch /\ DrainType'
      BY <1>2, <2>5 DEF DrainType
    <3>3. BatchQueued(drain', queue)
      BY <1>2, <2>5, <3>2 DEF BatchQueued
    <3>4. \A i \in DOMAIN prompts' : prompts'[i].awaited => prompts'[i].m = Head(drain.batch)
      BY <1>1, <2>2, <2>5, <3>1, AdmitKeeps DEF NoneAwaited
    <3>5. \A i \in DOMAIN pump'.bundle : pump'.bundle[i].awaited => pump'.bundle[i].m = Head(drain.batch)
      <4>1. \A i \in DOMAIN pump'.bundle : \/ \E j \in DOMAIN pump.bundle : pump'.bundle[i] = pump.bundle[j]
                                           \/ pump'.bundle[i].m = Head(drain.batch)
        BY <1>1, <2>5, <3>1, AdmitKeeps
      <4> QED
        BY <2>2, <4>1 DEF NoneAwaited
    <3>6. AwaitedIsHead(pump', prompts', drain')
      BY <3>2, <3>4, <3>5 DEF AwaitedIsHead
    <3> QED
      BY <1>2, <2>1, <3>2, <3>3, <3>6, DrainKept
  <2> QED
    BY <1>9, <2>3, <2>4, <2>5 DEF DeliverNext
<1>10. CASE Acknowledge
  <2>1. /\ drain.at = "ack" /\ queue' = RemoveAt(queue, Row(Head(drain.batch)))
        /\ drain' = [at |-> "next", batch |-> Tail(drain.batch)] /\ UNCHANGED <<owed, retry, pump, prompts>>
    BY <1>10 DEF Acknowledge, pumping
  <2>2. PICK b \in Seq(Message) : b = drain.batch /\ IsInjective(b) /\ b # <<>> /\ \A k \in DOMAIN b : Contains(queue, b[k])
    BY <1>2, <2>1 DEF BatchQueued
  <2>3. /\ Tail(b) \in Seq(Message) /\ IsInjective(Tail(b)) /\ Head(b) \in Message
        /\ \A k \in DOMAIN Tail(b) : Tail(b)[k] # Head(b) /\ \E j \in DOMAIN b : Tail(b)[k] = b[j]
    BY <2>2, BatchTail
  <2>4. Head(b) = b[1] /\ 1 \in DOMAIN b
    BY <2>2
  <2>5. /\ queue' \in Seq(Message) /\ IsInjective(queue')
        /\ \A n : Contains(queue', n) <=> Contains(queue, n) /\ n # Head(b)
    BY <1>2, <2>1, <2>2, <2>3, <2>4, RowRemoved
  <2>6. PICK c \in Seq(Message) : c = Tail(b)
    BY <2>3
  <2>7. drain' = [at |-> "next", batch |-> c]
    BY <2>1, <2>2, <2>6
  <2>8. DrainType'
    <3>1. drain' \in [at : {"off", "list", "next", "await", "ack"}, batch : Seq(Message)]
      BY <2>6, <2>7
    <3> QED
      BY <1>2, <2>1, <3>1 DEF DrainType
  <2>9. \A k \in DOMAIN c : Contains(queue', c[k])
    BY <2>2, <2>3, <2>5, <2>6
  <2>10. BatchQueued(drain', queue')
    BY <2>3, <2>6, <2>7, <2>9 DEF BatchQueued
  <2>11. AwaitedIsHead(pump', prompts', drain')
    BY <1>2, <2>1, NoneBut, NoneIsFine
  <2> QED
    BY <2>5, <2>8, <2>10, <2>11, DrainKept
<1>11. CASE DrainFails
  <2>1. drain.at \in {"ack", "list"} /\ UNCHANGED <<queue, pump, prompts>> /\ DrainEnds(TRUE)
    BY <1>11 DEF DrainFails, pumping
  <2>2. NoneAwaited(pump', prompts')
    BY <1>2, <2>1, NoneBut
  <2> QED
    BY <1>2, <2>1, <2>2, EndsKeeps, DrainKept
<1>12. CASE TurnEnds \/ TurnFails \/ SendPart \/ SendFails
  <2>1. pump'.bundle = pump.bundle
    BY <1>1, <1>12, TurnEndsKeeps, TurnFailsKeeps, SendPartKeeps, SendFailsKeeps
  <2> QED
    BY <1>4, <1>12, <2>1 DEF TurnEnds, TurnFails, SendPart, SendFails
<1>13. CASE Finish \/ Notice
  <2>1. UNCHANGED queue
    BY <1>13 DEF Finish, Notice
  <2>2. Taken(pump', prompts', prompts, failed) /\ prompts \in Seq(Entry)
    BY <1>1, <1>13, FinishKeeps, NoticeKeeps DEF PumpInv, Orderly
  <2>3. CASE ~Awaited
    <3>1. AwaitedIsHead(pump', prompts', drain)
      BY <1>2, <2>2, NextEntries
    <3>2. UNCHANGED <<drain, owed, retry>>
      BY <1>13, <2>3 DEF Finish, Notice, Reject, draining
    <3> QED
      BY <1>2, <2>1, <3>1, <3>2, DrainKept DEF DrainType
  <2>4. CASE Awaited
    <3>1. drain.at = "await" /\ NoneAwaited(pump', prompts')
      BY <1>1, <1>2, <2>2, <2>4, AwaitedAlone, NextEntries
    <3>2. CASE Finish
      <4>1. drain' = [drain EXCEPT !.at = "ack"] /\ UNCHANGED <<owed, retry>>
        BY <2>4, <3>2 DEF Finish
      <4>2. drain'.at = "ack" /\ drain'.batch = drain.batch /\ DrainType'
        BY <1>2, <4>1 DEF DrainType
      <4>3. BatchQueued(drain', queue)
        BY <1>2, <3>1, <4>2 DEF BatchQueued
      <4> QED
        BY <1>2, <2>1, <3>1, <4>2, <4>3, NoneIsFine, DrainKept
    <3>3. CASE Notice
      BY <1>2, <2>1, <2>4, <3>1, <3>3, EndsKeeps, DrainKept DEF Notice, Reject
    <3> QED
      BY <1>13, <3>2, <3>3
  <2> QED
    BY <2>3, <2>4
<1>14. CASE Crash
  <2>1. /\ drain' = [at |-> "list", batch |-> <<>>] /\ owed' = FALSE /\ retry' = FALSE /\ UNCHANGED queue
        /\ prompts' = <<>> /\ pump' = Idle
    BY <1>14 DEF Crash
  <2>2. DrainType'
    <3>1. drain' \in [at : {"off", "list", "next", "await", "ack"}, batch : Seq(Message)]
      BY <2>1, BatchlessTyped
    <3>2. owed' \in BOOLEAN /\ retry' \in BOOLEAN
      BY <2>1
    <3> QED
      BY <3>1, <3>2 DEF DrainType
  <2>3. NoneAwaited(pump', prompts')
    BY <2>1 DEF NoneAwaited, Idle
  <2> QED
    BY <1>2, <2>1, <2>2, <2>3, NoneIsFine, EmptyBatch, DrainKept
<1>15. CASE (\E m \in Message : Arrive(m)) \/ \E a \in Activity : BeginActivity(a) \/ EndActivity(a)
  BY <1>3, <1>15 DEF Arrive, BeginActivity, EndActivity, pumping
<1>16. CASE Hold \/ PublishFails \/ Forget
  BY <1>3, <1>16 DEF Hold, PublishFails, Forget, pumping
<1> QED
  BY <1>5, <1>6, <1>61, <1>7, <1>8, <1>9, <1>10, <1>11, <1>12, <1>13, <1>14, <1>15, <1>16
     DEF Next, Admission, Transition, DrainStep, Pump

-----------------------------------------------------------------------------
(* Marks *)

LEMMA MarksInit == Init => MarksInv
<1> SUFFICES ASSUME Init PROVE MarksInv
  OBVIOUS
<1>1. PumpInv(pump, prompts, inFlight, failed)
  BY RestKeeps DEF Init
<1>2. pump = Idle /\ prompts = <<>> /\ drain = [at |-> "off", batch |-> <<>>] /\ queue = <<>>
  BY DEF Init, DrainOff
<1>3. AwaitedIsHead(pump, prompts, drain)
  BY <1>2 DEF AwaitedIsHead, Idle
<1>4. BatchQueued(drain, queue)
  BY <1>2, EmptyBatch
<1>5. drain \in [at : {"off", "list", "next", "await", "ack"}, batch : Seq(Message)]
  BY <1>2, BatchlessTyped
<1>6. queue \in Seq(Message) /\ IsInjective(queue)
  BY <1>2 DEF IsInjective
<1>7. tail \in TailType
  BY DEF Init, TailType
<1>8. act \in [Activity -> Stages] /\ copies \in [Message -> Nat] /\ said \in [Message -> {"no", "part", "whole", "again"}]
  BY DEF Init, Stages
<1>9. /\ current \in {"available", "idle", "do_not_disturb"}
      /\ inFlight \subseteq Message /\ recent \subseteq Message
      /\ forgotten \subseteq Message /\ replied \subseteq Message /\ turnedAway \subseteq Message
  BY DEF Init
<1>10. ahead \in BOOLEAN /\ owed \in BOOLEAN /\ retry \in BOOLEAN
  BY DEF Init
<1>11. prompts \in Seq(Entry) /\ pump \in PumpType /\ failed \in [Message -> Checkpoint]
  BY <1>1 DEF PumpInv, Orderly
<1>12. TypeOK
  BY <1>5, <1>6, <1>7, <1>8, <1>9, <1>10, <1>11 DEF TypeOK, TailType, PumpType
<1> QED
  BY <1>1, <1>3, <1>4, <1>12 DEF MarksInv

LEMMA MarksNext == MarksInv /\ [Next]_vars => MarksInv'
<1> SUFFICES ASSUME MarksInv, [Next]_vars PROVE MarksInv'
  OBVIOUS
<1>1. CASE Next
  <2>1. PumpInv(pump', prompts', inFlight', failed')
    BY <1>1, PumpStep
  <2>2. AvailType' /\ RecordsType' /\ DrainInv'
    BY <1>1, AvailStep, RecordsStep, DrainSteps DEF MarksInv
  <2>3. prompts' \in Seq(Entry) /\ pump' \in PumpType /\ failed' \in [Message -> Checkpoint] /\ inFlight' \subseteq Message
    BY <2>1, MarksTyped DEF PumpInv, Orderly
  <2>4. TypeOK'
    BY <2>2, <2>3 DEF TypeOK, AvailType, RecordsType, DrainInv, DrainType, TailType, PumpType
  <2> QED
    BY <2>1, <2>2, <2>4 DEF MarksInv, DrainInv
<1>2. CASE UNCHANGED vars
  <2>1. TypeOK'
    BY <1>2 DEF MarksInv, TypeOK, vars
  <2>2. UNCHANGED <<pump, prompts, inFlight, failed, drain, queue>>
    BY <1>2 DEF vars
  <2> QED
    BY <2>1, <2>2 DEF MarksInv
<1> QED
  BY <1>1, <1>2

LEMMA MarksAlways == Spec => []MarksInv
BY MarksInit, MarksNext, PTL DEF Spec

LEMMA MarksMeans == MarksInv => NoMarkLeft /\ TypeOK
<1> SUFFICES ASSUME MarksInv PROVE NoMarkLeft
  BY DEF MarksInv
<1>1. \A m : Claims(m) = Cl(failed, m)
  BY DEF Claims, Resumable, Cl
<1> QED
  BY <1>1 DEF MarksInv, PumpInv, Marks, NoMarkLeft

(* Whatever turns and sends fail, however deliveries are resumed and records run out, a    *)
(* message is marked in flight only while the pump has an entry that will end it           *)
(* (handleDiscordMessage, finalizeDiscordDelivery, pumpDiscordQueue).                      *)
THEOREM NoMarkStays == Spec => []NoMarkLeft
BY MarksAlways, MarksMeans, PTL

(* The values the pump, the drain, the availability state and the records take, and that   *)
(* a message has one row (gateway-message-handlers.ts, companion-availability.ts).         *)
THEOREM MessageTypes == Spec => []TypeOK
BY MarksAlways, MarksMeans, PTL

-----------------------------------------------------------------------------
(* Texts sent *)

(* Taking the next bundle when nothing is being sent. *)
LEMMA TakenSaid ==
  ASSUME NEW F \in [Message -> Checkpoint], GroupsClosed(F), NEW q, Orderly(q, F),
         NEW p, NEW r, Taken(p, r, q, F),
         NEW G \in [Message -> Checkpoint],
         \A i \in DOMAIN q : \A k \in Cl(F, q[i].m) : G[k] = F[k],
         NEW rec, NEW fg, NEW sd,
         \A m \in Message \ fg : G[m] # NoReply /\ HasText(G[m].left) => sd[m] \in {"no", "part"},
         \A m \in Message \ fg : sd[m] \notin {"no", "part"} => m \in rec \/ G[m] # NoReply,
         WaitingUnsaid(q, F, fg, sd),
         \A m \in Message \ fg : sd[m] # "again"
  PROVE  SaidInv(p, r, G, rec, fg, sd)
<1>1. CheckpointUnsaid(p, G, fg, sd) /\ SaidKnown(p, G, rec, fg, sd)
  BY DEF CheckpointUnsaid, SaidKnown
<1>2. q \in Seq(Entry)
  BY DEF Orderly
<1>3. \A i \in DOMAIN q : q[i].m \in Message /\ q[i].m \in Cl(F, q[i].m)
  <2>1. \A i \in DOMAIN q : q[i] \in Entry
    BY <1>2
  <2>2. \A e \in Entry : e.m \in Message
    BY DEF Entry
  <2> QED
    BY <2>1, <2>2, ClaimsAre
<1>4. \A i \in DOMAIN q : G[q[i].m] = F[q[i].m]
  BY <1>3
<1>5. \A i \in DOMAIN r : \E j \in DOMAIN q : r[i] = q[j]
  BY DEF Taken
<1>6. WaitingUnsaid(r, G, fg, sd)
  BY <1>4, <1>5 DEF WaitingUnsaid
<1>7. PumpUnsaid(p, fg, sd)
  <2>1. CASE p.at = "turn"
    <3>1. \A m \in p.reply.keys : \E i \in DOMAIN q : q[i].m = m /\ F[m] = NoReply
      BY <2>1 DEF Taken
    <3> QED
      BY <2>1, <3>1 DEF PumpUnsaid, WaitingUnsaid
  <2>2. CASE p.at = "send" /\ HasText(p.reply.left)
    <3>1. PICK i \in DOMAIN q : F[q[i].m] # NoReply /\ p.reply = F[q[i].m]
      BY <2>2 DEF Taken
    <3>2. p.reply.keys = Cl(F, q[i].m) /\ Cl(F, q[i].m) \subseteq Message
      BY <1>3, <3>1, ClaimsAre DEF Cl
    <3>3. \A m \in p.reply.keys : m \in Message /\ G[m] = F[q[i].m]
      BY <1>3, <3>1, <3>2 DEF GroupsClosed
    <3> QED
      BY <2>2, <3>1, <3>3 DEF PumpUnsaid
  <2> QED
    BY <2>1, <2>2 DEF PumpUnsaid
<1> QED
  BY <1>1, <1>6, <1>7 DEF SaidInv

LEMMA AdmitSaid ==
  ASSUME PumpInv(pump, prompts, inFlight, failed), NEW m \in Message, NEW w \in BOOLEAN,
         ~Dropped(m), Admit(m, w), UNCHANGED <<forgotten, said>>,
         SaidInv(pump, prompts, failed, recent, forgotten, said)
  PROVE  SaidInv(pump', prompts', failed', recent', forgotten', said')
<1>1. PICK F \in [Message -> Checkpoint] : F = failed
  BY DEF PumpInv
<1>2. PICK q \in Seq(Entry) : q = prompts
  BY DEF PumpInv, Orderly
<1>3. /\ GroupsClosed(F) /\ RestsEmpty(pump, q) /\ Orderly(q, F) /\ Marks(pump, q, inFlight, F)
      /\ PumpUnsaid(pump, forgotten, said) /\ CheckpointUnsaid(pump, F, forgotten, said)
      /\ SaidKnown(pump, F, recent, forgotten, said) /\ WaitingUnsaid(q, F, forgotten, said)
      /\ \A k \in Message \ forgotten : said[k] # "again"
  BY <1>1, <1>2 DEF PumpInv, SaidInv
<1>4. PICK e : e = [m |-> m, awaited |-> w, resumes |-> F[m] # NoReply]
  OBVIOUS
<1>5. e \in Entry /\ e.m = m /\ (e.resumes <=> F[m] # NoReply)
  BY <1>4 DEF Entry
<1>6. Cl(F, m) \cap inFlight = {} /\ m \in Cl(F, m) /\ m \notin recent
  BY <1>1, <1>3, ClaimsAre DEF Dropped, Claims, Resumable, Cl
<1>7. /\ failed' = F /\ recent' = recent
      /\ IF pump.at = "off" THEN Take(<<e>>) ELSE prompts' = Append(q, e) /\ pump' = pump
  BY <1>1, <1>2, <1>4 DEF Admit, Claims, Resumable, Cl
<1>8. F[m] = NoReply /\ m \notin forgotten => said[m] \in {"no", "part"}
  <2>1. m \notin pump.reply.keys
    BY <1>3, <1>6 DEF Marks
  <2> QED
    BY <1>3, <1>6, <2>1 DEF SaidKnown
<1>9. CASE pump.at = "off"
  <2>1. DOMAIN <<e>> = {1} /\ <<e>>[1] = e /\ <<e>> \in Seq(Entry)
    BY <1>5
  <2>2. Orderly(<<e>>, F)
    BY <1>5, <2>1 DEF Orderly
  <2>3. Taken(pump', prompts', <<e>>, F)
    BY <1>1, <1>3, <1>7, <1>9, <2>2, TakeIs
  <2>4. WaitingUnsaid(<<e>>, F, forgotten, said)
    BY <1>5, <1>8, <2>1 DEF WaitingUnsaid
  <2>5. \A k \in Message \ forgotten : F[k] # NoReply /\ HasText(F[k].left) => said[k] \in {"no", "part"}
    BY <1>3, <1>9 DEF CheckpointUnsaid
  <2>6. \A k \in Message \ forgotten : said[k] \notin {"no", "part"} => k \in recent \/ F[k] # NoReply
    BY <1>3, <1>9 DEF SaidKnown
  <2>7. SaidInv(pump', prompts', F, recent, forgotten, said)
    BY <1>3, <2>2, <2>3, <2>4, <2>5, <2>6, TakenSaid
  <2> QED
    BY <1>7, <2>7
<1>10. CASE pump.at # "off"
  <2>1. PICK r \in Seq(Entry) : r = Append(q, e)
    <3>1. Append(q, e) \in Seq(Entry)
      BY <1>2, <1>5
    <3> QED
      BY <3>1
  <2>2. \A i \in DOMAIN r : r[i] = e \/ \E j \in DOMAIN q : r[i] = q[j]
    BY <1>2, <1>5, <2>1
  <2>3. WaitingUnsaid(r, F, forgotten, said)
    BY <1>3, <1>5, <1>8, <2>2 DEF WaitingUnsaid
  <2>4. SaidInv(pump, r, F, recent, forgotten, said)
    BY <1>3, <2>3 DEF SaidInv
  <2> QED
    BY <1>7, <1>10, <2>1, <2>4
<1> QED
  BY <1>9, <1>10

LEMMA SendPartSaid ==
  ASSUME MarksInv, SendPart, SaidInv(pump, prompts, failed, recent, forgotten, said)
  PROVE  SaidInv(pump', prompts', failed', recent', forgotten', said')
<1>1. /\ PumpUnsaid(pump, forgotten, said) /\ CheckpointUnsaid(pump, failed, forgotten, said)
      /\ SaidKnown(pump, failed, recent, forgotten, said) /\ WaitingUnsaid(prompts, failed, forgotten, said)
      /\ \A k \in Message \ forgotten : said[k] # "again"
  BY DEF SaidInv
<1>2. /\ pump \in PumpType /\ pump.at = "send" /\ pump.reply.left # <<>>
      /\ UNCHANGED <<prompts, failed, recent, forgotten>>
      /\ pump' = [pump EXCEPT !.reply.left = Delivered(@)]
      /\ said \in [Message -> {"no", "part", "whole", "again"}]
      /\ Say("whole")
  BY DEF SendPart, MarksInv, PumpInv, TypeOK
<1>3. pump.reply \in Checkpoint /\ pump.reply.left \in Parts
  BY <1>2 DEF PumpType, Checkpoint
<1>4. pump'.at = "send" /\ pump'.reply.keys = pump.reply.keys /\ pump'.reply.left = Tail(pump.reply.left)
  BY <1>2, <1>3 DEF PumpType, Checkpoint, Delivered
<1>5. Tail(<<"text">>) = <<>> /\ Tail(<<"media">>) = <<>> /\ Tail(<<"text", "media">>) = <<"media">>
  OBVIOUS
<1>6. <<"text">> # <<>> /\ <<"text", "media">> # <<>> /\ <<"media">> # <<"text">> /\ <<"media">> # <<"text", "media">>
  <2>1. <<"text">>[1] = "text" /\ <<"media">>[1] = "media" /\ <<"text", "media">>[1] = "text" /\ "text" # "media"
    OBVIOUS
  <2>2. Len(<<"text">>) = 1 /\ Len(<<"text", "media">>) = 2 /\ Len(<<>>) = 0
    OBVIOUS
  <2> QED
    BY <2>1, <2>2
<1>7. ~HasText(Tail(pump.reply.left))
  BY <1>2, <1>3, <1>5, <1>6 DEF Parts, HasText
<1>8. Head(pump.reply.left) = "text" => HasText(pump.reply.left)
  <2>1. Head(<<"media">>) = "media"
    OBVIOUS
  <2> QED
    BY <1>2, <1>3, <2>1 DEF Parts, HasText
<1>9. PumpUnsaid(pump', forgotten, said')
  BY <1>4, <1>7 DEF PumpUnsaid
<1>10. \A k \in Message : k \notin pump.reply.keys => said'[k] = said[k]
  BY <1>2 DEF Say
<1>11. CheckpointUnsaid(pump', failed, forgotten, said')
  BY <1>1, <1>2, <1>4, <1>10 DEF CheckpointUnsaid
<1>12. SaidKnown(pump', failed, recent, forgotten, said')
  BY <1>1, <1>2, <1>4, <1>10 DEF SaidKnown
<1>13. WaitingUnsaid(prompts, failed, forgotten, said')
  <2> SUFFICES ASSUME NEW i \in DOMAIN prompts, failed[prompts[i].m] = NoReply, prompts[i].m \notin forgotten
               PROVE  said'[prompts[i].m] \in {"no", "part"}
    BY DEF WaitingUnsaid
  <2>1. prompts[i] \in Entry
    BY DEF MarksInv, PumpInv, Orderly
  <2>2. prompts[i].m \in Message
    BY <2>1 DEF Entry
  <2>3. prompts[i].m \in Cl(failed, prompts[i].m)
    BY <2>2, ClaimsAre DEF MarksInv, PumpInv
  <2>4. prompts[i].m \notin pump.reply.keys
    BY <2>3 DEF MarksInv, PumpInv, Apart
  <2> QED
    BY <1>1, <1>10, <2>2, <2>4 DEF WaitingUnsaid
<1>14. \A k \in Message \ forgotten : said'[k] # "again"
  <2> SUFFICES ASSUME NEW k \in Message \ forgotten PROVE said'[k] # "again"
    OBVIOUS
  <2>1. CASE Head(pump.reply.left) = "text" /\ k \in pump.reply.keys
    <3>1. said[k] \in {"no", "part"}
      BY <1>1, <1>2, <1>8, <2>1 DEF PumpUnsaid
    <3> QED
      BY <1>2, <2>1, <3>1 DEF Say
  <2>2. CASE ~(Head(pump.reply.left) = "text" /\ k \in pump.reply.keys)
    BY <1>1, <1>2, <2>2 DEF Say
  <2> QED
    BY <2>1, <2>2
<1> QED
  BY <1>2, <1>9, <1>11, <1>12, <1>13, <1>14 DEF SaidInv

LEMMA SendFailsSaid ==
  ASSUME MarksInv, SendFails, SaidInv(pump, prompts, failed, recent, forgotten, said)
  PROVE  SaidInv(pump', prompts', failed', recent', forgotten', said')
<1>1. /\ PumpUnsaid(pump, forgotten, said) /\ CheckpointUnsaid(pump, failed, forgotten, said)
      /\ SaidKnown(pump, failed, recent, forgotten, said) /\ WaitingUnsaid(prompts, failed, forgotten, said)
      /\ \A k \in Message \ forgotten : said[k] # "again"
  BY DEF SaidInv
<1>2. /\ pump \in PumpType /\ pump.at = "send" /\ pump.reply.left # <<>>
      /\ UNCHANGED <<prompts, recent, forgotten>>
      /\ pump' = [pump EXCEPT !.at = "notice"]
      /\ failed' = [m \in Message |-> IF m \in pump.reply.keys THEN pump.reply ELSE failed[m]]
      /\ Say("part") \/ UNCHANGED said
  BY DEF SendFails, MarksInv, PumpInv
<1>3. pump'.at = "notice" /\ pump'.reply = pump.reply
  BY <1>2 DEF PumpType
<1>4. pump.reply # NoReply
  BY <1>2 DEF NoReply
<1>5. \A k \in Message : failed'[k] = IF k \in pump.reply.keys THEN pump.reply ELSE failed[k]
  BY <1>2
<1>6. PumpUnsaid(pump', forgotten, said')
  BY <1>3 DEF PumpUnsaid
<1>61. Head(pump.reply.left) = "text" => HasText(pump.reply.left)
  <2>1. Head(<<"media">>) = "media"
    OBVIOUS
  <2>2. pump.reply.left \in Parts
    BY <1>2 DEF PumpType, Checkpoint
  <2> QED
    BY <1>2, <2>1, <2>2 DEF Parts, HasText
<1>62. \A k \in Message \ forgotten :
         /\ said[k] \in {"no", "part"} => said'[k] \in {"no", "part"}
         /\ said[k] \notin {"no", "part"} => said'[k] = said[k]
  <2> SUFFICES ASSUME NEW k \in Message \ forgotten
               PROVE  /\ said[k] \in {"no", "part"} => said'[k] \in {"no", "part"}
                      /\ said[k] \notin {"no", "part"} => said'[k] = said[k]
    OBVIOUS
  <2>1. CASE UNCHANGED said
    BY <2>1
  <2>2. CASE Say("part")
    <3>1. said'[k] = IF Head(pump.reply.left) # "text" \/ k \notin pump.reply.keys THEN said[k]
                     ELSE IF said[k] \in {"whole", "again"} THEN "again" ELSE "part"
      BY <2>2 DEF Say
    <3>2. Head(pump.reply.left) = "text" /\ k \in pump.reply.keys => said[k] \in {"no", "part"}
      BY <1>1, <1>2, <1>61 DEF PumpUnsaid
    <3> QED
      BY <3>1, <3>2
  <2> QED
    BY <1>2, <2>1, <2>2
<1>7. CheckpointUnsaid(pump', failed', forgotten, said')
  <2> SUFFICES ASSUME NEW k \in Message \ forgotten, failed'[k] # NoReply, HasText(failed'[k].left)
               PROVE  said[k] \in {"no", "part"}
    BY <1>62 DEF CheckpointUnsaid
  <2>1. CASE k \in pump.reply.keys
    BY <1>1, <1>2, <1>5, <2>1 DEF PumpUnsaid
  <2>2. CASE k \notin pump.reply.keys
    BY <1>1, <1>5, <2>2 DEF CheckpointUnsaid
  <2> QED
    BY <2>1, <2>2
<1>8. SaidKnown(pump', failed', recent, forgotten, said')
  BY <1>1, <1>4, <1>5, <1>62 DEF SaidKnown
<1>9. WaitingUnsaid(prompts, failed', forgotten, said')
  <2> SUFFICES ASSUME NEW i \in DOMAIN prompts, failed'[prompts[i].m] = NoReply, prompts[i].m \notin forgotten
               PROVE  said'[prompts[i].m] \in {"no", "part"}
    BY DEF WaitingUnsaid
  <2>1. prompts[i] \in Entry
    BY DEF MarksInv, PumpInv, Orderly
  <2>2. prompts[i].m \in Message
    BY <2>1 DEF Entry
  <2>3. failed[prompts[i].m] = NoReply
    BY <1>4, <1>5, <2>2
  <2>4. said[prompts[i].m] \in {"no", "part"}
    BY <1>1, <2>3 DEF WaitingUnsaid
  <2> QED
    BY <1>62, <2>2, <2>4
<1>10. \A k \in Message \ forgotten : said'[k] # "again"
  BY <1>1, <1>62
<1> QED
  BY <1>2, <1>6, <1>7, <1>8, <1>9, <1>10 DEF SaidInv

LEMMA ContinueSaid ==
  ASSUME PumpInv(pump, prompts, inFlight, failed), Taken(pump', prompts', prompts, failed),
         NEW G \in [Message -> Checkpoint], G = failed',
         \A k \in Message \ pump.reply.keys : G[k] = failed[k],
         \A m \in Message \ forgotten : G[m] # NoReply /\ HasText(G[m].left) => said[m] \in {"no", "part"},
         \A m \in Message \ forgotten : said[m] \notin {"no", "part"} => m \in recent' \/ G[m] # NoReply,
         UNCHANGED <<forgotten, said>>,
         SaidInv(pump, prompts, failed, recent, forgotten, said)
  PROVE  SaidInv(pump', prompts', failed', recent', forgotten', said')
<1>1. PICK F \in [Message -> Checkpoint] : F = failed
  BY DEF PumpInv
<1>2. GroupsClosed(F) /\ Orderly(prompts, F) /\ Apart(pump, prompts, F)
  BY <1>1 DEF PumpInv
<1>3. WaitingUnsaid(prompts, F, forgotten, said) /\ \A m \in Message \ forgotten : said[m] # "again"
  BY <1>1 DEF SaidInv
<1>4. \A i \in DOMAIN prompts : \A k \in Cl(F, prompts[i].m) : G[k] = F[k]
  <2> SUFFICES ASSUME NEW i \in DOMAIN prompts, NEW k \in Cl(F, prompts[i].m) PROVE G[k] = F[k]
    OBVIOUS
  <2>1. prompts[i] \in Entry
    BY <1>2 DEF Orderly
  <2>2. prompts[i].m \in Message
    BY <2>1 DEF Entry
  <2>3. k \in Message \ pump.reply.keys
    BY <1>2, <2>2, ClaimsAre DEF Apart
  <2> QED
    BY <1>1, <2>3
<1>5. SaidInv(pump', prompts', G, recent', forgotten, said)
  BY <1>1, <1>2, <1>3, <1>4, TakenSaid
<1> QED
  BY <1>5

LEMMA FinishSaid ==
  ASSUME MarksInv, Finish, SaidInv(pump, prompts, failed, recent, forgotten, said)
  PROVE  SaidInv(pump', prompts', failed', recent', forgotten', said')
<1>1. PumpInv(pump, prompts, inFlight, failed) /\ failed \in [Message -> Checkpoint]
  BY DEF MarksInv, PumpInv
<1>2. /\ failed' = [m \in Message |-> IF m \in pump.reply.keys THEN NoReply ELSE failed[m]]
      /\ recent' = recent \cup pump.reply.keys /\ UNCHANGED <<forgotten, said>>
  BY DEF Finish
<1>3. PICK G \in [Message -> Checkpoint] : G = failed'
  BY <1>1, <1>2 DEF NoReply, Checkpoint, Parts
<1>4. \A k \in Message : G[k] = IF k \in pump.reply.keys THEN NoReply ELSE failed[k]
  BY <1>2, <1>3
<1>5. CheckpointUnsaid(pump, failed, forgotten, said) /\ SaidKnown(pump, failed, recent, forgotten, said)
  BY DEF SaidInv
<1>6. \A m \in Message \ forgotten : G[m] # NoReply /\ HasText(G[m].left) => said[m] \in {"no", "part"}
  BY <1>4, <1>5 DEF CheckpointUnsaid
<1>7. \A m \in Message \ forgotten : said[m] \notin {"no", "part"} => m \in recent' \/ G[m] # NoReply
  BY <1>2, <1>4, <1>5 DEF SaidKnown
<1>8. \A k \in Message \ pump.reply.keys : G[k] = failed[k]
  BY <1>4
<1>9. Taken(pump', prompts', prompts, failed)
  BY <1>1, FinishKeeps
<1> QED
  BY <1>1, <1>2, <1>3, <1>6, <1>7, <1>8, <1>9, ContinueSaid

LEMMA NoticeSaid ==
  ASSUME MarksInv, Notice, SaidInv(pump, prompts, failed, recent, forgotten, said)
  PROVE  SaidInv(pump', prompts', failed', recent', forgotten', said')
<1>1. PumpInv(pump, prompts, inFlight, failed)
  BY DEF MarksInv
<1>2. pump.at = "notice" /\ UNCHANGED <<failed, recent, forgotten, said>>
  BY DEF Notice
<1>3. PICK G \in [Message -> Checkpoint] : G = failed /\ G = failed'
  BY <1>1, <1>2 DEF PumpInv
<1>4. \A m \in Message \ forgotten : G[m] # NoReply /\ HasText(G[m].left) => said[m] \in {"no", "part"}
  BY <1>2, <1>3 DEF SaidInv, CheckpointUnsaid
<1>5. \A m \in Message \ forgotten : said[m] \notin {"no", "part"} => m \in recent' \/ G[m] # NoReply
  BY <1>2, <1>3 DEF SaidInv, SaidKnown
<1>6. Taken(pump', prompts', prompts, failed)
  BY <1>1, NoticeKeeps
<1> QED
  BY <1>1, <1>2, <1>3, <1>4, <1>5, <1>6, ContinueSaid

LEMMA ForgetSaid ==
  ASSUME MarksInv, Forget, SaidInv(pump, prompts, failed, recent, forgotten, said)
  PROVE  SaidInv(pump', prompts', failed', recent', forgotten', said')
<1>1. /\ PumpUnsaid(pump, forgotten, said) /\ CheckpointUnsaid(pump, failed, forgotten, said)
      /\ SaidKnown(pump, failed, recent, forgotten, said) /\ WaitingUnsaid(prompts, failed, forgotten, said)
      /\ \A k \in Message \ forgotten : said[k] # "again"
  BY DEF SaidInv
<1>2. UNCHANGED <<prompts, pump, said>>
  BY DEF Forget
<1>3. PICK X :
        /\ forgotten' = forgotten \cup X
        /\ recent \ X \subseteq recent'
        /\ \A k \in Message : k \notin X => failed'[k] = failed[k]
        /\ \A k \in Message : failed'[k] = failed[k] \/ failed'[k] = NoReply
  <2>1. ASSUME NEW m \in recent, recent' = recent \ {m}, forgotten' = forgotten \cup {m}, UNCHANGED failed
        PROVE  /\ forgotten' = forgotten \cup {m}
               /\ recent \ {m} \subseteq recent'
               /\ \A k \in Message : k \notin {m} => failed'[k] = failed[k]
               /\ \A k \in Message : failed'[k] = failed[k] \/ failed'[k] = NoReply
    BY <2>1
  <2>2. ASSUME NEW m \in Message, forgotten' = forgotten \cup failed[m].keys, UNCHANGED recent,
               failed' = [k \in Message |-> IF k \in failed[m].keys THEN NoReply ELSE failed[k]]
        PROVE  /\ forgotten' = forgotten \cup failed[m].keys
               /\ recent \ failed[m].keys \subseteq recent'
               /\ \A k \in Message : k \notin failed[m].keys => failed'[k] = failed[k]
               /\ \A k \in Message : failed'[k] = failed[k] \/ failed'[k] = NoReply
    BY <2>2
  <2> QED
    BY <2>1, <2>2 DEF Forget
<1>4. \A i \in DOMAIN prompts : prompts[i].m \in Message
  <2>1. \A i \in DOMAIN prompts : prompts[i] \in Entry
    BY DEF MarksInv, PumpInv, Orderly
  <2>2. \A e \in Entry : e.m \in Message
    BY DEF Entry
  <2> QED
    BY <2>1, <2>2
<1>5. PumpUnsaid(pump, forgotten', said)
  BY <1>1, <1>3 DEF PumpUnsaid
<1>6. CheckpointUnsaid(pump, failed', forgotten', said)
  BY <1>1, <1>3 DEF CheckpointUnsaid
<1>7. SaidKnown(pump, failed', recent', forgotten', said)
  BY <1>1, <1>3 DEF SaidKnown
<1>8. WaitingUnsaid(prompts, failed', forgotten', said)
  BY <1>1, <1>3, <1>4 DEF WaitingUnsaid
<1> QED
  BY <1>1, <1>2, <1>3, <1>5, <1>6, <1>7, <1>8 DEF SaidInv

LEMMA TurnSaid ==
  ASSUME MarksInv, TurnEnds \/ TurnFails, SaidInv(pump, prompts, failed, recent, forgotten, said)
  PROVE  SaidInv(pump', prompts', failed', recent', forgotten', said')
<1>1. /\ PumpUnsaid(pump, forgotten, said) /\ CheckpointUnsaid(pump, failed, forgotten, said)
      /\ SaidKnown(pump, failed, recent, forgotten, said) /\ WaitingUnsaid(prompts, failed, forgotten, said)
      /\ \A k \in Message \ forgotten : said[k] # "again"
  BY DEF SaidInv
<1>2. pump \in PumpType /\ pump.at = "turn" /\ UNCHANGED <<prompts, failed, recent, forgotten, said>>
  BY DEF TurnEnds, TurnFails, MarksInv, PumpInv, ghost
<1>3. pump'.at \in {"send", "notice"} /\ pump'.reply.keys = pump.reply.keys
  <2>1. CASE TurnEnds
    <3>1. PICK parts \in Parts : pump' = [pump EXCEPT !.at = "send", !.reply.left = parts]
      BY <2>1 DEF TurnEnds
    <3>2. pump.reply \in Checkpoint
      BY <1>2 DEF PumpType
    <3> QED
      BY <1>2, <3>1, <3>2 DEF PumpType, Checkpoint
  <2>2. CASE TurnFails
    BY <1>2, <2>2 DEF TurnFails, PumpType
  <2> QED
    BY <2>1, <2>2
<1>4. PumpUnsaid(pump', forgotten, said)
  BY <1>1, <1>2, <1>3 DEF PumpUnsaid
<1>5. CheckpointUnsaid(pump', failed, forgotten, said) /\ SaidKnown(pump', failed, recent, forgotten, said)
  BY <1>1, <1>2 DEF CheckpointUnsaid, SaidKnown
<1> QED
  BY <1>1, <1>2, <1>4, <1>5 DEF SaidInv

LEMMA SaidNext ==
  ASSUME MarksInv, SaidInv(pump, prompts, failed, recent, forgotten, said), [Next]_vars
  PROVE  SaidInv(pump', prompts', failed', recent', forgotten', said')
<1>1. PumpInv(pump, prompts, inFlight, failed) /\ TypeOK /\ BatchQueued(drain, queue)
  BY DEF MarksInv
<1>2. CASE UNCHANGED <<pumping, forgotten, said>>
  BY <1>2 DEF pumping
<1>3. CASE GoOn
  <2>1. Head(tail).of \in Message
    <3>1. tail # <<>> /\ Head(tail).kind = "message"
      BY <1>3 DEF GoOn, Running
    <3>2. Head(tail) \in [kind : {"begin", "end"}, of : Activity, at : {"start"}]
                         \cup [kind : {"message"}, of : Message, at : {"start", "insert"}]
      BY <1>1, <3>1 DEF TypeOK
    <3> QED
      BY <3>1, <3>2
  <2>2. CASE Dropped(Head(tail).of)
    BY <1>2, <1>3, <2>2 DEF GoOn
  <2>3. CASE ~Dropped(Head(tail).of)
    BY <1>1, <1>3, <2>1, <2>3, AdmitSaid DEF GoOn
  <2> QED
    BY <2>2, <2>3
<1>4. CASE DeliverNext
  <2>0. UNCHANGED <<forgotten, said>>
    BY <1>4 DEF DeliverNext
  <2>1. CASE UNCHANGED pumping
    BY <1>2, <2>0, <2>1
  <2>2. CASE drain.batch # <<>> /\ ~Dropped(Head(drain.batch)) /\ Admit(Head(drain.batch), TRUE)
    <3>1. Head(drain.batch) \in Message
      BY <1>1, <2>2 DEF BatchQueued
    <3> QED
      BY <1>1, <2>0, <2>2, <3>1, AdmitSaid
  <2> QED
    BY <1>4, <2>1, <2>2 DEF DeliverNext
<1>5. CASE Pump
  BY <1>5, TurnSaid, SendPartSaid, SendFailsSaid, FinishSaid, NoticeSaid DEF Pump
<1>6. CASE Forget
  BY <1>6, ForgetSaid
<1>7. CASE Crash
  <2>1. /\ pump' = Idle /\ prompts' = <<>> /\ failed' = [m \in Message |-> NoReply]
        /\ said' = [m \in Message |-> "no"]
    BY <1>7 DEF Crash
  <2>2. pump'.at = "off" /\ \A m \in Message : said'[m] \in {"no", "part"} /\ failed'[m] = NoReply
    BY <2>1 DEF Idle
  <2> QED
    BY <2>1, <2>2 DEF SaidInv, PumpUnsaid, CheckpointUnsaid, SaidKnown, WaitingUnsaid
<1>8. CASE \E m \in Message : Arrive(m)
  BY <1>2, <1>8 DEF Arrive
<1>9. CASE \E a \in Activity : BeginActivity(a) \/ EndActivity(a)
  BY <1>2, <1>9 DEF BeginActivity, EndActivity, ghost
<1>10. CASE Hold \/ Insert \/ AdmissionFails \/ Transition \/ RetryTimer
  BY <1>2, <1>10 DEF Hold, Insert, AdmissionFails, Transition, Publish, PublishFails, RetryTimer, ghost
<1>11. CASE ListPending \/ Acknowledge \/ DrainFails
  BY <1>2, <1>11 DEF ListPending, Acknowledge, DrainFails, ghost
<1>12. CASE UNCHANGED vars
  BY <1>2, <1>12 DEF vars, pumping
<1> QED
  BY <1>3, <1>4, <1>5, <1>6, <1>7, <1>8, <1>9, <1>10, <1>11, <1>12 DEF Next, Admission, DrainStep

SaidHolds == SaidInv(pump, prompts, failed, recent, forgotten, said)

LEMMA SaidAlways == Spec => []SaidHolds
<1>1. Init => SaidHolds
  <2> SUFFICES ASSUME Init PROVE SaidHolds
    OBVIOUS
  <2>1. pump.at = "off" /\ prompts = <<>> /\ \A m \in Message : said[m] \in {"no", "part"} /\ failed[m] = NoReply
    BY DEF Init, Idle
  <2> QED
    BY <2>1 DEF SaidHolds, SaidInv, PumpUnsaid, CheckpointUnsaid, SaidKnown, WaitingUnsaid
<1>2. MarksInv /\ SaidHolds /\ [Next]_vars => SaidHolds'
  BY SaidNext DEF SaidHolds
<1> QED
  BY <1>1, <1>2, MarksAlways, PTL DEF Spec

(* While the process remembers a message, nothing of the text of the reply to it is sent   *)
(* again once a send of it has succeeded: not after a failed part, after a second delivery *)
(* by the gateway, or by the drain's next attempt (deliverDiscordReply with its            *)
(* checkpoint, handleDiscordMessage).  A send that failed may have put a part of the text  *)
(* into the channel before.                                                                *)
THEOREM TextStaysOut == Spec => []TextNotRepeated
<1>1. SaidHolds => TextNotRepeated
  BY DEF SaidHolds, SaidInv, TextNotRepeated
<1> QED
  BY <1>1, SaidAlways, PTL

-----------------------------------------------------------------------------
(* Rows and their acknowledgement *)

LEMMA TailWay ==
  ASSUME NEW t \in TailType, t # <<>>, NEW m, NEW i \in OnWay(Tail(t), m)
  PROVE  i + 1 \in OnWay(t, m) /\ i \in Nat \ {0}
<1>1. Len(t) \in Nat \ {0} /\ DOMAIN t = 1 .. Len(t)
  BY DEF TailType
<1>2. Tail(t) \in TailType /\ Len(Tail(t)) = Len(t) - 1 /\ \A k \in 1 .. Len(t) - 1 : Tail(t)[k] = t[k + 1]
  BY <1>1 DEF TailType
<1>3. DOMAIN Tail(t) = 1 .. Len(t) - 1
  BY <1>1, <1>2 DEF TailType
<1>4. i \in 1 .. Len(t) - 1 /\ Tail(t)[i].kind = "message" /\ Tail(t)[i].of = m
  BY <1>3 DEF OnWay
<1>5. i + 1 \in DOMAIN t /\ t[i + 1] = Tail(t)[i]
  BY <1>1, <1>2, <1>4
<1> QED
  BY <1>1, <1>4, <1>5 DEF OnWay

LEMMA AppendWay ==
  ASSUME NEW t \in TailType, NEW x, NEW m
  PROVE  \A i \in OnWay(Append(t, x), m) : i \in OnWay(t, m) \/ (i = Len(t) + 1 /\ x.kind = "message" /\ x.of = m)
<1> SUFFICES ASSUME NEW i \in OnWay(Append(t, x), m), i # Len(t) + 1 \/ ~(x.kind = "message" /\ x.of = m)
             PROVE  i \in OnWay(t, m)
  OBVIOUS
<1>1. Len(t) \in Nat /\ DOMAIN t = 1 .. Len(t)
  BY DEF TailType
<1>2. /\ DOMAIN Append(t, x) = 1 .. Len(t) + 1 /\ Append(t, x)[Len(t) + 1] = x
      /\ \A k \in 1 .. Len(t) : Append(t, x)[k] = t[k]
  BY <1>1 DEF TailType
<1>3. i \in 1 .. Len(t) + 1 /\ Append(t, x)[i].kind = "message" /\ Append(t, x)[i].of = m
  BY <1>2 DEF OnWay
<1>4. i # Len(t) + 1
  BY <1>2, <1>3
<1>5. i \in 1 .. Len(t)
  BY <1>1, <1>3, <1>4
<1> QED
  BY <1>1, <1>2, <1>3, <1>5 DEF OnWay

LEMMA HoldWay ==
  ASSUME NEW t \in TailType, t # <<>>, NEW h, h.kind = Head(t).kind, h.of = Head(t).of, NEW m
  PROVE  OnWay(<<h>> \o Tail(t), m) = OnWay(t, m)
<1>1. Len(t) \in Nat \ {0} /\ DOMAIN t = 1 .. Len(t) /\ Head(t) = t[1]
  BY DEF TailType
<1>2. Tail(t) \in TailType /\ Len(Tail(t)) = Len(t) - 1 /\ \A k \in 1 .. Len(t) - 1 : Tail(t)[k] = t[k + 1]
  BY <1>1 DEF TailType
<1>3. PICK u : u = <<h>> \o Tail(t)
  OBVIOUS
<1>4. DOMAIN u = 1 .. Len(t) /\ u[1] = h /\ \A k \in 2 .. Len(t) : u[k] = t[k]
  <2>1. PICK v \in TailType : v = Tail(t)
    BY <1>2
  <2>2. Len(v) = Len(t) - 1 /\ \A k \in 1 .. Len(t) - 1 : v[k] = t[k + 1]
    BY <1>2, <2>1
  <2>3. u = <<h>> \o v /\ Len(<<h>>) = 1 /\ <<h>>[1] = h
    BY <1>3, <2>1
  <2>4. Len(u) = Len(t) /\ \A k \in 1 .. Len(t) : u[k] = IF k <= 1 THEN <<h>>[k] ELSE v[k - 1]
    BY <1>1, <2>1, <2>2, <2>3 DEF TailType
  <2>5. DOMAIN u = 1 .. Len(t)
    BY <1>1, <2>1, <2>2, <2>3 DEF TailType
  <2>6. ASSUME NEW k \in 2 .. Len(t) PROVE u[k] = t[k]
    <3>1. k \in 1 .. Len(t) /\ ~(k <= 1) /\ k - 1 \in 1 .. Len(t) - 1 /\ (k - 1) + 1 = k
      BY <1>1
    <3> QED
      BY <2>2, <2>4, <3>1
  <2>7. u[1] = h
    BY <1>1, <2>3, <2>4
  <2> QED
    BY <2>5, <2>6, <2>7
<1>5. \A k \in 1 .. Len(t) : k = 1 \/ k \in 2 .. Len(t)
  BY <1>1
<1>6. \A k \in 1 .. Len(t) : u[k].kind = t[k].kind /\ u[k].of = t[k].of
  BY <1>1, <1>4, <1>5
<1> QED
  BY <1>1, <1>3, <1>4, <1>6 DEF OnWay

(* Nothing becomes busy but the message that is let in. *)
LEMMA BusySteps ==
  ASSUME MarksInv, Next, NEW k \in Message, Busy(queue', inFlight', failed', k)
  PROVE  Busy(queue, inFlight, failed, k) \/ ((GoOn \/ Insert \/ AdmissionFails) /\ k = Head(tail).of)
<1>1. /\ failed \in [Message -> Checkpoint] /\ GroupsClosed(failed) /\ pump.reply.keys \subseteq inFlight
      /\ BatchQueued(drain, queue) /\ queue \in Seq(Message) /\ IsInjective(queue)
  BY DEF MarksInv, PumpInv, Marks, TypeOK
<1>2. CASE UNCHANGED <<queue, inFlight, failed>>
  BY <1>2
<1>3. ASSUME NEW m \in Message, NEW w, Admit(m, w), UNCHANGED queue
      PROVE  Busy(queue, inFlight, failed, k) \/ k = m
  <2>1. inFlight' = inFlight \cup Claims(m) /\ failed' = failed
    BY <1>3 DEF Admit
  <2>2. k \in Claims(m) => k = m \/ failed[k] # NoReply
    BY <1>1 DEF Claims, Resumable, GroupsClosed
  <2> QED
    BY <1>3, <2>1, <2>2 DEF Busy
<1>4. CASE GoOn
  <2>1. UNCHANGED queue /\ (Admit(Head(tail).of, FALSE) \/ UNCHANGED pumping)
    BY <1>4 DEF GoOn
  <2>2. Head(tail).of \in Message
    <3>1. tail # <<>> /\ Head(tail).kind = "message"
      BY <1>4 DEF GoOn, Running
    <3>2. Head(tail) \in [kind : {"begin", "end"}, of : Activity, at : {"start"}]
                         \cup [kind : {"message"}, of : Message, at : {"start", "insert"}]
      BY <3>1 DEF MarksInv, TypeOK
    <3> QED
      BY <3>1, <3>2
  <2> QED
    BY <1>2, <1>3, <1>4, <2>1, <2>2 DEF pumping
<1>5. CASE Insert \/ AdmissionFails
  <2>1. queue' \in {queue, Rows(Head(tail).of)} /\ UNCHANGED <<inFlight, failed>>
    BY <1>5 DEF Insert, AdmissionFails, pumping
  <2>2. Head(tail).of \in Message
    <3>1. tail # <<>> /\ Head(tail).kind = "message"
      BY <1>5 DEF Insert, AdmissionFails, Running
    <3>2. Head(tail) \in [kind : {"begin", "end"}, of : Activity, at : {"start"}]
                         \cup [kind : {"message"}, of : Message, at : {"start", "insert"}]
      BY <3>1 DEF MarksInv, TypeOK
    <3> QED
      BY <3>1, <3>2
  <2>3. Contains(queue', k) => Contains(queue, k) \/ k = Head(tail).of
    BY <1>1, <2>1, <2>2, RowAdded
  <2> QED
    BY <1>5, <2>1, <2>3 DEF Busy
<1>6. CASE DeliverNext
  <2>1. UNCHANGED queue
    BY <1>6 DEF DeliverNext
  <2>2. CASE UNCHANGED pumping
    BY <1>2, <2>1, <2>2 DEF pumping
  <2>3. CASE drain.batch # <<>> /\ Admit(Head(drain.batch), TRUE)
    <3>1. Head(drain.batch) \in Message /\ Contains(queue, Head(drain.batch))
      <4>1. PICK b \in Seq(Message) : b = drain.batch /\ b # <<>> /\ \A j \in DOMAIN b : Contains(queue, b[j])
        BY <1>1, <2>3 DEF BatchQueued
      <4>2. Head(b) = b[1] /\ 1 \in DOMAIN b /\ Head(b) \in Message
        BY <4>1
      <4> QED
        BY <4>1, <4>2
    <3>2. Busy(queue, inFlight, failed, k) \/ k = Head(drain.batch)
      BY <1>3, <2>1, <2>3, <3>1
    <3> QED
      BY <3>1, <3>2 DEF Busy
  <2> QED
    BY <1>6, <2>2, <2>3 DEF DeliverNext
<1>7. CASE Acknowledge
  <2>1. queue' = RemoveAt(queue, Row(Head(drain.batch))) /\ UNCHANGED <<inFlight, failed>> /\ drain.at = "ack"
    BY <1>7 DEF Acknowledge, pumping
  <2>2. Head(drain.batch) \in Message /\ Contains(queue, Head(drain.batch))
    <3>1. PICK b \in Seq(Message) : b = drain.batch /\ b # <<>> /\ \A j \in DOMAIN b : Contains(queue, b[j])
      BY <1>1, <2>1 DEF BatchQueued
    <3>2. Head(b) = b[1] /\ 1 \in DOMAIN b /\ Head(b) \in Message
      BY <3>1
    <3> QED
      BY <3>1, <3>2
  <2>3. Contains(queue', k) => Contains(queue, k)
    BY <1>1, <2>1, <2>2, RowRemoved
  <2> QED
    BY <2>1, <2>3 DEF Busy
<1>8. CASE TurnEnds \/ TurnFails \/ SendPart
  BY <1>2, <1>8 DEF TurnEnds, TurnFails, SendPart
<1>9. CASE SendFails
  <2>1. /\ failed' = [m \in Message |-> IF m \in pump.reply.keys THEN pump.reply ELSE failed[m]]
        /\ UNCHANGED <<queue, inFlight>>
    BY <1>9 DEF SendFails
  <2> QED
    BY <1>1, <2>1 DEF Busy
<1>10. CASE Finish
  <2>1. /\ failed' = [m \in Message |-> IF m \in pump.reply.keys THEN NoReply ELSE failed[m]]
        /\ inFlight' \subseteq inFlight /\ UNCHANGED queue
    BY <1>10 DEF Finish, Released
  <2> QED
    BY <1>1, <2>1 DEF Busy
<1>11. CASE Notice
  BY <1>11 DEF Notice, Released, Busy
<1>12. CASE Forget
  <2>1. \A j \in Message : failed'[j] = failed[j] \/ failed'[j] = NoReply
    BY <1>1, <1>12 DEF Forget
  <2> QED
    BY <1>12, <2>1 DEF Forget, Busy
<1>13. CASE Crash
  BY <1>13 DEF Crash, Busy
<1>14. CASE \E m \in Message : Arrive(m)
  BY <1>2, <1>14 DEF Arrive, pumping
<1>15. CASE \E a \in Activity : BeginActivity(a) \/ EndActivity(a)
  BY <1>2, <1>15 DEF BeginActivity, EndActivity, pumping
<1>16. CASE Hold \/ Transition \/ RetryTimer
  BY <1>2, <1>16 DEF Hold, Transition, Publish, PublishFails, RetryTimer, pumping
<1>17. CASE ListPending \/ DrainFails
  BY <1>2, <1>17 DEF ListPending, DrainFails, pumping
<1> QED
  BY <1>4, <1>5, <1>6, <1>7, <1>8, <1>9, <1>10, <1>11, <1>12, <1>13, <1>14, <1>15, <1>16, <1>17
     DEF Next, Admission, DrainStep, Pump

LEMMA HeadWay ==
  ASSUME TypeOK, Running("message")
  PROVE  tail # <<>> /\ tail \in TailType /\ Head(tail).of \in Message /\ 1 \in OnWay(tail, Head(tail).of)
<1>1. tail # <<>> /\ Head(tail).kind = "message" /\ tail \in TailType
  BY DEF Running, TypeOK, TailType
<1>2. Head(tail) = tail[1] /\ 1 \in DOMAIN tail
  BY <1>1 DEF TailType
<1>3. Head(tail) \in [kind : {"begin", "end"}, of : Activity, at : {"start"}]
                     \cup [kind : {"message"}, of : Message, at : {"start", "insert"}]
  BY <1>1 DEF TailType
<1> QED
  BY <1>1, <1>2, <1>3 DEF OnWay

(* A message that arrived once stays in one place. *)
LEMMA OnePlaceStep ==
  ASSUME MarksInv, OnePlace(tail, queue, inFlight, failed, copies), Next
  PROVE  OnePlace(tail', queue', inFlight', failed', copies')
<1>1. TypeOK /\ tail \in TailType /\ copies \in [Message -> Nat]
  BY DEF MarksInv, TypeOK, TailType
<1>2. CASE GoOn \/ Insert \/ AdmissionFails
  <2>1. Running("message") /\ tail' = Tail(tail) /\ copies' = copies
    BY <1>2 DEF GoOn, Insert, AdmissionFails
  <2>2. tail # <<>> /\ 1 \in OnWay(tail, Head(tail).of)
    BY <1>1, <2>1, HeadWay
  <2>3. \A k \in Message : \A i \in OnWay(tail', k) : i + 1 \in OnWay(tail, k) /\ i \in Nat \ {0}
    BY <1>1, <2>1, <2>2, TailWay
  <2>4. \A k \in Message : Busy(queue', inFlight', failed', k) => Busy(queue, inFlight, failed, k) \/ k = Head(tail).of
    BY <1>2, BusySteps
  <2> SUFFICES ASSUME NEW k \in Message
               PROVE  /\ copies[k] = 0 => OnWay(tail', k) = {} /\ ~Busy(queue', inFlight', failed', k)
                      /\ Once(copies, k) /\ OnWay(tail', k) # {} =>
                           (\A i, j \in OnWay(tail', k) : i = j) /\ ~Busy(queue', inFlight', failed', k)
    BY <2>1 DEF OnePlace
  <2>5. ASSUME copies[k] = 0 PROVE OnWay(tail', k) = {} /\ ~Busy(queue', inFlight', failed', k)
    <3>1. OnWay(tail, k) = {} /\ ~Busy(queue, inFlight, failed, k)
      BY <2>5 DEF OnePlace
    <3> QED
      BY <2>2, <2>3, <2>4, <3>1
  <2>6. ASSUME Once(copies, k), OnWay(tail', k) # {}
        PROVE  (\A i, j \in OnWay(tail', k) : i = j) /\ ~Busy(queue', inFlight', failed', k)
    <3>1. PICK n \in OnWay(tail', k) : n + 1 \in OnWay(tail, k) /\ n \in Nat \ {0}
      BY <2>3, <2>6
    <3>2. (\A i, j \in OnWay(tail, k) : i = j) /\ ~Busy(queue, inFlight, failed, k)
      BY <2>6, <3>1 DEF OnePlace
    <3>3. k # Head(tail).of
      <4>1. SUFFICES ASSUME k = Head(tail).of PROVE FALSE
        OBVIOUS
      <4>2. n + 1 = 1
        BY <2>2, <3>1, <3>2, <4>1
      <4> QED
        BY <3>1, <4>2
    <3>4. ASSUME NEW i \in OnWay(tail', k), NEW j \in OnWay(tail', k) PROVE i = j
      <4>1. i + 1 = j + 1 /\ i \in Nat /\ j \in Nat
        BY <2>3, <3>2
      <4> QED
        BY <4>1
    <3> QED
      BY <2>4, <3>2, <3>3, <3>4
  <2> QED
    BY <2>5, <2>6
<1>3. CASE ~(GoOn \/ Insert \/ AdmissionFails)
  <2>1. \A k \in Message : Busy(queue', inFlight', failed', k) => Busy(queue, inFlight, failed, k)
    BY <1>3, BusySteps
  <2>2. ASSUME copies' = copies, \A k \in Message : OnWay(tail', k) \subseteq OnWay(tail, k)
        PROVE  OnePlace(tail', queue', inFlight', failed', copies')
    <3> SUFFICES ASSUME NEW k \in Message
                 PROVE  /\ copies[k] = 0 => OnWay(tail', k) = {} /\ ~Busy(queue', inFlight', failed', k)
                        /\ Once(copies, k) /\ OnWay(tail', k) # {} =>
                             (\A i, j \in OnWay(tail', k) : i = j) /\ ~Busy(queue', inFlight', failed', k)
      BY <2>2 DEF OnePlace
    <3>1. OnWay(tail', k) \subseteq OnWay(tail, k)
      BY <2>2
    <3> QED
      BY <2>1, <3>1 DEF OnePlace
  <2>3. CASE UNCHANGED <<tail, copies>>
    BY <2>2, <2>3
  <2>4. CASE Crash
    <3>1. tail' = <<>> /\ copies' = copies
      BY <2>4 DEF Crash
    <3>2. \A k \in Message : OnWay(tail', k) = {}
      BY <3>1 DEF OnWay
    <3> QED
      BY <2>2, <3>1, <3>2
  <2>5. CASE Hold
    <3>1. /\ tail # <<>> /\ tail' = <<[Head(tail) EXCEPT !.at = "insert"]>> \o Tail(tail) /\ copies' = copies
          /\ Head(tail).kind = "message"
      BY <2>5 DEF Hold, Running
    <3>2. Head(tail) \in [kind : {"begin", "end"}, of : Activity, at : {"start"}]
                         \cup [kind : {"message"}, of : Message, at : {"start", "insert"}]
      BY <1>1, <3>1 DEF TailType
    <3>3. PICK h : h = [Head(tail) EXCEPT !.at = "insert"]
      OBVIOUS
    <3>4. h.kind = Head(tail).kind /\ h.of = Head(tail).of
      BY <3>1, <3>2, <3>3
    <3>5. \A k \in Message : OnWay(tail', k) = OnWay(tail, k)
      BY <1>1, <3>1, <3>3, <3>4, HoldWay
    <3> QED
      BY <2>2, <3>1, <3>5
  <2>6. CASE Transition
    <3>1. tail # <<>> /\ tail' = Tail(tail) /\ copies' = copies
      BY <2>6 DEF Transition, Publish, PublishFails, Running, Settle
    <3>2. \A k \in Message : \A i \in OnWay(tail', k) : i + 1 \in OnWay(tail, k) /\ i \in Nat
      BY <1>1, <3>1, TailWay
    <3> SUFFICES ASSUME NEW k \in Message
                 PROVE  /\ copies[k] = 0 => OnWay(tail', k) = {} /\ ~Busy(queue', inFlight', failed', k)
                        /\ Once(copies, k) /\ OnWay(tail', k) # {} =>
                             (\A i, j \in OnWay(tail', k) : i = j) /\ ~Busy(queue', inFlight', failed', k)
      BY <3>1 DEF OnePlace
    <3>3. copies[k] = 0 => OnWay(tail', k) = {} /\ ~Busy(queue', inFlight', failed', k)
      BY <2>1, <3>2 DEF OnePlace
    <3>4. ASSUME Once(copies, k), OnWay(tail', k) # {}
          PROVE  (\A i, j \in OnWay(tail', k) : i = j) /\ ~Busy(queue', inFlight', failed', k)
      <4>1. OnWay(tail, k) # {}
        BY <3>2, <3>4
      <4>2. (\A i, j \in OnWay(tail, k) : i = j) /\ ~Busy(queue, inFlight, failed, k)
        BY <3>4, <4>1 DEF OnePlace
      <4>3. ASSUME NEW i \in OnWay(tail', k), NEW j \in OnWay(tail', k) PROVE i = j
        <5>1. i + 1 = j + 1 /\ i \in Nat /\ j \in Nat
          BY <3>2, <4>2
        <5> QED
          BY <5>1
      <4> QED
        BY <2>1, <4>2, <4>3
    <3> QED
      BY <3>3, <3>4
  <2>7. ASSUME NEW a \in Activity, BeginActivity(a) \/ EndActivity(a)
        PROVE  OnePlace(tail', queue', inFlight', failed', copies')
    <3>1. PICK x : tail' = Append(tail, x) /\ x.kind # "message" /\ copies' = copies
      BY <2>7 DEF BeginActivity, EndActivity, Request
    <3>2. \A k \in Message : OnWay(tail', k) \subseteq OnWay(tail, k)
      BY <1>1, <3>1, AppendWay
    <3> QED
      BY <2>2, <3>1, <3>2
  <2>8. ASSUME NEW m \in Message, Arrive(m)
        PROVE  OnePlace(tail', queue', inFlight', failed', copies')
    <3>1. PICK x : tail' = Append(tail, x) /\ x.of = m /\ x.kind = "message"
      BY <2>8 DEF Arrive, Request
    <3>2. \A k \in Message : copies'[k] = IF k = m THEN copies[k] + 1 ELSE copies[k]
      BY <1>1, <2>8 DEF Arrive
    <3>3. \A k \in Message : \A i \in OnWay(tail', k) : i \in OnWay(tail, k) \/ (i = Len(tail) + 1 /\ k = m)
      BY <1>1, <3>1, AppendWay
    <3> SUFFICES ASSUME NEW k \in Message
                 PROVE  /\ copies'[k] = 0 => OnWay(tail', k) = {} /\ ~Busy(queue', inFlight', failed', k)
                        /\ Once(copies', k) /\ OnWay(tail', k) # {} =>
                             (\A i, j \in OnWay(tail', k) : i = j) /\ ~Busy(queue', inFlight', failed', k)
      BY DEF OnePlace
    <3>4. CASE k # m
      <4>1. copies'[k] = copies[k] /\ OnWay(tail', k) \subseteq OnWay(tail, k)
        BY <3>2, <3>3, <3>4
      <4> QED
        BY <2>1, <4>1 DEF OnePlace, Once
    <3>5. CASE k = m
      <4>1. copies[k] \in Nat /\ copies'[k] = copies[k] + 1
        BY <1>1, <3>2, <3>5
      <4>2. copies'[k] # 0 /\ (Once(copies', k) => copies[k] = 0)
        BY <4>1 DEF Once
      <4>3. ASSUME Once(copies', k) PROVE (\A i, j \in OnWay(tail', k) : i = j) /\ ~Busy(queue', inFlight', failed', k)
        <5>1. OnWay(tail, k) = {} /\ ~Busy(queue, inFlight, failed, k)
          BY <4>2, <4>3 DEF OnePlace
        <5> QED
          BY <2>1, <3>3, <5>1
      <4> QED
        BY <4>2, <4>3
    <3> QED
      BY <3>4, <3>5
  <2>9. CASE Pump
    BY <2>3, <2>9 DEF Pump, TurnEnds, TurnFails, SendPart, SendFails, Finish, Notice
  <2>10. CASE DrainStep \/ RetryTimer \/ Forget
    BY <2>3, <2>10 DEF DrainStep, ListPending, DeliverNext, Acknowledge, DrainFails, RetryTimer, Forget
  <2> QED
    BY <1>3, <2>4, <2>5, <2>6, <2>7, <2>8, <2>9, <2>10 DEF Next, Admission
<1> QED
  BY <1>2, <1>3

LEMMA CopiesGrow ==
  ASSUME TypeOK, Next, NEW m \in Message, Once(copies', m)
  PROVE  Once(copies, m)
<1>1. copies \in [Message -> Nat]
  BY DEF TypeOK
<1>2. CASE UNCHANGED copies
  BY <1>2 DEF Once
<1>3. CASE \E k \in Message : Arrive(k)
  BY <1>1, <1>3 DEF Arrive, Once
<1>4. CASE \E a \in Activity : BeginActivity(a) \/ EndActivity(a)
  BY <1>2, <1>4 DEF BeginActivity, EndActivity
<1>5. CASE Admission \/ Transition \/ RetryTimer \/ Forget \/ Crash
  BY <1>2, <1>5 DEF Admission, GoOn, Hold, Insert, AdmissionFails, Transition, Publish, PublishFails, RetryTimer, Forget, Crash
<1>6. CASE Pump
  BY <1>2, <1>6 DEF Pump, TurnEnds, TurnFails, SendPart, SendFails, Finish, Notice
<1>7. CASE DrainStep
  BY <1>2, <1>7 DEF DrainStep, ListPending, DeliverNext, Acknowledge, DrainFails
<1> QED
  BY <1>3, <1>4, <1>5, <1>6, <1>7 DEF Next

LEMMA QueuedSame ==
  ASSUME QueuedByDrain(pump, prompts, failed, queue, copies), UNCHANGED prompts,
         pump'.bundle = pump.bundle, pump'.reply.keys = pump.reply.keys,
         \A i \in DOMAIN prompts : Cl(failed', prompts[i].m) = Cl(failed, prompts[i].m),
         \A m \in Message : Contains(queue', m) => Contains(queue, m),
         \A m \in Message : Once(copies', m) => Once(copies, m)
  PROVE  QueuedByDrain(pump', prompts', failed', queue', copies')
BY DEF QueuedByDrain

(* The entries of what is queued are the drain's. *)
LEMMA QueuedStep ==
  ASSUME MarksInv, OnePlace(tail, queue, inFlight, failed, copies),
         QueuedByDrain(pump, prompts, failed, queue, copies), Next
  PROVE  QueuedByDrain(pump', prompts', failed', queue', copies')
<1>1. /\ PumpInv(pump, prompts, inFlight, failed) /\ TypeOK /\ BatchQueued(drain, queue)
      /\ Marks(pump, prompts, inFlight, failed) /\ pump \in PumpType
      /\ queue \in Seq(Message) /\ IsInjective(queue)
  BY DEF MarksInv, PumpInv, TypeOK
<1>2. \A m \in Message : Once(copies', m) => Once(copies, m)
  BY <1>1, CopiesGrow
<1>3. CASE UNCHANGED <<pumping, queue>>
  <2>1. UNCHANGED <<pump, prompts, failed, queue>>
    BY <1>3 DEF pumping
  <2> QED
    BY <1>2, <2>1, QueuedSame
<1>4. CASE GoOn
  <2>1. queue' = <<>>
    BY <1>4 DEF GoOn, Protected
  <2>2. \A m : ~Contains(queue', m)
    BY <2>1 DEF Contains
  <2> QED
    BY <2>2 DEF QueuedByDrain
<1>5. CASE Insert \/ AdmissionFails
  <2>1. /\ Running("message") /\ queue' \in {queue, Rows(Head(tail).of)}
        /\ UNCHANGED <<pump, prompts, inFlight, failed>>
    BY <1>5 DEF Insert, AdmissionFails, pumping
  <2>2. Head(tail).of \in Message /\ 1 \in OnWay(tail, Head(tail).of)
    BY <1>1, <2>1, HeadWay
  <2> SUFFICES ASSUME NEW m \in Message, Once(copies, m), Contains(queue', m)
               PROVE  /\ m \in pump.reply.keys => \E i \in DOMAIN pump.bundle : pump.bundle[i].awaited
                      /\ \A i \in DOMAIN prompts : m \in Cl(failed, prompts[i].m) => prompts[i].awaited
    BY <1>2, <2>1 DEF QueuedByDrain
  <2>3. CASE Contains(queue, m)
    BY <2>3 DEF QueuedByDrain
  <2>4. CASE ~Contains(queue, m)
    <3>1. m = Head(tail).of
      BY <1>1, <2>1, <2>2, <2>4, RowAdded
    <3>2. m \notin inFlight
      BY <2>2, <3>1 DEF OnePlace, Busy
    <3> QED
      BY <1>1, <3>2 DEF Marks
  <2> QED
    BY <2>3, <2>4
<1>6. CASE DeliverNext
  <2>1. UNCHANGED queue
    BY <1>6 DEF DeliverNext
  <2>2. CASE UNCHANGED pumping
    BY <1>3, <2>1, <2>2
  <2>3. CASE drain.batch # <<>> /\ ~Dropped(Head(drain.batch)) /\ Admit(Head(drain.batch), TRUE)
    <3>1. Head(drain.batch) \in Message
      BY <1>1, <2>3 DEF BatchQueued
    <3>2. failed' = failed
      BY <2>3 DEF Admit
    <3>3. \A i \in DOMAIN prompts' : (\E j \in DOMAIN prompts : prompts'[i] = prompts[j]) \/ prompts'[i].awaited = TRUE
      BY <1>1, <2>3, <3>1, AdmitKeeps
    <3>4. \/ pump' = pump
          \/ \A k \in pump'.reply.keys : \E j \in DOMAIN pump'.bundle : pump'.bundle[j].awaited = TRUE
      BY <1>1, <2>3, <3>1, AdmitKeeps
    <3> SUFFICES ASSUME NEW m \in Message, Once(copies, m), Contains(queue, m)
                 PROVE  /\ m \in pump'.reply.keys => \E i \in DOMAIN pump'.bundle : pump'.bundle[i].awaited
                        /\ \A i \in DOMAIN prompts' : m \in Cl(failed, prompts'[i].m) => prompts'[i].awaited
      BY <1>2, <2>1, <3>2 DEF QueuedByDrain
    <3>5. m \in pump'.reply.keys => \E i \in DOMAIN pump'.bundle : pump'.bundle[i].awaited
      BY <3>4 DEF QueuedByDrain
    <3>6. \A i \in DOMAIN prompts' : m \in Cl(failed, prompts'[i].m) => prompts'[i].awaited
      BY <3>3 DEF QueuedByDrain
    <3> QED
      BY <3>5, <3>6
  <2> QED
    BY <1>6, <2>2, <2>3 DEF DeliverNext
<1>7. CASE Acknowledge
  <2>1. queue' = RemoveAt(queue, Row(Head(drain.batch))) /\ UNCHANGED <<pump, prompts, failed>> /\ drain.at = "ack"
    BY <1>7 DEF Acknowledge, pumping
  <2>2. Head(drain.batch) \in Message /\ Contains(queue, Head(drain.batch))
    <3>1. PICK b \in Seq(Message) : b = drain.batch /\ b # <<>> /\ \A j \in DOMAIN b : Contains(queue, b[j])
      BY <1>1, <2>1 DEF BatchQueued
    <3>2. Head(b) = b[1] /\ 1 \in DOMAIN b /\ Head(b) \in Message
      BY <3>1
    <3> QED
      BY <3>1, <3>2
  <2>3. \A m \in Message : Contains(queue', m) => Contains(queue, m)
    BY <1>1, <2>1, <2>2, RowRemoved
  <2> QED
    BY <1>2, <2>1, <2>3, QueuedSame
<1>8. CASE TurnEnds \/ TurnFails \/ SendPart
  <2>1. UNCHANGED <<prompts, failed, queue>>
    BY <1>8 DEF TurnEnds, TurnFails, SendPart
  <2>2. pump'.bundle = pump.bundle
    BY <1>1, <1>8, TurnEndsKeeps, TurnFailsKeeps, SendPartKeeps
  <2>3. pump'.reply.keys = pump.reply.keys
    <3>1. pump.reply \in Checkpoint
      BY <1>1 DEF PumpType
    <3>2. CASE TurnEnds
      <4>1. PICK parts \in Parts : pump' = [pump EXCEPT !.at = "send", !.reply.left = parts]
        BY <3>2 DEF TurnEnds
      <4> QED
        BY <1>1, <3>1, <4>1 DEF PumpType, Checkpoint
    <3>3. CASE TurnFails
      BY <1>1, <3>3 DEF TurnFails, PumpType
    <3>4. CASE SendPart
      BY <1>1, <3>1, <3>4 DEF SendPart, PumpType, Checkpoint
    <3> QED
      BY <1>8, <3>2, <3>3, <3>4
  <2> QED
    BY <1>2, <2>1, <2>2, <2>3, QueuedSame
<1>9. CASE SendFails
  <2>1. UNCHANGED <<prompts, queue>> /\ pump' = [pump EXCEPT !.at = "notice"]
    BY <1>9 DEF SendFails
  <2>2. pump'.bundle = pump.bundle /\ pump'.reply.keys = pump.reply.keys
    BY <1>1, <2>1 DEF PumpType
  <2>3. \A i \in DOMAIN prompts : Cl(failed', prompts[i].m) = Cl(failed, prompts[i].m)
    BY <1>1, <1>9, SendFailsKeeps
  <2> QED
    BY <1>2, <2>1, <2>2, <2>3, QueuedSame
<1>10. CASE Forget
  <2>1. UNCHANGED <<prompts, queue, pump>>
    BY <1>10 DEF Forget
  <2>2. \A i \in DOMAIN prompts : Cl(failed', prompts[i].m) = Cl(failed, prompts[i].m)
    BY <1>1, <1>10, ForgetKeeps
  <2> QED
    BY <1>2, <2>1, <2>2, QueuedSame
<1>11. CASE Finish \/ Notice
  <2>1. UNCHANGED queue
    BY <1>11 DEF Finish, Notice
  <2>2. Taken(pump', prompts', prompts, failed)
    BY <1>1, <1>11, FinishKeeps, NoticeKeeps
  <2>3. \A i \in DOMAIN prompts : Cl(failed', prompts[i].m) = Cl(failed, prompts[i].m)
    BY <1>1, <1>11, FinishKeeps, NoticeKeeps
  <2>4. \A i \in DOMAIN prompts' : \E j \in DOMAIN prompts : prompts'[i] = prompts[j]
    BY <2>2 DEF Taken
  <2>5. \A i \in DOMAIN pump'.bundle : \E j \in DOMAIN prompts : pump'.bundle[i] = prompts[j]
    BY <2>2 DEF Taken
  <2> SUFFICES ASSUME NEW m \in Message, Once(copies, m), Contains(queue, m)
               PROVE  /\ m \in pump'.reply.keys => \E i \in DOMAIN pump'.bundle : pump'.bundle[i].awaited
                      /\ \A i \in DOMAIN prompts' : m \in Cl(failed', prompts'[i].m) => prompts'[i].awaited
    BY <1>2, <2>1 DEF QueuedByDrain
  <2>6. \A i \in DOMAIN prompts' : m \in Cl(failed', prompts'[i].m) => prompts'[i].awaited
    BY <2>3, <2>4 DEF QueuedByDrain
  <2>7. ASSUME m \in pump'.reply.keys PROVE \E i \in DOMAIN pump'.bundle : pump'.bundle[i].awaited
    <3>1. PICK j \in DOMAIN pump'.bundle : m \in Cl(failed, pump'.bundle[j].m)
      BY <2>2, <2>7 DEF Taken
    <3>2. pump'.bundle[j].awaited
      BY <2>5, <3>1 DEF QueuedByDrain
    <3> QED
      BY <3>1, <3>2
  <2> QED
    BY <2>6, <2>7
<1>12. CASE Crash
  <2>1. prompts' = <<>> /\ pump'.reply.keys = {}
    BY <1>12 DEF Crash, Idle, NoReply
  <2> QED
    BY <2>1 DEF QueuedByDrain
<1>13. CASE \E m \in Message : Arrive(m)
  BY <1>3, <1>13 DEF Arrive
<1>14. CASE \E a \in Activity : BeginActivity(a) \/ EndActivity(a)
  BY <1>3, <1>14 DEF BeginActivity, EndActivity
<1>15. CASE Hold \/ Transition \/ RetryTimer
  BY <1>3, <1>15 DEF Hold, Transition, Publish, PublishFails, RetryTimer
<1>16. CASE ListPending \/ DrainFails
  BY <1>3, <1>16 DEF ListPending, DrainFails
<1> QED
  BY <1>4, <1>5, <1>6, <1>7, <1>8, <1>9, <1>10, <1>11, <1>12, <1>13, <1>14, <1>15, <1>16
     DEF Next, Admission, DrainStep, Pump

(* A message whose checkpoint the pump has is in flight itself. *)
LEMMA DroppedIs ==
  ASSUME PumpInv(pump, prompts, inFlight, failed), NEW m \in Message, Dropped(m)
  PROVE  m \in recent \/ m \in pump.reply.keys \/ \E i \in DOMAIN prompts : m \in Cl(failed, prompts[i].m)
<1>1. /\ failed \in [Message -> Checkpoint] /\ GroupsClosed(failed) /\ PumpGroup(pump, failed)
      /\ Marks(pump, prompts, inFlight, failed)
  BY DEF PumpInv
<1> SUFFICES ASSUME m \notin recent
             PROVE  m \in pump.reply.keys \/ \E i \in DOMAIN prompts : m \in Cl(failed, prompts[i].m)
  OBVIOUS
<1>2. PICK x \in inFlight : x \in Cl(failed, m)
  BY DEF Dropped, Claims, Resumable, Cl
<1>3. x \in pump.reply.keys \/ \E i \in DOMAIN prompts : x \in Cl(failed, prompts[i].m)
  BY <1>1 DEF Marks
<1>4. CASE failed[m] = NoReply
  BY <1>2, <1>3, <1>4 DEF Cl
<1>5. CASE failed[m] # NoReply
  <2>1. failed[x] = failed[m] /\ m \in failed[m].keys
    BY <1>1, <1>2, <1>5 DEF Cl, GroupsClosed
  <2>2. CASE x \in pump.reply.keys
    BY <1>1, <1>5, <2>1, <2>2 DEF PumpGroup
  <2>3. ASSUME NEW i \in DOMAIN prompts, x \in Cl(failed, prompts[i].m)
        PROVE  m \in Cl(failed, prompts[i].m)
    <3>1. prompts[i] \in Entry
      BY DEF PumpInv, Orderly
    <3>2. prompts[i].m \in Message
      BY <3>1 DEF Entry
    <3>3. failed[x] = failed[prompts[i].m]
      BY <1>1, <2>3, <3>2 DEF Cl, GroupsClosed
    <3> QED
      BY <1>5, <2>1, <3>3 DEF Cl
  <2> QED
    BY <1>3, <2>2, <2>3
<1> QED
  BY <1>4, <1>5

LEMMA AckSame ==
  ASSUME TypeOK, Next, BatchQueued(drain, queue), AckKnown(drain, replied, copies), replied \subseteq replied',
         drain'.at = "ack" => drain' = drain
  PROVE  AckKnown(drain', replied', copies')
<1> SUFFICES ASSUME drain'.at = "ack", Head(drain.batch) \notin replied, Once(copies', Head(drain.batch)) PROVE FALSE
  BY DEF AckKnown
<1>1. Head(drain.batch) \in Message
  BY DEF BatchQueued
<1>2. Once(copies, Head(drain.batch))
  BY <1>1, CopiesGrow
<1> QED
  BY <1>2 DEF AckKnown

(* Whenever the drain is about to acknowledge a message, its reply is out. *)
LEMMA AckStep ==
  ASSUME MarksInv, AckInv, Next
  PROVE  AckKnown(drain', replied', copies') /\ recent' \subseteq replied'
<1>1. /\ PumpInv(pump, prompts, inFlight, failed) /\ TypeOK /\ BatchQueued(drain, queue)
      /\ AwaitedIsHead(pump, prompts, drain) /\ BundleCovered(pump)
  BY DEF MarksInv, PumpInv
<1>2. /\ AckKnown(drain, replied, copies) /\ recent \subseteq replied
      /\ QueuedByDrain(pump, prompts, failed, queue, copies)
  BY DEF AckInv
<1>3. ASSUME UNCHANGED <<recent, replied>>, drain'.at = "ack" => drain' = drain
      PROVE  AckKnown(drain', replied', copies') /\ recent' \subseteq replied'
  BY <1>1, <1>2, <1>3, AckSame
<1>4. ASSUME NEW again, DrainEnds(again) PROVE drain'.at # "ack"
  BY <1>4 DEF DrainEnds, DrainOff
<1>5. ASSUME ScheduleDrain PROVE drain'.at = "ack" => drain' = drain
  BY <1>5 DEF ScheduleDrain
<1>6. CASE GoOn
  BY <1>3, <1>6 DEF GoOn, Admit, draining, pumping
<1>7. CASE Insert \/ AdmissionFails
  BY <1>3, <1>5, <1>7 DEF Insert, AdmissionFails, Wake, draining, pumping, ghost
<1>8. CASE Publish \/ RetryTimer
  BY <1>3, <1>5, <1>8 DEF Publish, RetryTimer, draining, pumping, ghost
<1>9. CASE ListPending
  <2>1. UNCHANGED <<recent, replied>>
    BY <1>9 DEF ListPending, pumping, ghost
  <2>2. DrainEnds(FALSE) \/ \E b : drain' = [at |-> "next", batch |-> b]
    BY <1>9 DEF ListPending
  <2>3. drain'.at # "ack"
    <3>1. CASE DrainEnds(FALSE)
      BY <1>4, <3>1
    <3>2. CASE \E b : drain' = [at |-> "next", batch |-> b]
      <4>1. PICK b : drain' = [at |-> "next", batch |-> b]
        BY <3>2
      <4> QED
        BY <4>1
    <3> QED
      BY <2>2, <3>1, <3>2
  <2> QED
    BY <1>3, <2>1, <2>3
<1>10. CASE DeliverNext
  <2>1. drain.at = "next" /\ UNCHANGED <<recent, replied, queue, copies>>
    BY <1>10 DEF DeliverNext, Admit, pumping
  <2>2. CASE drain'.at # "ack"
    BY <1>3, <2>1, <2>2
  <2>3. CASE drain.batch # <<>> /\ Dropped(Head(drain.batch)) /\ drain' = [drain EXCEPT !.at = "ack"]
    <3>1. PICK b \in Seq(Message) : b = drain.batch /\ b # <<>> /\ \A j \in DOMAIN b : Contains(queue, b[j])
      BY <1>1, <2>3 DEF BatchQueued
    <3>2. Head(b) = b[1] /\ 1 \in DOMAIN b /\ Head(b) \in Message
      BY <3>1
    <3>3. Contains(queue, Head(b))
      BY <3>1, <3>2
    <3>4. drain'.batch = b
      BY <1>1, <2>3, <3>1 DEF TypeOK
    <3>5. Head(b) \in replied \/ ~Once(copies, Head(b))
      <4> SUFFICES ASSUME Once(copies, Head(b)), Head(b) \notin replied PROVE FALSE
        OBVIOUS
      <4>1. Head(b) \in pump.reply.keys \/ \E i \in DOMAIN prompts : Head(b) \in Cl(failed, prompts[i].m)
        BY <1>1, <1>2, <2>3, <3>1, <3>2, DroppedIs
      <4>2. \/ \E i \in DOMAIN pump.bundle : pump.bundle[i].awaited
            \/ \E i \in DOMAIN prompts : prompts[i].awaited
        BY <1>2, <3>2, <3>3, <4>1 DEF QueuedByDrain
      <4> QED
        BY <1>1, <2>1, <4>2 DEF AwaitedIsHead
    <3> QED
      BY <1>2, <2>1, <3>4, <3>5 DEF AckKnown
  <2>4. ASSUME NEW to \in {"list", "await"}, drain' = [drain EXCEPT !.at = to] PROVE drain'.at # "ack"
    BY <1>1, <2>4 DEF TypeOK
  <2> QED
    BY <1>4, <1>10, <2>2, <2>3, <2>4 DEF DeliverNext
<1>11. CASE Acknowledge
  BY <1>3, <1>11 DEF Acknowledge, pumping, ghost
<1>12. CASE DrainFails
  BY <1>3, <1>4, <1>12 DEF DrainFails, pumping, ghost
<1>13. CASE TurnEnds \/ TurnFails \/ SendPart \/ SendFails
  BY <1>3, <1>13 DEF TurnEnds, TurnFails, SendPart, SendFails, draining, ghost
<1>14. CASE Finish
  <2>1. /\ recent' = recent \cup pump.reply.keys /\ replied' = replied \cup pump.reply.keys
        /\ drain' = IF Awaited THEN [drain EXCEPT !.at = "ack"] ELSE drain
    BY <1>14 DEF Finish
  <2>2. recent' \subseteq replied'
    BY <1>2, <2>1
  <2>3. CASE ~Awaited
    BY <1>1, <1>2, <2>1, <2>2, <2>3, AckSame
  <2>4. CASE Awaited
    <3>1. PICK i \in DOMAIN pump.bundle : pump.bundle[i].awaited
      BY <2>4 DEF Awaited
    <3>2. pump.bundle[i].m = Head(drain.batch)
      BY <1>1, <3>1 DEF AwaitedIsHead
    <3>3. Head(drain.batch) \in replied'
      BY <1>1, <2>1, <3>1, <3>2 DEF BundleCovered, Keys
    <3>4. drain'.batch = drain.batch
      BY <1>1, <2>1, <2>4 DEF TypeOK
    <3> QED
      BY <2>2, <3>3, <3>4 DEF AckKnown
  <2> QED
    BY <2>3, <2>4
<1>15. CASE Notice
  <2>1. UNCHANGED <<recent, replied>> /\ Reject
    BY <1>15 DEF Notice
  <2>2. drain'.at = "ack" => drain' = drain
    BY <1>4, <2>1 DEF Reject, draining
  <2> QED
    BY <1>3, <2>1, <2>2
<1>16. CASE Forget
  <2>1. recent' \subseteq recent /\ UNCHANGED <<replied, drain>>
    BY <1>16 DEF Forget, draining
  <2> QED
    BY <1>1, <1>2, <2>1, AckSame
<1>17. CASE Crash
  <2>1. recent' = {} /\ drain'.at = "list" /\ UNCHANGED replied
    BY <1>17 DEF Crash
  <2> QED
    BY <2>1 DEF AckKnown
<1>18. CASE \E m \in Message : Arrive(m)
  BY <1>3, <1>18 DEF Arrive, pumping, draining
<1>19. CASE \E a \in Activity : BeginActivity(a) \/ EndActivity(a)
  BY <1>3, <1>19 DEF BeginActivity, EndActivity, pumping, draining, ghost
<1>20. CASE Hold \/ PublishFails
  BY <1>3, <1>20 DEF Hold, PublishFails, pumping, draining, ghost
<1> QED
  BY <1>6, <1>7, <1>8, <1>9, <1>10, <1>11, <1>12, <1>13, <1>14, <1>15, <1>16, <1>17, <1>18, <1>19, <1>20
     DEF Next, Admission, Transition, DrainStep, Pump

LEMMA AckInit == Init => AckInv
<1> SUFFICES ASSUME Init PROVE AckInv
  OBVIOUS
<1>1. /\ drain.at = "off" /\ recent = {} /\ tail = <<>> /\ queue = <<>> /\ inFlight = {} /\ prompts = <<>>
      /\ pump.reply.keys = {} /\ \A m \in Message : failed[m] = NoReply
  BY DEF Init, DrainOff, Idle, NoReply
<1>2. \A m : OnWay(tail, m) = {} /\ ~Contains(queue, m)
  BY <1>1 DEF OnWay, Contains
<1>3. OnePlace(tail, queue, inFlight, failed, copies)
  BY <1>1, <1>2 DEF OnePlace, Busy
<1> QED
  BY <1>1, <1>2, <1>3 DEF AckInv, AckKnown, QueuedByDrain

LEMMA AckNext == MarksInv /\ AckInv /\ [Next]_vars => AckInv'
<1> SUFFICES ASSUME MarksInv, AckInv, [Next]_vars PROVE AckInv'
  OBVIOUS
<1>1. CASE Next
  BY <1>1, AckStep, OnePlaceStep, QueuedStep DEF AckInv
<1>2. CASE UNCHANGED vars
  <2>1. UNCHANGED <<drain, replied, copies, recent, tail, queue, inFlight, failed, pump, prompts>>
    BY <1>2 DEF vars
  <2> QED
    BY <2>1 DEF AckInv
<1> QED
  BY <1>1, <1>2

(* A row leaves only when it is acknowledged. *)
LEMMA RowsLeave ==
  ASSUME MarksInv, [Next]_vars, NEW m \in Message, Contains(queue, m), ~Contains(queue', m)
  PROVE  drain.at = "ack" /\ m = Head(drain.batch)
<1>1. queue \in Seq(Message) /\ IsInjective(queue) /\ BatchQueued(drain, queue) /\ TypeOK
  BY DEF MarksInv, TypeOK
<1>2. CASE UNCHANGED queue
  BY <1>2
<1>3. CASE Insert \/ AdmissionFails
  <2>1. Running("message") /\ queue' \in {queue, Rows(Head(tail).of)}
    BY <1>3 DEF Insert, AdmissionFails
  <2>2. Head(tail).of \in Message
    BY <1>1, <2>1, HeadWay
  <2> QED
    BY <1>1, <2>1, <2>2, RowAdded
<1>4. CASE Acknowledge
  <2>1. queue' = RemoveAt(queue, Row(Head(drain.batch))) /\ drain.at = "ack"
    BY <1>4 DEF Acknowledge
  <2>2. Head(drain.batch) \in Message /\ Contains(queue, Head(drain.batch))
    <3>1. PICK b \in Seq(Message) : b = drain.batch /\ b # <<>> /\ \A j \in DOMAIN b : Contains(queue, b[j])
      BY <1>1, <2>1 DEF BatchQueued
    <3>2. Head(b) = b[1] /\ 1 \in DOMAIN b /\ Head(b) \in Message
      BY <3>1
    <3> QED
      BY <3>1, <3>2
  <2>3. Contains(queue', m) <=> Contains(queue, m) /\ m # Head(drain.batch)
    BY <1>1, <2>1, <2>2, RowRemoved
  <2> QED
    BY <2>1, <2>3
<1>5. CASE (\E k \in Message : Arrive(k)) \/ \E a \in Activity : BeginActivity(a) \/ EndActivity(a)
  BY <1>2, <1>5 DEF Arrive, BeginActivity, EndActivity
<1>6. CASE GoOn \/ Hold \/ Transition \/ RetryTimer \/ Forget \/ Crash
  BY <1>2, <1>6 DEF GoOn, Hold, Transition, Publish, PublishFails, RetryTimer, Forget, Crash
<1>7. CASE Pump
  BY <1>2, <1>7 DEF Pump, TurnEnds, TurnFails, SendPart, SendFails, Finish, Notice
<1>8. CASE ListPending \/ DeliverNext \/ DrainFails
  BY <1>2, <1>8 DEF ListPending, DeliverNext, DrainFails
<1>9. CASE UNCHANGED vars
  BY <1>2, <1>9 DEF vars
<1> QED
  BY <1>3, <1>4, <1>5, <1>6, <1>7, <1>8, <1>9 DEF Next, Admission, DrainStep

(* A row leaves the durable queue only when the reply to its message has been delivered,   *)
(* if the gateway has delivered the message once: not when the turn or a send failed, and  *)
(* not because the pump dropped the message as one it had already                          *)
(* (CompanionAvailability.drain, the deliverer, handleDiscordMessage).                     *)
THEOREM RowsOutliveDelivery == Spec => AckAfterDelivery
<1>1. ASSUME MarksInv, AckInv, [Next]_vars
      PROVE  [\A m \in Message : Contains(queue, m) /\ ~Contains(queue', m) => m \in replied \/ copies[m] > 1]_vars
  <2> SUFFICES ASSUME NEW m \in Message, Contains(queue, m), ~Contains(queue', m)
               PROVE  m \in replied \/ copies[m] > 1
    OBVIOUS
  <2>1. drain.at = "ack" /\ m = Head(drain.batch)
    BY <1>1, RowsLeave
  <2>2. m \in replied \/ ~Once(copies, m)
    BY <1>1, <2>1 DEF AckInv, AckKnown
  <2>3. copies[m] \in Nat
    BY <1>1 DEF MarksInv, TypeOK
  <2> QED
    BY <2>2, <2>3 DEF Once
<1>2. Spec => []AckInv
  BY AckInit, AckNext, MarksAlways, PTL DEF Spec
<1> QED
  BY <1>1, <1>2, MarksAlways, PTL DEF Spec, AckAfterDelivery

-----------------------------------------------------------------------------
(* The order of turns *)

(* Turns begin for a part of the entries that wait. *)
LEMMA LineBegins ==
  ASSUME NEW A, NEW L, NEW B, NEW C, NEW P, NEW R, NEW Q, NEW T, Line(A, L, B, P, Q, T),
         ArrivedOnce(A, C), TurnsOrdered(A, L, C), EntriesOrdered(A, L, C, R),
         \A u : Contains(B, u) => Contains(C, u),
         \A u \in Keys(P) : Contains(C, u) \/ u \in Keys(R)
  PROVE  Line(A, L, C, R, Q, T)
<1>1. /\ RowsOrdered(A, L, B, P, Q) /\ TailOrdered(A, L, B, P, Q, T) /\ NoneLost(A, L, B, P, Q, T)
  BY DEF Line
<1>2. \A v : \A u \in Due(A, L, C, v) : u \in Due(A, L, B, v) /\ ~Contains(C, u)
  BY DEF Due
<1>3. RowsOrdered(A, L, C, R, Q)
  BY <1>1, <1>2 DEF RowsOrdered
<1>4. TailOrdered(A, L, C, R, Q, T)
  BY <1>1, <1>2 DEF TailOrdered
<1>5. NoneLost(A, L, C, R, Q, T)
  BY <1>1 DEF NoneLost
<1> QED
  BY <1>3, <1>4, <1>5 DEF Line

LEMMA KeysAppend ==
  ASSUME NEW P \in Seq(Entry), NEW e \in Entry
  PROVE  Keys(Append(P, e)) = Keys(P) \cup {e.m}
<1>1. DOMAIN Append(P, e) = DOMAIN P \cup {Len(P) + 1} /\ Append(P, e)[Len(P) + 1] = e
  OBVIOUS
<1>2. \A i \in DOMAIN P : Append(P, e)[i] = P[i]
  OBVIOUS
<1>3. PICK R : R = Append(P, e)
  OBVIOUS
<1> QED
  BY <1>1, <1>2, <1>3 DEF Keys

(* An entry joins those that wait when everything due before it waits there too. *)
LEMMA EntryJoins ==
  ASSUME NEW A, NEW L, NEW B, NEW P \in Seq(Entry), NEW Q, NEW T, Line(A, L, B, P, Q, T),
         NEW e \in Entry, Contains(A, e.m), Due(A, L, B, e.m) \subseteq Keys(P)
  PROVE  Line(A, L, B, Append(P, e), Q, T)
<1>0. PICK R \in Seq(Entry) : R = Append(P, e) /\ Len(R) = Len(P) + 1 /\ R[Len(R)] = e
                              /\ \A i \in DOMAIN P : R[i] = P[i]
  <2>1. Append(P, e) \in Seq(Entry) /\ Len(Append(P, e)) = Len(P) + 1
    OBVIOUS
  <2>2. Append(P, e)[Len(P) + 1] = e /\ \A i \in DOMAIN P : Append(P, e)[i] = P[i]
    OBVIOUS
  <2> QED
    BY <2>1, <2>2
<1>1. DOMAIN P = 1 .. Len(P) /\ DOMAIN R = 1 .. Len(R) /\ Len(P) \in Nat
  OBVIOUS
<1>2. Keys(P) \subseteq Keys(R) /\ Keys(R) = Keys(P) \cup {e.m}
  <2>1. \A i \in DOMAIN R : i \in DOMAIN P \/ (i = Len(R) /\ R[i] = e)
    BY <1>0, <1>1
  <2>2. DOMAIN P \subseteq DOMAIN R /\ Len(R) \in DOMAIN R
    BY <1>0, <1>1
  <2> QED
    BY <1>0, <2>1, <2>2 DEF Keys
<1>3. EntriesOrdered(A, L, B, R)
  <2>0. EntriesOrdered(A, L, B, P)
    BY DEF Line
  <2> SUFFICES ASSUME NEW j \in DOMAIN R
               PROVE  Contains(A, R[j].m) /\ Due(A, L, B, R[j].m) \subseteq FirstKeys(R, j)
    BY DEF EntriesOrdered
  <2>1. CASE j \in DOMAIN P
    <3>1. FirstKeys(P, j) \subseteq FirstKeys(R, j)
      BY <1>0, <1>1 DEF FirstKeys
    <3> QED
      BY <1>0, <2>0, <2>1, <3>1 DEF EntriesOrdered
  <2>2. CASE j \notin DOMAIN P
    <3>1. j = Len(R) /\ R[j] = e
      BY <1>0, <1>1, <2>2
    <3>2. Keys(P) \subseteq FirstKeys(R, j)
      BY <1>0, <1>1, <3>1 DEF FirstKeys, Keys
    <3> QED
      BY <3>1, <3>2
  <2> QED
    BY <2>1, <2>2
<1>4. RowsOrdered(A, L, B, R, Q) /\ TailOrdered(A, L, B, R, Q, T) /\ NoneLost(A, L, B, R, Q, T)
  BY <1>2 DEF Line, RowsOrdered, TailOrdered, NoneLost
<1> QED
  BY <1>0, <1>2, <1>3, <1>4 DEF Line

(* More is turned away. *)
LEMMA MoreTurnedAway ==
  ASSUME NEW A, NEW L, NEW M, L \subseteq M, NEW B, NEW P, NEW Q, NEW T, Line(A, L, B, P, Q, T)
  PROVE  Line(A, M, B, P, Q, T)
<1>1. \A v : Due(A, M, B, v) \subseteq Due(A, L, B, v)
  BY DEF Due
<1>2. TurnsOrdered(A, M, B)
  BY DEF Line, TurnsOrdered
<1>3. EntriesOrdered(A, M, B, P) /\ RowsOrdered(A, M, B, P, Q) /\ TailOrdered(A, M, B, P, Q, T)
  BY <1>1 DEF Line, EntriesOrdered, RowsOrdered, TailOrdered
<1>4. NoneLost(A, M, B, P, Q, T)
  BY DEF Line, NoneLost
<1> QED
  BY <1>2, <1>3, <1>4 DEF Line

(* The head of the tail leaves it, for the entries, for the rows or for nothing. *)
LEMMA HeadLeaves ==
  ASSUME NEW A, NEW L, NEW B, NEW P, NEW Q, NEW S, NEW T \in Seq(S), T # <<>>,
         TailOrdered(A, L, B, P, Q, T), NoneLost(A, L, B, P, Q, T),
         NEW R, NEW V, Keys(P) \subseteq Keys(R), Range(Q) \subseteq Range(V),
         T[1].kind = "message" =>
           Contains(B, T[1].of) \/ T[1].of \in Keys(R) \cup Range(V) \cup L
  PROVE  TailOrdered(A, L, B, R, V, Tail(T)) /\ NoneLost(A, L, B, R, V, Tail(T))
<1>0. PICK U \in Seq(S) : U = Tail(T) /\ Len(U) = Len(T) - 1 /\ \A i \in DOMAIN U : U[i] = T[i + 1]
  <2>1. Len(T) \in Nat \ {0} /\ Tail(T) \in Seq(S) /\ Len(Tail(T)) = Len(T) - 1
    OBVIOUS
  <2>2. \A i \in 1 .. Len(T) - 1 : Tail(T)[i] = T[i + 1]
    OBVIOUS
  <2>3. DOMAIN Tail(T) = 1 .. Len(T) - 1
    BY <2>1
  <2> QED
    BY <2>1, <2>2, <2>3
<1>1. Len(T) \in Nat \ {0} /\ DOMAIN T = 1 .. Len(T) /\ DOMAIN U = 1 .. Len(T) - 1 /\ Len(U) + 1 \in Nat
  BY <1>0
<1>2. \A n \in Nat : \A u \in FirstMessages(T, n + 1) :
        u \in FirstMessages(U, n) \/ (T[1].kind = "message" /\ u = T[1].of)
  <2> SUFFICES ASSUME NEW n \in Nat, NEW i \in DOMAIN T, i < n + 1, T[i].kind = "message", i # 1
               PROVE  T[i].of \in FirstMessages(U, n)
    BY DEF FirstMessages
  <2>1. i - 1 \in DOMAIN U /\ U[i - 1] = T[i] /\ i - 1 < n
    BY <1>0, <1>1
  <2> QED
    BY <2>1 DEF FirstMessages
<1>3. \A u \in Message \ L : ~Contains(B, u) =>
        (T[1].kind = "message" /\ u = T[1].of => u \in Keys(R) \cup Range(V))
  OBVIOUS
<1>4. TailOrdered(A, L, B, R, V, U)
  <2> SUFFICES ASSUME NEW j \in DOMAIN U, U[j].kind = "message"
               PROVE  /\ Contains(A, U[j].of)
                      /\ Due(A, L, B, U[j].of) \subseteq Keys(R) \cup Range(V) \cup FirstMessages(U, j)
    BY DEF TailOrdered
  <2>1. j + 1 \in DOMAIN T /\ T[j + 1] = U[j] /\ j \in Nat
    BY <1>0, <1>1
  <2>2. /\ Contains(A, U[j].of)
        /\ Due(A, L, B, U[j].of) \subseteq Keys(P) \cup Range(Q) \cup FirstMessages(T, j + 1)
    BY <2>1 DEF TailOrdered
  <2>3. \A u \in Due(A, L, B, U[j].of) : u \in Message \ L /\ ~Contains(B, u)
    BY DEF Due
  <2> QED
    BY <1>2, <1>3, <2>1, <2>2, <2>3
<1>5. NoneLost(A, L, B, R, V, U)
  <2> SUFFICES ASSUME NEW u \in Message \ L, Contains(A, u), ~Contains(B, u)
               PROVE  u \in Keys(R) \cup Range(V) \cup FirstMessages(U, Len(U) + 1)
    BY DEF NoneLost
  <2>1. u \in Keys(P) \cup Range(Q) \cup FirstMessages(T, Len(T) + 1)
    BY DEF NoneLost
  <2>2. Len(T) + 1 = (Len(U) + 1) + 1
    BY <1>0, <1>1
  <2>3. u \in FirstMessages(T, Len(T) + 1) =>
          u \in FirstMessages(U, Len(U) + 1) \/ (T[1].kind = "message" /\ u = T[1].of)
    BY <1>1, <1>2, <2>2
  <2> QED
    BY <1>3, <2>1, <2>3
<1> QED
  BY <1>0, <1>4, <1>5

(* Only the progress of an admission or a transition changes in the tail. *)
LEMMA TailAdvances ==
  ASSUME NEW A, NEW L, NEW B, NEW P, NEW Q, NEW T, NEW U, Line(A, L, B, P, Q, T),
         DOMAIN U = DOMAIN T, Len(U) = Len(T),
         \A i \in DOMAIN T : U[i].kind = T[i].kind /\ U[i].of = T[i].of
  PROVE  Line(A, L, B, P, Q, U)
<1>1. \A n : FirstMessages(U, n) = FirstMessages(T, n)
  BY DEF FirstMessages
<1>2. TailOrdered(A, L, B, P, Q, U)
  BY <1>1 DEF Line, TailOrdered
<1>3. NoneLost(A, L, B, P, Q, U)
  BY <1>1 DEF Line, NoneLost
<1> QED
  BY <1>2, <1>3 DEF Line

(* A transition joins the tail. *)
LEMMA TransitionJoins ==
  ASSUME NEW A, NEW L, NEW B, NEW P, NEW Q, NEW S, NEW T \in Seq(S), Line(A, L, B, P, Q, T),
         NEW x \in S, x.kind # "message"
  PROVE  Line(A, L, B, P, Q, Append(T, x))
<1>0. PICK U \in Seq(S) : U = Append(T, x) /\ Len(U) = Len(T) + 1 /\ U[Len(U)] = x
                          /\ \A i \in DOMAIN T : U[i] = T[i]
  <2>1. Append(T, x) \in Seq(S) /\ Len(Append(T, x)) = Len(T) + 1
    OBVIOUS
  <2>2. Append(T, x)[Len(T) + 1] = x /\ \A i \in DOMAIN T : Append(T, x)[i] = T[i]
    OBVIOUS
  <2> QED
    BY <2>1, <2>2
<1>1. DOMAIN T = 1 .. Len(T) /\ DOMAIN U = 1 .. Len(T) + 1 /\ Len(T) \in Nat
  BY <1>0
<1>2. \A j \in DOMAIN U : U[j].kind = "message" => j \in DOMAIN T
  BY <1>0, <1>1
<1>3. \A n : FirstMessages(T, n) \subseteq FirstMessages(U, n)
  BY <1>0, <1>1 DEF FirstMessages
<1>4. FirstMessages(T, Len(T) + 1) \subseteq FirstMessages(U, Len(U) + 1)
  BY <1>0, <1>1 DEF FirstMessages
<1>5. TailOrdered(A, L, B, P, Q, U)
  BY <1>0, <1>2, <1>3 DEF Line, TailOrdered
<1>6. NoneLost(A, L, B, P, Q, U)
  BY <1>4 DEF Line, NoneLost
<1> QED
  BY <1>0, <1>5, <1>6 DEF Line

(* What is before a message in the order of arrival is not changed by one that arrives. *)
LEMMA ArrivalAppends ==
  ASSUME NEW A \in Seq(Message), NEW m \in Message, ~Contains(A, m)
  PROVE  /\ Append(A, m) \in Seq(Message)
         /\ \A u : Contains(Append(A, m), u) <=> Contains(A, u) \/ u = m
         /\ \A u, v : Earlier(A, u, v) => Earlier(Append(A, m), u, v)
         /\ \A u, v : Earlier(Append(A, m), u, v) =>
              Contains(A, u) /\ (Earlier(A, u, v) \/ v = m)
         /\ (\A k, l \in DOMAIN A : A[k] = A[l] => k = l) =>
              \A k, l \in DOMAIN Append(A, m) : Append(A, m)[k] = Append(A, m)[l] => k = l
<1>0. PICK U \in Seq(Message) : U = Append(A, m) /\ Len(U) = Len(A) + 1 /\ U[Len(A) + 1] = m
                          /\ \A i \in 1 .. Len(A) : U[i] = A[i]
  <2>1. Append(A, m) \in Seq(Message) /\ Len(Append(A, m)) = Len(A) + 1
    OBVIOUS
  <2>2. Append(A, m)[Len(A) + 1] = m /\ \A i \in 1 .. Len(A) : Append(A, m)[i] = A[i]
    OBVIOUS
  <2> QED
    BY <2>1, <2>2
<1>1. DOMAIN A = 1 .. Len(A) /\ DOMAIN U = 1 .. Len(A) + 1 /\ Len(A) \in Nat
  BY <1>0
<1>2. \A i \in DOMAIN U : (i \in 1 .. Len(A) /\ U[i] = A[i]) \/ (i = Len(A) + 1 /\ U[i] = m)
  BY <1>0, <1>1
<1>3. \A u : Contains(U, u) <=> Contains(A, u) \/ u = m
  <2>1. \A u : Contains(U, u) => Contains(A, u) \/ u = m
    BY <1>0, <1>1, <1>2 DEF Contains
  <2>2. \A u : Contains(A, u) => Contains(U, u)
    BY <1>0, <1>1 DEF Contains
  <2>3. Contains(U, m)
    BY <1>0, <1>1 DEF Contains
  <2> QED
    BY <2>1, <2>2, <2>3
<1>4. \A u, v : Earlier(A, u, v) => Earlier(U, u, v)
  BY <1>0, <1>1 DEF Earlier
<1>5. ASSUME NEW u, NEW v, Earlier(U, u, v) PROVE Contains(A, u) /\ (Earlier(A, u, v) \/ v = m)
  <2>1. PICK k, l \in DOMAIN U : k < l /\ U[k] = u /\ U[l] = v
    BY <1>5 DEF Earlier
  <2>2. k \in 1 .. Len(A) /\ A[k] = u
    BY <1>0, <1>1, <2>1
  <2>3. CASE l = Len(A) + 1
    BY <1>0, <2>1, <2>2, <2>3 DEF Contains
  <2>4. CASE l \in 1 .. Len(A)
    BY <1>0, <1>1, <2>1, <2>2, <2>4 DEF Contains, Earlier
  <2> QED
    BY <1>1, <2>3, <2>4
<1>6. ASSUME \A k, l \in DOMAIN A : A[k] = A[l] => k = l
      PROVE  \A k, l \in DOMAIN U : U[k] = U[l] => k = l
  <2>1. \A k \in 1 .. Len(A) : A[k] # m
    BY DEF Contains
  <2> QED
    BY <1>1, <1>2, <1>6, <2>1
<1> QED
  BY <1>0, <1>3, <1>4, <1>5, <1>6

LEMMA EarlierArrived ==
  ASSUME NEW A \in Seq(Message), NEW u, NEW v, Earlier(A, u, v)
  PROVE  Contains(A, u) /\ Contains(A, v)
BY DEF Earlier, Contains

(* The order of arrival U fits once m has arrived after A, whatever tail m is about to join. *)
ArrivalFits(A, L, B, P, Q, T, m, U) ==
  /\ ArrivedOnce(U, B) /\ TurnsOrdered(U, L, B)
  /\ EntriesOrdered(U, L, B, P) /\ RowsOrdered(U, L, B, P, Q) /\ TailOrdered(U, L, B, P, Q, T)
  /\ Contains(U, m) /\ \A u : Contains(U, u) => Contains(A, u) \/ u = m

(* A message arrives for the first time: it is the last of all. *)
LEMMA ArrivalLine ==
  ASSUME NEW A, NEW L, NEW B, NEW P, NEW Q, NEW T, Line(A, L, B, P, Q, T), NEW m \in Message, ~Contains(A, m),
         NEW U, U = Append(A, m)
  PROVE  ArrivalFits(A, L, B, P, Q, T, m, U)
<1>1. A \in Seq(Message) /\ ArrivedOnce(A, B) /\ TurnsOrdered(A, L, B)
  BY DEF Line, ArrivedOnce
<1>2. /\ U \in Seq(Message)
      /\ \A u : Contains(U, u) <=> Contains(A, u) \/ u = m
      /\ \A u, v : Earlier(A, u, v) => Earlier(U, u, v)
      /\ \A u, v : Earlier(U, u, v) => Contains(A, u) /\ (Earlier(A, u, v) \/ v = m)
  BY <1>1, ArrivalAppends
<1>3. \A k, l \in DOMAIN U : U[k] = U[l] => k = l
  BY <1>1, ArrivalAppends DEF ArrivedOnce
<1>4. ArrivedOnce(U, B)
  BY <1>1, <1>2, <1>3 DEF ArrivedOnce
<1>5. \A v : Contains(B, v) /\ v \in Message => Contains(A, v)
  <2> SUFFICES ASSUME NEW v \in Message, Contains(B, v) PROVE Contains(A, v)
    OBVIOUS
  <2>1. PICK i \in 1 .. Len(B) : B[i] = v
    BY DEF Contains
  <2>2. i \in DOMAIN B /\ v # None
    BY <1>1, <2>1, MessagesAssumption DEF ArrivedOnce
  <2> QED
    BY <1>1, <2>1, <2>2 DEF ArrivedOnce
<1>6. TurnsOrdered(U, L, B)
  BY <1>1, <1>2, <1>5 DEF TurnsOrdered
<1>7. \A v : Contains(A, v) => Due(U, L, B, v) \subseteq Due(A, L, B, v)
  BY <1>2 DEF Due
<1>8. EntriesOrdered(U, L, B, P)
  BY <1>2, <1>7 DEF Line, EntriesOrdered
<1>9. RowsOrdered(U, L, B, P, Q)
  BY <1>2, <1>7 DEF Line, RowsOrdered
<1>10. TailOrdered(U, L, B, P, Q, T)
  BY <1>2, <1>7 DEF Line, TailOrdered
<1> QED
  BY <1>2, <1>4, <1>6, <1>8, <1>9, <1>10 DEF ArrivalFits

(* A message that arrived joins the tail. *)
LEMMA MessageJoins ==
  ASSUME NEW A, NEW L, NEW B, NEW P, NEW Q, NEW S, NEW T \in Seq(S),
         ArrivedOnce(A, B), TurnsOrdered(A, L, B), EntriesOrdered(A, L, B, P), RowsOrdered(A, L, B, P, Q),
         TailOrdered(A, L, B, P, Q, T),
         NEW x \in S, x.kind = "message", Contains(A, x.of),
         \A u \in Message \ L : Contains(A, u) /\ ~Contains(B, u) /\ u # x.of =>
           u \in Keys(P) \cup Range(Q) \cup FirstMessages(T, Len(T) + 1)
  PROVE  Line(A, L, B, P, Q, Append(T, x))
<1>0. PICK U \in Seq(S) : U = Append(T, x) /\ Len(U) = Len(T) + 1 /\ U[Len(T) + 1] = x
                          /\ \A i \in DOMAIN T : U[i] = T[i]
  <2>1. Append(T, x) \in Seq(S) /\ Len(Append(T, x)) = Len(T) + 1
    OBVIOUS
  <2>2. Append(T, x)[Len(T) + 1] = x /\ \A i \in DOMAIN T : Append(T, x)[i] = T[i]
    OBVIOUS
  <2> QED
    BY <2>1, <2>2
<1>1. DOMAIN T = 1 .. Len(T) /\ DOMAIN U = 1 .. Len(T) + 1 /\ Len(T) \in Nat
  BY <1>0
<1>2. \A n : FirstMessages(T, n) \subseteq FirstMessages(U, n)
  BY <1>0, <1>1 DEF FirstMessages
<1>3. FirstMessages(U, Len(T) + 1) \subseteq FirstMessages(U, Len(U) + 1) /\ x.of \in FirstMessages(U, Len(U) + 1)
  BY <1>0, <1>1 DEF FirstMessages
<1>4. \A u \in Due(A, L, B, x.of) : u \in Message \ L /\ Contains(A, u) /\ ~Contains(B, u) /\ u # x.of
  <2> SUFFICES ASSUME NEW u \in Message, Earlier(A, u, x.of)
               PROVE  Contains(A, u) /\ u # x.of
    BY DEF Due
  <2>1. A \in Seq(Message) /\ \A k, l \in DOMAIN A : A[k] = A[l] => k = l
    BY DEF ArrivedOnce
  <2>2. Contains(A, u)
    BY <2>1, EarlierArrived
  <2>3. PICK k, l \in DOMAIN A : k < l /\ A[k] = u /\ A[l] = x.of
    BY DEF Earlier
  <2>4. k # l
    BY <2>1, <2>3
  <2> QED
    BY <2>1, <2>2, <2>3, <2>4
<1>5. TailOrdered(A, L, B, P, Q, U)
  <2> SUFFICES ASSUME NEW j \in DOMAIN U, U[j].kind = "message"
               PROVE  /\ Contains(A, U[j].of)
                      /\ Due(A, L, B, U[j].of) \subseteq Keys(P) \cup Range(Q) \cup FirstMessages(U, j)
    BY DEF TailOrdered
  <2>1. CASE j \in DOMAIN T
    BY <1>0, <1>2, <2>1 DEF TailOrdered
  <2>2. CASE j = Len(T) + 1
    BY <1>0, <1>2, <1>4, <2>2
  <2> QED
    BY <1>1, <2>1, <2>2
<1>6. NoneLost(A, L, B, P, Q, U)
  BY <1>2, <1>3 DEF NoneLost
<1> QED
  BY <1>0, <1>5, <1>6 DEF Line

(* A row joins the durable queue when everything due before it is an entry or a row. *)
LEMMA RowJoins ==
  ASSUME NEW A, NEW L, NEW B, NEW P, NEW Q \in Seq(Message), RowsOrdered(A, L, B, P, Q), NEW m \in Message,
         Contains(A, m), Due(A, L, B, m) \subseteq Keys(P) \cup Range(Q)
  PROVE  /\ RowsOrdered(A, L, B, P, Append(Q, m)) /\ Range(Append(Q, m)) = Range(Q) \cup {m}
         /\ \A i \in DOMAIN Q : i \in DOMAIN Append(Q, m) /\ Append(Q, m)[i] = Q[i]
<1>0. PICK V \in Seq(Message) : V = Append(Q, m) /\ Len(V) = Len(Q) + 1 /\ V[Len(Q) + 1] = m
                          /\ \A i \in DOMAIN Q : V[i] = Q[i]
  <2>1. Append(Q, m) \in Seq(Message) /\ Len(Append(Q, m)) = Len(Q) + 1
    OBVIOUS
  <2>2. Append(Q, m)[Len(Q) + 1] = m /\ \A i \in DOMAIN Q : Append(Q, m)[i] = Q[i]
    OBVIOUS
  <2> QED
    BY <2>1, <2>2
<1>1. DOMAIN Q = 1 .. Len(Q) /\ DOMAIN V = 1 .. Len(Q) + 1 /\ Len(Q) \in Nat
  BY <1>0
<1>2. \A n : FirstRows(Q, n) \subseteq FirstRows(V, n)
  BY <1>0, <1>1 DEF FirstRows
<1>3. Range(Q) \subseteq FirstRows(V, Len(Q) + 1)
  BY <1>0, <1>1 DEF FirstRows, Range
<1>4. Range(V) = Range(Q) \cup {m}
  <2>1. \A i \in DOMAIN V : i \in DOMAIN Q \/ i = Len(Q) + 1
    BY <1>1
  <2>2. DOMAIN Q \subseteq DOMAIN V /\ Len(Q) + 1 \in DOMAIN V
    BY <1>1
  <2> QED
    BY <1>0, <2>1, <2>2 DEF Range
<1>5. RowsOrdered(A, L, B, P, V)
  <2> SUFFICES ASSUME NEW j \in DOMAIN V
               PROVE  Contains(A, V[j]) /\ Due(A, L, B, V[j]) \subseteq Keys(P) \cup FirstRows(V, j)
    BY DEF RowsOrdered
  <2>1. CASE j \in DOMAIN Q
    BY <1>0, <1>2, <2>1 DEF RowsOrdered
  <2>2. CASE j = Len(Q) + 1
    BY <1>0, <1>3, <2>2
  <2> QED
    BY <1>1, <2>1, <2>2
<1> QED
  BY <1>0, <1>1, <1>4, <1>5

(* The first row leaves the durable queue when its message has had its turn or waits for it *)
(* in the pump.                                                                             *)
LEMMA RowLeaves ==
  ASSUME NEW A, NEW L, NEW B, NEW P, NEW Q \in Seq(Message), NEW T, Line(A, L, B, P, Q, T),
         1 \in DOMAIN Q, Contains(B, Q[1]) \/ Q[1] \in Keys(P),
         NEW V \in Seq(Message), Len(V) = Len(Q) - 1, \A k \in 1 .. Len(Q) - 1 : V[k] = Q[k + 1]
  PROVE  Line(A, L, B, P, V, T)
<1>1. DOMAIN Q = 1 .. Len(Q) /\ Len(Q) \in Nat \ {0} /\ DOMAIN V = 1 .. Len(Q) - 1
  OBVIOUS
<1>2. \A i \in DOMAIN Q : i = 1 \/ (i - 1 \in DOMAIN V /\ V[i - 1] = Q[i])
  BY <1>1
<1>3. \A u \in Range(Q) : u = Q[1] \/ u \in Range(V)
  <2> SUFFICES ASSUME NEW i \in DOMAIN Q, i # 1 PROVE \E k \in DOMAIN V : V[k] = Q[i]
    BY DEF Range
  <2> QED
    BY <1>2
<1>4. \A n \in Nat : \A u \in FirstRows(Q, n + 1) : u = Q[1] \/ u \in FirstRows(V, n)
  <2> SUFFICES ASSUME NEW n \in Nat, NEW i \in DOMAIN Q, i < n + 1, i # 1
               PROVE  Q[i] \in FirstRows(V, n)
    BY DEF FirstRows
  <2>1. i - 1 \in DOMAIN V /\ V[i - 1] = Q[i] /\ i - 1 < n
    BY <1>1, <1>2
  <2> QED
    BY <2>1 DEF FirstRows
<1>5. \A v : \A u \in Due(A, L, B, v) : u = Q[1] => u \in Keys(P)
  BY DEF Due
<1>6. RowsOrdered(A, L, B, P, V)
  <2> SUFFICES ASSUME NEW j \in DOMAIN V
               PROVE  Contains(A, V[j]) /\ Due(A, L, B, V[j]) \subseteq Keys(P) \cup FirstRows(V, j)
    BY DEF RowsOrdered
  <2>1. j + 1 \in DOMAIN Q /\ Q[j + 1] = V[j] /\ j \in Nat
    BY <1>1
  <2>2. Contains(A, V[j]) /\ Due(A, L, B, V[j]) \subseteq Keys(P) \cup FirstRows(Q, j + 1)
    BY <2>1 DEF Line, RowsOrdered
  <2> QED
    BY <1>4, <1>5, <2>1, <2>2
<1>7. TailOrdered(A, L, B, P, V, T)
  BY <1>3, <1>5 DEF Line, TailOrdered
<1>8. NoneLost(A, L, B, P, V, T)
  BY <1>3 DEF Line, NoneLost
<1> QED
  BY <1>6, <1>7, <1>8 DEF Line

(* After a restart the rows are all that arrived, in their order. *)
LEMMA RestartLine ==
  ASSUME NEW Q \in Seq(Message), IsInjective(Q)
  PROVE  Line(Q, {}, <<>>, <<>>, Q, <<>>)
<1>1. DOMAIN Q = 1 .. Len(Q) /\ \A k, l \in DOMAIN Q : Q[k] = Q[l] => k = l
  BY DEF IsInjective
<1>2. <<>> \in Seq(Message \cup {None}) /\ DOMAIN <<>> = {} /\ \A u : ~Contains(<<>>, u)
  BY DEF Contains
<1>3. ArrivedOnce(Q, <<>>) /\ TurnsOrdered(Q, {}, <<>>)
  BY <1>1, <1>2 DEF ArrivedOnce, TurnsOrdered
<1>4. EntriesOrdered(Q, {}, <<>>, <<>>) /\ TailOrdered(Q, {}, <<>>, <<>>, Q, <<>>)
  BY <1>2 DEF EntriesOrdered, TailOrdered
<1>5. RowsOrdered(Q, {}, <<>>, <<>>, Q)
  <2> SUFFICES ASSUME NEW j \in DOMAIN Q
               PROVE  Contains(Q, Q[j]) /\ Due(Q, {}, <<>>, Q[j]) \subseteq FirstRows(Q, j)
    BY DEF RowsOrdered
  <2>1. Contains(Q, Q[j])
    BY <1>1 DEF Contains
  <2>2. \A u : Earlier(Q, u, Q[j]) => u \in FirstRows(Q, j)
    BY <1>1 DEF Earlier, FirstRows
  <2> QED
    BY <2>1, <2>2 DEF Due
<1>6. NoneLost(Q, {}, <<>>, <<>>, Q, <<>>)
  BY <1>1 DEF NoneLost, Contains, Range
<1> QED
  BY <1>3, <1>4, <1>5, <1>6 DEF Line

(* A message that handleDiscordMessage drops has had its turn or waits for it. *)
LEMMA DropCovered ==
  ASSUME PumpInv(pump, prompts, inFlight, failed), WorkedFor(begun, pump, recent, failed),
         NEW m \in Message, Dropped(m)
  PROVE  Contains(begun, m) \/ m \in Keys(prompts)
<1>1. m \in recent \/ m \in pump.reply.keys \/ \E i \in DOMAIN prompts : m \in Cl(failed, prompts[i].m)
  BY DroppedIs
<1>2. CASE m \in recent \/ m \in pump.reply.keys
  BY <1>2 DEF WorkedFor
<1>3. ASSUME NEW i \in DOMAIN prompts, m \in Cl(failed, prompts[i].m)
      PROVE  Contains(begun, m) \/ m \in Keys(prompts)
  <2>1. prompts[i].m \in Message /\ GroupsClosed(failed)
    <3>1. prompts \in Seq(Entry) /\ GroupsClosed(failed)
      BY DEF PumpInv, Orderly
    <3>2. prompts[i] \in Entry
      BY <3>1
    <3> QED
      BY <3>1, <3>2 DEF Entry
  <2>2. CASE failed[prompts[i].m] = NoReply
    BY <1>3, <2>2 DEF Cl, Keys
  <2>3. CASE failed[prompts[i].m] # NoReply
    <3>1. failed[m] = failed[prompts[i].m]
      BY <1>3, <2>1, <2>3 DEF Cl, GroupsClosed
    <3> QED
      BY <2>3, <3>1 DEF WorkedFor
  <2> QED
    BY <2>2, <2>3
<1> QED
  BY <1>1, <1>2, <1>3

(* Of two messages that arrived, one arrived earlier. *)
LEMMA EarlierTotal ==
  ASSUME NEW A \in Seq(Message), NEW u, NEW v, Contains(A, u), Contains(A, v), u # v
  PROVE  Earlier(A, u, v) \/ Earlier(A, v, u)
<1>1. DOMAIN A = 1 .. Len(A) /\ Len(A) \in Nat
  OBVIOUS
<1>2. PICK k \in 1 .. Len(A) : A[k] = u
  BY DEF Contains
<1>3. PICK l \in 1 .. Len(A) : A[l] = v
  BY DEF Contains
<1>4. k < l \/ l < k
  BY <1>1, <1>2, <1>3
<1> QED
  BY <1>1, <1>2, <1>3, <1>4 DEF Earlier

LEMMA ConcatIs ==
  ASSUME NEW S, NEW a \in Seq(S), NEW b \in Seq(S)
  PROVE  /\ a \o b \in Seq(S) /\ Len(a \o b) = Len(a) + Len(b) /\ DOMAIN (a \o b) = 1 .. Len(a) + Len(b)
         /\ \A i \in 1 .. Len(a) : (a \o b)[i] = a[i]
         /\ \A i \in 1 .. Len(b) : (a \o b)[Len(a) + i] = b[i]
<1>1. a \o b \in Seq(S) /\ Len(a \o b) = Len(a) + Len(b)
  OBVIOUS
<1>2. \A i \in 1 .. Len(a) : (a \o b)[i] = a[i]
  OBVIOUS
<1>3. \A i \in 1 .. Len(b) : (a \o b)[Len(a) + i] = b[i]
  OBVIOUS
<1>4. DOMAIN (a \o b) = 1 .. Len(a) + Len(b)
  BY <1>1
<1> QED
  BY <1>1, <1>2, <1>3, <1>4

(* First turns f of the first n entries of q. *)
TurnsOf(B, q, n, f) ==
  /\ DOMAIN f = 1 .. n
  /\ \A i \in 1 .. n : f[i] = IF Contains(B, q[i].m) THEN None ELSE q[i].m

EntriesApart(q) == \A i, j \in DOMAIN q : i # j => q[i].m # q[j].m

(* The first entries that wait have their turns together. *)
LEMMA BundleTurns ==
  ASSUME NEW A, NEW L, NEW B, NEW q \in Seq(Entry), NEW Q, NEW T, Line(A, L, B, q, Q, T),
         EntriesApart(q), NEW n \in 1 .. Len(q),
         NEW S, S = Message \cup {None}, NEW f \in Seq(S), TurnsOf(B, q, n, f),
         NEW C, C = B \o f
  PROVE  /\ ArrivedOnce(A, C) /\ TurnsOrdered(A, L, C)
         /\ \A u : Contains(B, u) => Contains(C, u)
         /\ \A i \in 1 .. n : Contains(C, q[i].m)
<1>0. /\ \A i, j \in DOMAIN q : i # j => q[i].m # q[j].m
      /\ DOMAIN f = 1 .. n
      /\ \A i \in 1 .. n : f[i] = IF Contains(B, q[i].m) THEN None ELSE q[i].m
  BY DEF EntriesApart, TurnsOf
<1>1. /\ A \in Seq(Message) /\ \A k, l \in DOMAIN A : A[k] = A[l] => k = l
      /\ B \in Seq(Message \cup {None}) /\ \A i \in DOMAIN B : B[i] = None \/ Contains(A, B[i])
  BY DEF Line, ArrivedOnce
<1>2. /\ \A u \in Message \ L, v \in Message : Earlier(A, u, v) /\ Contains(B, v) => Contains(B, u)
      /\ \A i, j \in DOMAIN B :
           i < j /\ B[i] # None /\ B[j] # None /\ B[j] \notin L => Earlier(A, B[i], B[j])
  BY DEF Line, TurnsOrdered
<1>3. \A j \in DOMAIN q : Contains(A, q[j].m) /\ Due(A, L, B, q[j].m) \subseteq FirstKeys(q, j)
  BY DEF Line, EntriesOrdered
<1>4. /\ Len(q) \in Nat /\ n \in Nat \ {0} /\ DOMAIN q = 1 .. Len(q) /\ 1 .. n \subseteq DOMAIN q
      /\ Len(B) \in Nat /\ DOMAIN B = 1 .. Len(B) /\ Len(f) = n
  BY <1>0, <1>1
<1>5. \A i \in DOMAIN q : q[i].m \in Message /\ q[i].m # None
  <2>1. \A i \in DOMAIN q : q[i] \in Entry
    OBVIOUS
  <2> QED
    BY <2>1, MessagesAssumption DEF Entry
<1>6. /\ C \in Seq(Message \cup {None}) /\ DOMAIN C = 1 .. Len(B) + n /\ Len(C) = Len(B) + n
      /\ \A i \in 1 .. Len(B) : C[i] = B[i]
      /\ \A i \in 1 .. n : C[Len(B) + i] = f[i]
  <2>1. B \in Seq(S)
    BY <1>1
  <2>2. C \in Seq(S)
    BY <2>1, ConcatIs
  <2>3. Len(C) = Len(B) + n /\ DOMAIN C = 1 .. Len(B) + n
    <3>1. Len(C) = Len(B) + Len(f)
      BY <2>1, ConcatIs
    <3>2. DOMAIN C = 1 .. Len(B) + Len(f)
      BY <2>1, ConcatIs
    <3> QED
      BY <1>0, <1>4, <3>1, <3>2
  <2>4. \A i \in 1 .. Len(B) : C[i] = B[i]
    BY <2>1, ConcatIs
  <2>5. \A i \in 1 .. n : C[Len(B) + i] = f[i]
    BY <1>0, <1>4, <2>1, ConcatIs
  <2> QED
    BY <2>2, <2>3, <2>4, <2>5
<1>7. \A u : Contains(B, u) => Contains(C, u)
  BY <1>0, <1>4, <1>6 DEF Contains
<1>8. \A i \in 1 .. n : Contains(C, q[i].m)
  <2> SUFFICES ASSUME NEW i \in 1 .. n, ~Contains(B, q[i].m) PROVE Contains(C, q[i].m)
    BY <1>7
  <2>1. Len(B) + i \in 1 .. Len(C) /\ C[Len(B) + i] = q[i].m
    BY <1>0, <1>4, <1>6
  <2> QED
    BY <2>1 DEF Contains
<1>9. \A j \in DOMAIN C : j \in DOMAIN B \/ \E k \in 1 .. n : j = Len(B) + k
  <2> SUFFICES ASSUME NEW j \in DOMAIN C, j \notin DOMAIN B PROVE \E k \in 1 .. n : j = Len(B) + k
    OBVIOUS
  <2>1. j - Len(B) \in 1 .. n /\ j = Len(B) + (j - Len(B))
    BY <1>0, <1>4, <1>6
  <2> QED
    BY <2>1
<1>10. ArrivedOnce(A, C)
  <2> SUFFICES ASSUME NEW j \in DOMAIN C, C[j] # None PROVE Contains(A, C[j])
    BY <1>1, <1>6 DEF ArrivedOnce
  <2>1. CASE j \in DOMAIN B
    BY <1>1, <1>4, <1>6, <2>1
  <2>2. ASSUME NEW k \in 1 .. n, j = Len(B) + k PROVE Contains(A, C[j])
    BY <1>0, <1>3, <1>4, <1>6, <2>2
  <2> QED
    BY <1>9, <2>1, <2>2
<1>11. ASSUME NEW u \in Message \ L, NEW v \in Message, Earlier(A, u, v), Contains(C, v)
       PROVE  Contains(C, u)
  <2>1. CASE Contains(B, v)
    BY <1>2, <1>7, <1>11, <2>1
  <2>2. CASE ~Contains(B, v)
    <3>0. SUFFICES ASSUME ~Contains(B, u) PROVE Contains(C, u)
      BY <1>7
    <3>1. PICK j \in 1 .. Len(C) : C[j] = v
      BY <1>11 DEF Contains
    <3>2. j \notin DOMAIN B
      BY <1>0, <1>4, <1>6, <2>2, <3>1 DEF Contains
    <3>3. PICK i \in 1 .. n : j = Len(B) + i
      BY <1>6, <1>9, <3>1, <3>2
    <3>4. v = q[i].m /\ i \in DOMAIN q
      BY <1>0, <1>4, <1>6, <3>1, <3>3, MessagesAssumption
    <3>5. u \in FirstKeys(q, i)
      BY <1>3, <1>11, <3>0, <3>4 DEF Due
    <3>6. PICK k \in DOMAIN q : k < i /\ q[k].m = u
      BY <3>5 DEF FirstKeys
    <3>7. k \in 1 .. n
      BY <1>0, <1>4, <3>6
    <3> QED
      BY <1>8, <3>6, <3>7
  <2> QED
    BY <2>1, <2>2
<1>12. ASSUME NEW i \in DOMAIN C, NEW j \in DOMAIN C, i < j, C[i] # None, C[j] # None, C[j] \notin L
       PROVE  Earlier(A, C[i], C[j])
  <2>1. CASE j \in DOMAIN B
    <3>1. i \in DOMAIN B /\ C[i] = B[i] /\ C[j] = B[j]
      BY <1>0, <1>4, <1>6, <1>12, <2>1
    <3>2. Earlier(A, B[i], B[j])
      BY <1>2, <1>12, <2>1, <3>1
    <3> QED
      BY <3>1, <3>2
  <2>2. ASSUME NEW l \in 1 .. n, j = Len(B) + l PROVE Earlier(A, C[i], C[j])
    <3>1. f[l] = C[j] /\ ~Contains(B, q[l].m) /\ C[j] = q[l].m /\ l \in DOMAIN q /\ q[l].m \in Message
      BY <1>0, <1>4, <1>5, <1>6, <1>12, <2>2
    <3>2. Contains(A, C[i]) /\ Contains(A, C[j]) /\ C[i] \in Message
      <4>1. Contains(A, C[i]) /\ Contains(A, C[j])
        BY <1>10, <1>12 DEF ArrivedOnce
      <4> QED
        BY <1>6, <1>12, <4>1
    <3>3. CASE i \in DOMAIN B
      <4>1. Contains(B, C[i])
        BY <1>0, <1>4, <1>6, <3>3 DEF Contains
      <4>2. C[i] # C[j] /\ ~Earlier(A, C[j], C[i])
        BY <1>2, <1>12, <3>1, <3>2, <4>1
      <4> QED
        BY <1>1, <3>2, <4>2, EarlierTotal
    <3>4. ASSUME NEW k \in 1 .. n, i = Len(B) + k PROVE Earlier(A, C[i], C[j])
      <4>1. f[k] = C[i] /\ C[i] = q[k].m /\ k \in DOMAIN q /\ k < l
        BY <1>0, <1>4, <1>5, <1>6, <1>12, <2>2, <3>4
      <4>2. C[i] # C[j]
        <5>1. k # l
          BY <1>0, <1>4, <4>1
        <5> QED
          BY <1>0, <3>1, <4>1, <5>1
      <4>3. ~Earlier(A, C[j], C[i])
        <5> SUFFICES ASSUME Earlier(A, C[j], C[i]) PROVE FALSE
          OBVIOUS
        <5>1. q[l].m \in FirstKeys(q, k)
          BY <1>3, <1>12, <3>1, <4>1 DEF Due
        <5>2. PICK x \in DOMAIN q : x < k /\ q[x].m = q[l].m
          BY <5>1 DEF FirstKeys
        <5>3. x # l
          BY <1>0, <1>4, <4>1, <5>2
        <5> QED
          BY <1>0, <3>1, <5>2, <5>3
      <4> QED
        BY <1>1, <3>2, <4>2, <4>3, EarlierTotal
    <3> QED
      BY <1>9, <3>3, <3>4
  <2> QED
    BY <1>9, <2>1, <2>2
<1>13. TurnsOrdered(A, L, C)
  BY <1>11, <1>12 DEF TurnsOrdered
<1> QED
  BY <1>7, <1>8, <1>10, <1>13

(* The pump takes its next bundle. *)
LEMMA TakeLine ==
  ASSUME NEW F \in [Message -> Checkpoint], F = failed, GroupsClosed(F), NEW q, Orderly(q, F), Take(q),
         NEW A, NEW L, NEW B, B = begun, NEW Q, NEW T, Line(A, L, B, q, Q, T),
         \A m \in Message : F[m] # NoReply => Contains(B, m),
         NEW p, p = pump', NEW r, r = prompts', NEW C, C = begun'
  PROVE  /\ Line(A, L, C, r, Q, T)
         /\ \A u : Contains(B, u) => Contains(C, u)
         /\ \A u \in Keys(q) : Contains(C, u) \/ u \in Keys(r)
         /\ \A m \in p.reply.keys : Contains(C, m)
<1>1. /\ q \in Seq(Entry) /\ \A i \in DOMAIN q : q[i].resumes <=> F[q[i].m] # NoReply
      /\ \A i, j \in DOMAIN q : i # j => Cl(F, q[i].m) \cap Cl(F, q[j].m) = {}
  BY DEF Orderly
<1>2. CASE q = <<>>
  <2>1. p = [at |-> "off", bundle |-> <<>>, reply |-> NoReply] /\ r = <<>> /\ C = B
    BY <1>2 DEF Take, Idle
  <2>2. p.reply.keys = {}
    BY <2>1 DEF NoReply
  <2> QED
    BY <1>2, <2>1, <2>2
<1>3. CASE q # <<>>
  <2>1. PICK n \in 1 .. Len(q) :
          /\ n = BundleLen(q) /\ (q[1].resumes => n = 1)
          /\ ~q[1].resumes => \A i \in 1 .. n : ~q[i].resumes
    BY <1>1, <1>3, BundleLenIs
  <2>2. PICK b \in Seq(Entry) : b = SubSeq(q, 1, n) /\ DOMAIN b = 1 .. n /\ \A i \in 1 .. n : b[i] = q[i]
    <3>1. Len(q) \in Nat /\ n \in Nat /\ 1 <= n /\ n <= Len(q) /\ DOMAIN q = 1 .. Len(q)
      BY <1>1, <2>1
    <3>2. SubSeq(q, 1, n) \in Seq(Entry)
      BY <1>1, <3>1
    <3>3. Len(SubSeq(q, 1, n)) = n /\ \A i \in 1 .. n : SubSeq(q, 1, n)[i] = q[i]
      BY <1>1, <3>1
    <3>4. DOMAIN SubSeq(q, 1, n) = 1 .. n
      BY <3>2, <3>3
    <3> QED
      BY <3>2, <3>3, <3>4
  <2> DEFINE f == [i \in DOMAIN b |-> IF Contains(B, b[i].m) THEN None ELSE b[i].m]
  <2>3. /\ r = SubSeq(q, n + 1, Len(q))
        /\ p = IF b[1].resumes
                     THEN [at |-> "send", bundle |-> b, reply |-> F[b[1].m]]
                     ELSE [at |-> "turn", bundle |-> b, reply |-> [keys |-> Keys(b), left |-> <<>>]]
        /\ C = IF b[1].resumes \/ \A m \in Keys(b) : Contains(B, m) THEN B ELSE B \o f
    BY <1>3, <2>1, <2>2 DEF Take, Fresh
  <2>4. Len(q) \in Nat /\ n \in Nat /\ 1 \in 1 .. n /\ DOMAIN q = 1 .. Len(q) /\ 1 .. n \subseteq DOMAIN q
    BY <1>1, <2>1
  <2>5. r \in Seq(Entry) /\ DOMAIN r = 1 .. Len(q) - n /\ \A i \in DOMAIN r : r[i] = q[n + i]
    BY <1>1, <2>3, <2>4
  <2>6. \A i \in DOMAIN q : q[i] \in Entry /\ q[i].m \in Message /\ q[i].m \in Cl(F, q[i].m)
    <3>1. \A i \in DOMAIN q : q[i] \in Entry
      BY <1>1
    <3>2. \A e \in Entry : e.m \in Message
      BY DEF Entry
    <3> QED
      BY <3>1, <3>2, ClaimsAre
  <2>7. \A i, j \in DOMAIN q : i # j => q[i].m # q[j].m
    BY <1>1, <2>6
  <2>8. ArrivedOnce(A, B) /\ TurnsOrdered(A, L, B) /\ EntriesOrdered(A, L, B, q)
    BY DEF Line
  <2>9. Keys(b) = {q[i].m : i \in 1 .. n}
    BY <2>2 DEF Keys
  <2>10. /\ ArrivedOnce(A, C) /\ TurnsOrdered(A, L, C)
         /\ \A u : Contains(B, u) => Contains(C, u)
         /\ \A i \in 1 .. n : Contains(C, q[i].m)
    <3>1. CASE b[1].resumes
      BY <1>1, <2>1, <2>2, <2>3, <2>4, <2>6, <2>8, <3>1
    <3>2. CASE \A m \in Keys(b) : Contains(B, m)
      BY <2>3, <2>8, <2>9, <3>2
    <3>3. CASE ~(b[1].resumes \/ \A m \in Keys(b) : Contains(B, m))
      <4>1. C = B \o f
        BY <2>3, <3>3
      <4>2. DOMAIN f = 1 .. n /\ \A i \in 1 .. n : f[i] = IF Contains(B, q[i].m) THEN None ELSE q[i].m
        BY <2>2
      <4>3. f \in Seq(Message \cup {None})
        <5>1. f \in [1 .. n -> Message \cup {None}]
          BY <2>2, <2>4, <2>6
        <5> QED
          BY <2>4, <5>1
      <4> HIDE DEF f
      <4>0. PICK S : S = Message \cup {None}
        OBVIOUS
      <4>4. PICK g \in Seq(S) : g = f
        BY <4>0, <4>3
      <4>5. C = B \o g /\ TurnsOf(B, q, n, g) /\ EntriesApart(q)
        BY <2>7, <4>1, <4>2, <4>4 DEF TurnsOf, EntriesApart
      <4> QED
        BY <1>1, <4>0, <4>5, BundleTurns
    <3> QED
      BY <3>1, <3>2, <3>3
  <2> HIDE DEF f
  <2>11. \A i \in DOMAIN q : i \in 1 .. n \/ (i - n \in DOMAIN r /\ r[i - n] = q[i])
    BY <2>4, <2>5
  <2>12. EntriesOrdered(A, L, C, r)
    <3> SUFFICES ASSUME NEW j \in DOMAIN r
                 PROVE  Contains(A, r[j].m) /\ Due(A, L, C, r[j].m) \subseteq FirstKeys(r, j)
      BY DEF EntriesOrdered
    <3>1. n + j \in DOMAIN q /\ r[j] = q[n + j] /\ j \in Nat
      BY <2>4, <2>5
    <3>2. Contains(A, r[j].m) /\ Due(A, L, B, r[j].m) \subseteq FirstKeys(q, n + j)
      BY <2>8, <3>1 DEF EntriesOrdered
    <3>3. ASSUME NEW u \in Due(A, L, C, r[j].m) PROVE u \in FirstKeys(r, j)
      <4>1. u \in Due(A, L, B, r[j].m) /\ ~Contains(C, u)
        BY <2>10 DEF Due
      <4>2. PICK i \in DOMAIN q : i < n + j /\ q[i].m = u
        BY <3>2, <4>1 DEF FirstKeys
      <4>3. i \notin 1 .. n
        BY <2>10, <4>1, <4>2
      <4>4. i - n \in DOMAIN r /\ r[i - n] = q[i] /\ i - n < j
        BY <2>4, <2>11, <3>1, <4>2, <4>3
      <4> QED
        BY <4>2, <4>4 DEF FirstKeys
    <3> QED
      BY <3>2, <3>3
  <2>13. \A u \in Keys(q) : Contains(C, u) \/ u \in Keys(r)
    <3> SUFFICES ASSUME NEW i \in DOMAIN q PROVE Contains(C, q[i].m) \/ \E k \in DOMAIN r : r[k].m = q[i].m
      BY DEF Keys
    <3> QED
      BY <2>10, <2>11
  <2>14. \A m \in p.reply.keys : Contains(C, m)
    <3>1. CASE b[1].resumes
      <4>1. b[1] = q[1] /\ 1 \in DOMAIN q /\ F[q[1].m] # NoReply /\ q[1].m \in Message
        BY <1>1, <2>2, <2>4, <2>6, <3>1
      <4>2. p.reply = F[q[1].m]
        BY <2>3, <3>1, <4>1
      <4>3. F[q[1].m].keys \subseteq Message /\ \A m \in F[q[1].m].keys : F[m] = F[q[1].m]
        BY <4>1 DEF GroupsClosed, Checkpoint
      <4> QED
        BY <2>10, <4>1, <4>2, <4>3
    <3>2. CASE ~b[1].resumes
      <4>1. p.reply.keys = Keys(b)
        BY <2>3, <3>2
      <4> QED
        BY <2>9, <2>10, <4>1
    <3> QED
      BY <3>1, <3>2
  <2>15. Line(A, L, C, r, Q, T)
    BY <2>10, <2>12, <2>13, LineBegins
  <2> QED
    BY <2>10, <2>13, <2>14, <2>15
<1> QED
  BY <1>2, <1>3

(* Nothing that has begun or waits for the pump is lost in a step. *)
Kept(B, P, C, R) ==
  /\ \A u : Contains(B, u) => Contains(C, u)
  /\ \A u \in Keys(P) : Contains(C, u) \/ u \in Keys(R)

(* A message goes to the pump when all that is due before it waits there. *)
LEMMA AdmitLine ==
  ASSUME PumpInv(pump, prompts, inFlight, failed), WorkedFor(begun, pump, recent, failed),
         NEW m \in Message, NEW w \in BOOLEAN, Admit(m, w),
         NEW Q, NEW T, Line(arrived, turnedAway, begun, prompts, Q, T),
         Contains(arrived, m), Due(arrived, turnedAway, begun, m) \subseteq Keys(prompts)
  PROVE  /\ Line(arrived, turnedAway, begun', prompts', Q, T) /\ WorkedFor(begun', pump', recent', failed')
         /\ Kept(begun, prompts, begun', prompts')
         /\ Contains(begun', m) \/ m \in Keys(prompts')
<1>1. PICK F \in [Message -> Checkpoint] : F = failed /\ GroupsClosed(F) /\ prompts \in Seq(Entry)
  BY DEF PumpInv, Orderly
<1>2. PICK e \in Entry :
        /\ e.m = m /\ (e.resumes <=> F[m] # NoReply)
        /\ UNCHANGED <<recent, failed>>
        /\ IF pump.at = "off" THEN Take(<<e>>)
                              ELSE prompts' = Append(prompts, e) /\ UNCHANGED <<pump, begun>>
  <2> DEFINE x == [m |-> m, awaited |-> w, resumes |-> F[m] # NoReply]
  <2>1. /\ UNCHANGED <<recent, failed>>
        /\ IF pump.at = "off" THEN Take(<<x>>)
                              ELSE prompts' = Append(prompts, x) /\ UNCHANGED <<pump, begun>>
    BY <1>1 DEF Admit, Resumable
  <2>2. x \in Entry /\ x.m = m /\ (x.resumes <=> F[m] # NoReply)
    BY DEF Entry
  <2> HIDE DEF x
  <2> QED
    BY <2>1, <2>2
<1>3. Contains(arrived, e.m) /\ Due(arrived, turnedAway, begun, e.m) \subseteq Keys(prompts)
  BY <1>2
<1>4. Line(arrived, turnedAway, begun, Append(prompts, e), Q, T) /\ Keys(Append(prompts, e)) = Keys(prompts) \cup {m}
  <2>1. e \in Entry /\ prompts \in Seq(Entry) /\ e.m = m
    BY <1>1, <1>2
  <2>2. Line(arrived, turnedAway, begun, Append(prompts, e), Q, T)
    BY <1>3, <2>1, EntryJoins
  <2>3. Keys(Append(prompts, e)) = Keys(prompts) \cup {e.m}
    BY <2>1, KeysAppend
  <2> QED
    BY <2>1, <2>2, <2>3
<1>5. CASE pump.at # "off"
  <2>1. prompts' = Append(prompts, e) /\ UNCHANGED <<pump, begun, recent, failed>>
    BY <1>2, <1>5
  <2> QED
    BY <1>4, <2>1 DEF Kept
<1>6. CASE pump.at = "off"
  <2>1. prompts = <<>> /\ Keys(prompts) = {}
    BY <1>6 DEF PumpInv, RestsEmpty, Keys
  <2>2. PICK q \in Seq(Entry) : q = <<e>>
    <3>1. <<e>> \in Seq(Entry)
      BY <1>2
    <3> QED
      BY <3>1
  <2>3. q = Append(prompts, e) /\ DOMAIN q = {1} /\ q[1] = e
    BY <2>1, <2>2
  <2>4. Orderly(q, F)
    BY <1>2, <2>3 DEF Orderly
  <2>5. Line(arrived, turnedAway, begun, q, Q, T) /\ Keys(q) = {m} /\ Take(q)
    BY <1>2, <1>4, <1>6, <2>1, <2>2, <2>3
  <2>6. \A k \in Message : F[k] # NoReply => Contains(begun, k)
    BY <1>1 DEF WorkedFor
  <2>7. /\ Line(arrived, turnedAway, begun', prompts', Q, T)
        /\ \A u : Contains(begun, u) => Contains(begun', u)
        /\ \A u \in Keys(q) : Contains(begun', u) \/ u \in Keys(prompts')
        /\ \A k \in pump'.reply.keys : Contains(begun', k)
    BY <1>1, <2>4, <2>5, <2>6, TakeLine
  <2>8. WorkedFor(begun', pump', recent', failed')
    BY <1>2, <2>7 DEF WorkedFor
  <2> QED
    BY <2>1, <2>5, <2>7, <2>8 DEF Kept
<1> QED
  BY <1>5, <1>6

(* The pump goes on to its next bundle. *)
LEMMA ContinueLine ==
  ASSUME PumpInv(pump, prompts, inFlight, failed), WorkedFor(begun, pump, recent, failed),
         Continue, NEW Q, NEW T, Line(arrived, turnedAway, begun, prompts, Q, T),
         \A m \in Message : m \in recent' => m \in recent \/ m \in pump.reply.keys,
         \A m \in Message : failed'[m] # NoReply => failed[m] # NoReply
  PROVE  /\ Line(arrived, turnedAway, begun', prompts', Q, T) /\ WorkedFor(begun', pump', recent', failed')
         /\ Kept(begun, prompts, begun', prompts')
<1>1. PICK F \in [Message -> Checkpoint] : F = failed /\ GroupsClosed(F) /\ Orderly(prompts, F)
  BY DEF PumpInv
<1>2. \A k \in Message : F[k] # NoReply => Contains(begun, k)
  BY <1>1 DEF WorkedFor
<1>3. Take(prompts)
  BY DEF Continue
<1>4. /\ Line(arrived, turnedAway, begun', prompts', Q, T)
      /\ \A u : Contains(begun, u) => Contains(begun', u)
      /\ \A u \in Keys(prompts) : Contains(begun', u) \/ u \in Keys(prompts')
      /\ \A k \in pump'.reply.keys : Contains(begun', k)
  BY <1>1, <1>2, <1>3, TakeLine
<1>5. WorkedFor(begun', pump', recent', failed')
  BY <1>4 DEF WorkedFor
<1> QED
  BY <1>4, <1>5 DEF Kept

(* The head of the tail, when it is a message. *)
LEMMA HeadDue ==
  ASSUME TypeOK, Running("message"), NEW L, NEW B, NEW P, NEW Q, TailOrdered(arrived, L, B, P, Q, tail)
  PROVE  /\ tail \in TailType /\ tail # <<>> /\ tail[1] = Head(tail) /\ tail[1].kind = "message"
         /\ Head(tail).of \in Message /\ Contains(arrived, Head(tail).of)
         /\ Due(arrived, L, B, Head(tail).of) \subseteq Keys(P) \cup Range(Q)
<1>1. tail # <<>> /\ tail \in TailType /\ Head(tail).of \in Message /\ 1 \in OnWay(tail, Head(tail).of)
  BY HeadWay
<1>2. Head(tail) = tail[1] /\ 1 \in DOMAIN tail /\ DOMAIN tail = 1 .. Len(tail) /\ tail[1].kind = "message"
  BY <1>1 DEF TailType, Running
<1>3. FirstMessages(tail, 1) = {}
  BY <1>2 DEF FirstMessages
<1> QED
  BY <1>1, <1>2, <1>3 DEF TailOrdered

LEMMA GoOnOrder ==
  ASSUME MarksInv, OrderInv, GoOn
  PROVE  /\ Line(arrived', turnedAway', begun', prompts', queue', tail') /\ WorkedFor(begun', pump', recent', failed')
         /\ Kept(begun, prompts, begun', prompts')
<1>1. /\ TypeOK /\ PumpInv(pump, prompts, inFlight, failed)
      /\ Line(arrived, turnedAway, begun, prompts, queue, tail) /\ WorkedFor(begun, pump, recent, failed)
  BY DEF MarksInv, OrderInv
<1>2. /\ Running("message") /\ queue = <<>> /\ tail' = Tail(tail) /\ UNCHANGED <<arrived, turnedAway, queue>>
      /\ IF Dropped(Head(tail).of) THEN UNCHANGED <<pumping, begun>> ELSE Admit(Head(tail).of, FALSE)
  BY DEF GoOn, Protected
<1>3. PICK m \in Message :
        /\ m = Head(tail).of /\ tail \in TailType /\ tail # <<>> /\ tail[1].kind = "message" /\ tail[1].of = m
        /\ Contains(arrived, m) /\ Due(arrived, turnedAway, begun, m) \subseteq Keys(prompts) \cup Range(queue)
  BY <1>1, <1>2, HeadDue DEF Line
<1>4. Due(arrived, turnedAway, begun, m) \subseteq Keys(prompts)
  BY <1>2, <1>3 DEF Range
<1>5. /\ Line(arrived, turnedAway, begun', prompts', queue, tail) /\ WorkedFor(begun', pump', recent', failed')
      /\ Kept(begun, prompts, begun', prompts')
      /\ Contains(begun', m) \/ m \in Keys(prompts')
  <2>1. CASE Dropped(m)
    <3>1. UNCHANGED <<prompts, pump, recent, failed, begun>>
      BY <1>2, <1>3, <2>1 DEF pumping
    <3>2. Contains(begun, m) \/ m \in Keys(prompts)
      BY <1>1, <2>1, DropCovered
    <3> QED
      BY <1>1, <3>1, <3>2 DEF Kept
  <2>2. CASE ~Dropped(m)
    <3>1. Admit(m, FALSE)
      BY <1>2, <1>3, <2>2
    <3> QED
      BY <1>1, <1>3, <1>4, <3>1, AdmitLine
  <2> QED
    BY <2>1, <2>2
<1>6. TailOrdered(arrived, turnedAway, begun', prompts', queue, tail) /\ NoneLost(arrived, turnedAway, begun', prompts', queue, tail)
  BY <1>5 DEF Line
<1>7. /\ TailOrdered(arrived, turnedAway, begun', prompts', queue, Tail(tail))
      /\ NoneLost(arrived, turnedAway, begun', prompts', queue, Tail(tail))
  BY <1>3, <1>5, <1>6, HeadLeaves DEF TailType
<1> QED
  BY <1>2, <1>5, <1>7 DEF Line

LEMMA InsertOrder ==
  ASSUME MarksInv, OrderInv, Insert
  PROVE  /\ Line(arrived', turnedAway', begun', prompts', queue', tail') /\ UNCHANGED <<begun, prompts, pump, recent, failed>>
         /\ \A i \in DOMAIN queue : i \in DOMAIN queue' /\ queue'[i] = queue[i]
<1>1. TypeOK /\ Line(arrived, turnedAway, begun, prompts, queue, tail) /\ queue \in Seq(Message)
  BY DEF MarksInv, OrderInv, TypeOK
<1>2. /\ Running("message") /\ tail' = Tail(tail) /\ UNCHANGED <<arrived, turnedAway, begun, prompts, pump, recent, failed>>
      /\ queue' = Rows(Head(tail).of)
  BY DEF Insert, pumping, ghost
<1>3. PICK m \in Message :
        /\ m = Head(tail).of /\ tail \in TailType /\ tail # <<>> /\ tail[1].kind = "message" /\ tail[1].of = m
        /\ Contains(arrived, m) /\ Due(arrived, turnedAway, begun, m) \subseteq Keys(prompts) \cup Range(queue)
  BY <1>1, <1>2, HeadDue DEF Line
<1>4. /\ RowsOrdered(arrived, turnedAway, begun, prompts, queue') /\ Range(queue) \subseteq Range(queue') /\ m \in Range(queue')
      /\ \A i \in DOMAIN queue : i \in DOMAIN queue' /\ queue'[i] = queue[i]
  <2>1. CASE Contains(queue, m)
    <3>1. queue' = queue
      BY <1>2, <1>3, <2>1 DEF Rows
    <3>2. m \in Range(queue)
      BY <1>1, <2>1 DEF Contains, Range
    <3> QED
      BY <1>1, <3>1, <3>2 DEF Line
  <2>2. CASE ~Contains(queue, m)
    <3>1. queue' = Append(queue, m)
      BY <1>2, <1>3, <2>2 DEF Rows
    <3>2. RowsOrdered(arrived, turnedAway, begun, prompts, queue)
      BY <1>1 DEF Line
    <3> QED
      BY <1>1, <1>3, <3>1, <3>2, RowJoins
  <2> QED
    BY <2>1, <2>2
<1>5. TailOrdered(arrived, turnedAway, begun, prompts, queue, tail) /\ NoneLost(arrived, turnedAway, begun, prompts, queue, tail)
  BY <1>1 DEF Line
<1>6. /\ TailOrdered(arrived, turnedAway, begun, prompts, queue', Tail(tail))
      /\ NoneLost(arrived, turnedAway, begun, prompts, queue', Tail(tail))
  BY <1>3, <1>4, <1>5, HeadLeaves DEF TailType
<1>7. Line(arrived, turnedAway, begun, prompts, queue', Tail(tail))
  BY <1>1, <1>4, <1>6 DEF Line
<1> QED
  BY <1>2, <1>4, <1>7

(* A message is turned away; its row may be there all the same. *)
LEMMA TurnedAwayOrder ==
  ASSUME MarksInv, OrderInv, AdmissionFails
  PROVE  /\ Line(arrived', turnedAway', begun', prompts', queue', tail')
         /\ UNCHANGED <<begun, prompts, pump, recent, failed>>
         /\ \A i \in DOMAIN queue : i \in DOMAIN queue' /\ queue'[i] = queue[i]
<1>0. TypeOK /\ Line(arrived, turnedAway, begun, prompts, queue, tail) /\ queue \in Seq(Message)
  BY DEF MarksInv, OrderInv, TypeOK
<1>2. /\ Running("message") /\ tail' = Tail(tail) /\ UNCHANGED <<arrived, begun, prompts, pump, recent, failed>>
      /\ queue' \in {queue, Rows(Head(tail).of)} /\ turnedAway' = turnedAway \cup {Head(tail).of}
  BY DEF AdmissionFails, pumping
<1>1. Line(arrived, turnedAway', begun, prompts, queue, tail)
  BY <1>0, <1>2, MoreTurnedAway
<1>3. PICK m \in Message :
        /\ m = Head(tail).of /\ tail \in TailType /\ tail # <<>> /\ tail[1].kind = "message" /\ tail[1].of = m
        /\ Contains(arrived, m) /\ Due(arrived, turnedAway', begun, m) \subseteq Keys(prompts) \cup Range(queue)
  BY <1>0, <1>1, <1>2, HeadDue DEF Line
<1>4. /\ RowsOrdered(arrived, turnedAway', begun, prompts, queue') /\ Range(queue) \subseteq Range(queue')
      /\ \A i \in DOMAIN queue : i \in DOMAIN queue' /\ queue'[i] = queue[i]
  <2>1. RowsOrdered(arrived, turnedAway', begun, prompts, queue)
    BY <1>1 DEF Line
  <2>2. CASE queue' = queue
    BY <2>1, <2>2
  <2>3. CASE queue' # queue
    <3>1. queue' = Append(queue, m)
      BY <1>2, <1>3, <2>3 DEF Rows
    <3> QED
      BY <1>0, <1>3, <2>1, <3>1, RowJoins
  <2> QED
    BY <2>2, <2>3
<1>5. /\ TailOrdered(arrived, turnedAway', begun, prompts, queue, tail)
      /\ NoneLost(arrived, turnedAway', begun, prompts, queue, tail)
  BY <1>1 DEF Line
<1>6. /\ TailOrdered(arrived, turnedAway', begun, prompts, queue', Tail(tail))
      /\ NoneLost(arrived, turnedAway', begun, prompts, queue', Tail(tail))
  BY <1>2, <1>3, <1>4, <1>5, HeadLeaves DEF TailType
<1>7. Line(arrived, turnedAway', begun, prompts, queue', Tail(tail))
  BY <1>1, <1>4, <1>6 DEF Line
<1> QED
  BY <1>2, <1>4, <1>7

LEMMA ArriveOrder ==
  ASSUME MarksInv, OrderInv, NEW m \in Message, Arrive(m)
  PROVE  Line(arrived', turnedAway', begun, prompts, queue, tail')
<1>1. Line(arrived, turnedAway, begun, prompts, queue, tail) /\ tail \in TailType
  BY DEF MarksInv, OrderInv, TypeOK, TailType
<1> DEFINE x == [kind |-> "message", of |-> m, at |-> "start"]
           S == [kind : {"begin", "end"}, of : Activity, at : {"start"}]
                \cup [kind : {"message"}, of : Message, at : {"start", "insert"}]
<1>2. turnedAway' = turnedAway /\ tail' = Append(tail, x) /\ arrived' = IF Contains(arrived, m) THEN arrived ELSE Append(arrived, m)
  BY DEF Arrive, Request
<1>3. x \in S /\ x.kind = "message" /\ x.of = m /\ tail \in Seq(S)
  BY <1>1 DEF TailType
<1> HIDE DEF x, S
<1>4. /\ ArrivedOnce(arrived', begun) /\ TurnsOrdered(arrived', turnedAway', begun) /\ EntriesOrdered(arrived', turnedAway', begun, prompts)
      /\ RowsOrdered(arrived', turnedAway', begun, prompts, queue) /\ TailOrdered(arrived', turnedAway', begun, prompts, queue, tail)
      /\ Contains(arrived', m) /\ \A u : Contains(arrived', u) => Contains(arrived, u) \/ u = m
  <2>1. CASE Contains(arrived, m)
    BY <1>1, <1>2, <2>1 DEF Line
  <2>2. CASE ~Contains(arrived, m)
    <3>1. arrived' = Append(arrived, m)
      BY <1>2, <2>2
    <3>2. ArrivalFits(arrived, turnedAway, begun, prompts, queue, tail, m, Append(arrived, m))
      BY <1>1, <2>2, ArrivalLine
    <3> QED
      BY <1>2, <3>1, <3>2 DEF ArrivalFits
  <2> QED
    BY <2>1, <2>2
<1>5. \A u \in Message \ turnedAway' : Contains(arrived', u) /\ ~Contains(begun, u) /\ u # x.of =>
        u \in Keys(prompts) \cup Range(queue) \cup FirstMessages(tail, Len(tail) + 1)
  BY <1>1, <1>2, <1>3, <1>4 DEF Line, NoneLost
<1> QED
  BY <1>2, <1>3, <1>4, <1>5, MessageJoins

-----------------------------------------------------------------------------
(* The batch of the drain and the order of turns *)

(* The drain goes on with its batch or gives it up, and comes to no acknowledgement. *)
DrainMoves(d, e) == (e.batch = d.batch \/ e.batch = <<>>) /\ (e.at = "ack" => e = d)

LEMMA DrainMovesIn ==
  /\ ScheduleDrain => DrainMoves(drain, drain')
  /\ \A again : DrainEnds(again) => DrainMoves(drain, drain')
  /\ UNCHANGED drain => DrainMoves(drain, drain')
<1>1. ASSUME ScheduleDrain PROVE DrainMoves(drain, drain')
  <2>1. CASE drain.at = "off"
    <3>1. drain' = [at |-> "list", batch |-> <<>>]
      BY <1>1, <2>1 DEF ScheduleDrain
    <3> QED
      BY <3>1 DEF DrainMoves
  <2>2. CASE drain.at # "off"
    BY <1>1, <2>2 DEF ScheduleDrain, DrainMoves
  <2> QED
    BY <2>1, <2>2
<1>2. ASSUME NEW again, DrainEnds(again) PROVE DrainMoves(drain, drain')
  <2>1. drain' = [at |-> "list", batch |-> <<>>] \/ drain' = [at |-> "off", batch |-> <<>>]
    BY <1>2 DEF DrainEnds, DrainOff
  <2>2. CASE drain' = [at |-> "list", batch |-> <<>>]
    BY <2>2 DEF DrainMoves
  <2>3. CASE drain' = [at |-> "off", batch |-> <<>>]
    BY <2>3 DEF DrainMoves
  <2> QED
    BY <2>1, <2>2, <2>3
<1>3. UNCHANGED drain => DrainMoves(drain, drain')
  BY DEF DrainMoves
<1> QED
  BY <1>1, <1>2, <1>3

LEMMA BatchStays ==
  ASSUME NEW d, NEW Q, BatchFirst(d, Q), NEW e, e.batch = d.batch \/ e.batch = <<>>,
         NEW V, \A i \in DOMAIN Q : i \in DOMAIN V /\ V[i] = Q[i]
  PROVE  BatchFirst(e, V)
<1>1. CASE e.batch = d.batch
  BY <1>1 DEF BatchFirst
<1>2. CASE e.batch = <<>>
  BY <1>2 DEF BatchFirst
<1> QED
  BY <1>1, <1>2

(* A step of the drain that moves it, whatever the pump does. *)
LEMMA DrainOrder ==
  ASSUME OrderInv, DrainMoves(drain, drain'), Kept(begun, prompts, begun', prompts'),
         \A i \in DOMAIN queue : i \in DOMAIN queue' /\ queue'[i] = queue[i]
  PROVE  BatchFirst(drain', queue') /\ AckCovered(drain', begun', prompts')
<1>1. BatchFirst(drain', queue')
  BY BatchStays DEF OrderInv, DrainMoves
<1>2. AckCovered(drain', begun', prompts')
  BY DEF OrderInv, DrainMoves, AckCovered, Kept
<1> QED
  BY <1>1, <1>2

LEMMA KeptSame ==
  ASSUME UNCHANGED <<begun, prompts>>
  PROVE  Kept(begun, prompts, begun', prompts')
BY DEF Kept

(* The first row is the head of the batch. *)
LEMMA HeadIsFirst ==
  ASSUME MarksInv, OrderInv, drain.batch # <<>>
  PROVE  /\ Head(drain.batch) \in Message /\ 1 \in DOMAIN queue /\ queue[1] = Head(drain.batch)
         /\ Contains(arrived, queue[1]) /\ Due(arrived, turnedAway, begun, queue[1]) \subseteq Keys(prompts)
<1>1. PICK b \in Seq(Message) : b = drain.batch
  BY DEF MarksInv, BatchQueued
<1>2. Head(b) = b[1] /\ 1 \in DOMAIN b /\ Head(b) \in Message
  BY <1>1
<1>3. 1 \in DOMAIN queue /\ queue[1] = Head(drain.batch)
  BY <1>1, <1>2 DEF OrderInv, BatchFirst
<1>4. queue \in Seq(Message)
  BY DEF MarksInv, TypeOK
<1>5. FirstRows(queue, 1) = {}
  BY <1>4 DEF FirstRows
<1>6. Contains(arrived, queue[1]) /\ Due(arrived, turnedAway, begun, queue[1]) \subseteq Keys(prompts) \cup FirstRows(queue, 1)
  BY <1>3 DEF OrderInv, Line, RowsOrdered
<1> QED
  BY <1>1, <1>2, <1>3, <1>5, <1>6

LEMMA DeliverOrder ==
  ASSUME MarksInv, OrderInv, DeliverNext
  PROVE  OrderInv'
<1>1. /\ TypeOK /\ PumpInv(pump, prompts, inFlight, failed) /\ BatchFirst(drain, queue)
      /\ Line(arrived, turnedAway, begun, prompts, queue, tail) /\ WorkedFor(begun, pump, recent, failed)
  BY DEF MarksInv, OrderInv
<1>2. drain.at = "next" /\ UNCHANGED <<arrived, turnedAway, queue, tail>>
  BY DEF DeliverNext
<1>3. \/ (drain' = [drain EXCEPT !.at = "list"] \/ DrainEnds(FALSE)) /\ UNCHANGED <<pumping, begun>>
      \/ /\ drain.batch # <<>>
         /\ \/ /\ Dropped(Head(drain.batch)) /\ UNCHANGED <<pumping, begun>>
               /\ drain' = [drain EXCEPT !.at = "ack"]
            \/ ~Dropped(Head(drain.batch)) /\ drain' = [drain EXCEPT !.at = "await"] /\ Admit(Head(drain.batch), TRUE)
  BY DEF DeliverNext
<1>4. drain \in [at : {"off", "list", "next", "await", "ack"}, batch : Seq(Message)]
  BY <1>1 DEF TypeOK
<1>5. CASE (drain' = [drain EXCEPT !.at = "list"] \/ DrainEnds(FALSE)) /\ UNCHANGED <<pumping, begun>>
  <2>1. UNCHANGED <<prompts, pump, recent, failed, begun>>
    BY <1>5 DEF pumping
  <2>2. DrainMoves(drain, drain')
    <3>1. CASE drain' = [drain EXCEPT !.at = "list"]
      BY <1>4, <3>1 DEF DrainMoves
    <3> QED
      BY <1>5, <3>1, DrainMovesIn
  <2>3. BatchFirst(drain', queue') /\ AckCovered(drain', begun', prompts')
    BY <1>2, <2>1, <2>2, KeptSame, DrainOrder
  <2> QED
    BY <1>1, <1>2, <2>1, <2>3 DEF OrderInv
<1>6. CASE drain.batch # <<>> /\ Dropped(Head(drain.batch)) /\ UNCHANGED <<pumping, begun>>
           /\ drain' = [drain EXCEPT !.at = "ack"]
  <2>1. UNCHANGED <<prompts, pump, recent, failed, begun>> /\ drain'.batch = drain.batch
    BY <1>4, <1>6 DEF pumping
  <2>2. Head(drain.batch) \in Message
    BY <1>6, HeadIsFirst
  <2>3. AckCovered(drain', begun', prompts')
    BY <1>1, <1>6, <2>1, <2>2, DropCovered DEF AckCovered
  <2>4. BatchFirst(drain', queue')
    BY <1>1, <1>2, <2>1 DEF BatchFirst
  <2> QED
    BY <1>1, <1>2, <2>1, <2>3, <2>4 DEF OrderInv
<1>7. CASE drain.batch # <<>> /\ drain' = [drain EXCEPT !.at = "await"] /\ Admit(Head(drain.batch), TRUE)
  <2>1. PICK m \in Message : m = Head(drain.batch) /\ Contains(arrived, m) /\ Due(arrived, turnedAway, begun, m) \subseteq Keys(prompts)
    BY <1>7, HeadIsFirst
  <2>2. Admit(m, TRUE)
    BY <1>7, <2>1
  <2>3. /\ Line(arrived, turnedAway, begun', prompts', queue, tail) /\ WorkedFor(begun', pump', recent', failed')
    BY <1>1, <2>1, <2>2, AdmitLine
  <2>4. drain'.batch = drain.batch /\ drain'.at = "await"
    BY <1>4, <1>7
  <2>5. BatchFirst(drain', queue') /\ AckCovered(drain', begun', prompts')
    BY <1>1, <1>2, <2>4 DEF BatchFirst, AckCovered
  <2> QED
    BY <1>2, <2>3, <2>5 DEF OrderInv
<1> QED
  BY <1>3, <1>5, <1>6, <1>7

(* The row that is acknowledged is the first. *)
LEMMA AcknowledgeOrder ==
  ASSUME MarksInv, OrderInv, Acknowledge
  PROVE  OrderInv'
<1>1. /\ drain.at = "ack" /\ queue' = RemoveAt(queue, Row(Head(drain.batch)))
      /\ drain' = [at |-> "next", batch |-> Tail(drain.batch)]
      /\ UNCHANGED <<arrived, turnedAway, begun, prompts, tail, pump, recent, failed>>
  BY DEF Acknowledge, pumping, ghost
<1>2. PICK Q \in Seq(Message) : Q = queue /\ IsInjective(Q)
  BY DEF MarksInv, TypeOK
<1>3. PICK b \in Seq(Message) : b = drain.batch /\ b # <<>>
  BY <1>1 DEF MarksInv, BatchQueued
<1>4. Head(b) \in Message /\ 1 \in DOMAIN Q /\ Q[1] = Head(b)
  BY <1>2, <1>3, HeadIsFirst
<1>5. Row(Head(b)) = 1
  <2>1. \A i \in DOMAIN Q : Q[i] = Head(b) => i = 1
    BY <1>2, <1>4 DEF IsInjective
  <2> QED
    BY <1>2, <1>4, <2>1 DEF Row
<1>6. Len(Q) \in Nat \ {0} /\ DOMAIN Q = 1 .. Len(Q)
  BY <1>4
<1>7. PICK V \in Seq(Message) :
        V = queue' /\ Len(V) = Len(Q) - 1 /\ \A k \in 1 .. Len(Q) - 1 : V[k] = Q[k + 1]
  <2>1. /\ RemoveAt(Q, 1) \in Seq(Message) /\ Len(RemoveAt(Q, 1)) = Len(Q) - 1
        /\ \A k \in 1 .. Len(Q) - 1 : RemoveAt(Q, 1)[k] = IF k < 1 THEN Q[k] ELSE Q[k + 1]
    BY <1>4, RemoveAtIs
  <2>2. queue' = RemoveAt(Q, 1)
    BY <1>1, <1>2, <1>3, <1>5
  <2>3. \A k \in 1 .. Len(Q) - 1 : RemoveAt(Q, 1)[k] = Q[k + 1]
    BY <1>6, <2>1
  <2> QED
    BY <2>1, <2>2, <2>3
<1>8. Contains(begun, Q[1]) \/ Q[1] \in Keys(prompts)
  BY <1>1, <1>3, <1>4 DEF OrderInv, AckCovered
<1>9. Line(arrived, turnedAway, begun, prompts, Q, tail)
  BY <1>2 DEF OrderInv
<1>10. Line(arrived, turnedAway, begun, prompts, V, tail)
  BY <1>4, <1>7, <1>8, <1>9, RowLeaves
<1>11. BatchFirst(drain', V)
  <2>1. /\ Tail(b) \in Seq(Message) /\ Len(Tail(b)) = Len(b) - 1 /\ DOMAIN Tail(b) = 1 .. Len(b) - 1
        /\ \A k \in 1 .. Len(b) - 1 : Tail(b)[k] = b[k + 1]
    <3>1. Len(b) \in Nat \ {0} /\ Tail(b) \in Seq(Message) /\ Len(Tail(b)) = Len(b) - 1
      BY <1>3
    <3>2. \A k \in 1 .. Len(b) - 1 : Tail(b)[k] = b[k + 1]
      BY <1>3
    <3> QED
      BY <3>1, <3>2
  <2>2. drain'.batch = Tail(b)
    BY <1>1, <1>3
  <2>3. \A k \in DOMAIN b : k \in DOMAIN Q /\ Q[k] = b[k]
    BY <1>2, <1>3 DEF OrderInv, BatchFirst
  <2> SUFFICES ASSUME NEW k \in 1 .. Len(b) - 1 PROVE k \in DOMAIN V /\ V[k] = Tail(b)[k]
    BY <2>1, <2>2 DEF BatchFirst
  <2>4. k + 1 \in DOMAIN b
    OBVIOUS
  <2>5. k + 1 \in DOMAIN Q /\ Q[k + 1] = b[k + 1]
    BY <2>3, <2>4
  <2>6. k \in 1 .. Len(Q) - 1
    BY <1>6, <2>5
  <2> QED
    BY <1>6, <1>7, <2>1, <2>5, <2>6
<1>12. AckCovered(drain', begun', prompts')
  BY <1>1 DEF AckCovered
<1> QED
  BY <1>1, <1>7, <1>10, <1>11, <1>12 DEF OrderInv

(* A step that only moves the drain. *)
LEMMA StillOrder ==
  ASSUME OrderInv, DrainMoves(drain, drain'),
         UNCHANGED <<arrived, turnedAway, begun, prompts, queue, tail, pump, recent, failed>>
  PROVE  OrderInv'
<1>1. BatchFirst(drain', queue') /\ AckCovered(drain', begun', prompts')
  BY KeptSame, DrainOrder
<1> QED
  BY <1>1 DEF OrderInv

LEMMA ListOrder ==
  ASSUME MarksInv, OrderInv, ListPending
  PROVE  OrderInv'
<1>1. UNCHANGED <<arrived, turnedAway, begun, prompts, queue, tail, pump, recent, failed>>
  BY DEF ListPending, pumping, ghost
<1>2. CASE DrainEnds(FALSE)
  BY <1>1, <1>2, DrainMovesIn, StillOrder
<1>3. CASE drain' = [at |-> "next", batch |-> SubSeq(queue, 1, IF Len(queue) < BatchSize THEN Len(queue) ELSE BatchSize)]
  <2>1. PICK n : n = IF Len(queue) < BatchSize THEN Len(queue) ELSE BatchSize
    OBVIOUS
  <2>2. queue \in Seq(Message) /\ BatchSize \in Nat
    BY MessagesAssumption DEF MarksInv, TypeOK
  <2>3. n \in Nat /\ n <= Len(queue) /\ DOMAIN queue = 1 .. Len(queue)
    BY <2>1, <2>2
  <2>4. PICK b \in Seq(Message) : b = SubSeq(queue, 1, n) /\ Len(b) = n /\ \A i \in 1 .. n : b[i] = queue[i]
    <3>1. SubSeq(queue, 1, n) \in Seq(Message) /\ Len(SubSeq(queue, 1, n)) = n
      BY <2>2, <2>3
    <3>2. \A i \in 1 .. n : SubSeq(queue, 1, n)[i] = queue[i]
      BY <2>2, <2>3
    <3> QED
      BY <3>1, <3>2
  <2>5. drain'.batch = b /\ drain'.at = "next"
    BY <1>3, <2>1, <2>4
  <2>6. DOMAIN b = 1 .. n
    BY <2>4
  <2>7. BatchFirst(drain', queue') /\ AckCovered(drain', begun', prompts')
    BY <1>1, <2>3, <2>4, <2>5, <2>6 DEF BatchFirst, AckCovered
  <2> QED
    BY <1>1, <2>7 DEF OrderInv
<1> QED
  BY <1>2, <1>3 DEF ListPending

LEMMA FinishOrder ==
  ASSUME MarksInv, OrderInv, Finish
  PROVE  OrderInv'
<1>1. /\ TypeOK /\ PumpInv(pump, prompts, inFlight, failed) /\ AwaitedIsHead(pump, prompts, drain) /\ BundleCovered(pump)
      /\ Line(arrived, turnedAway, begun, prompts, queue, tail) /\ WorkedFor(begun, pump, recent, failed) /\ BatchFirst(drain, queue)
  BY DEF MarksInv, OrderInv, PumpInv
<1>2. /\ UNCHANGED <<arrived, turnedAway, queue, tail>> /\ Continue
      /\ recent' = recent \cup pump.reply.keys
      /\ failed' = [m \in Message |-> IF m \in pump.reply.keys THEN NoReply ELSE failed[m]]
      /\ drain' = IF Awaited THEN [drain EXCEPT !.at = "ack"] ELSE drain
  BY DEF Finish
<1>3. /\ Line(arrived, turnedAway, begun', prompts', queue, tail) /\ WorkedFor(begun', pump', recent', failed')
      /\ Kept(begun, prompts, begun', prompts')
  <2>1. \A m \in Message : m \in recent' => m \in recent \/ m \in pump.reply.keys
    BY <1>2
  <2>2. \A m \in Message : failed'[m] # NoReply => failed[m] # NoReply
    BY <1>2
  <2> QED
    BY <1>1, <1>2, <2>1, <2>2, ContinueLine
<1>4. BatchFirst(drain', queue') /\ AckCovered(drain', begun', prompts')
  <2>1. CASE ~Awaited
    <3>1. DrainMoves(drain, drain')
      BY <1>2, <2>1, DrainMovesIn
    <3> QED
      BY <1>2, <1>3, <3>1, DrainOrder
  <2>2. CASE Awaited
    <3>1. drain'.batch = drain.batch
      BY <1>1, <1>2, <2>2 DEF TypeOK
    <3>2. PICK i \in DOMAIN pump.bundle : pump.bundle[i].awaited
      BY <2>2 DEF Awaited
    <3>3. pump.bundle[i].m = Head(drain.batch)
      BY <1>1, <3>2 DEF AwaitedIsHead
    <3>4. Head(drain.batch) \in pump.reply.keys
      BY <1>1, <3>2, <3>3 DEF BundleCovered, Keys
    <3>5. pump.reply.keys \subseteq Message
      BY <1>1 DEF TypeOK, Checkpoint
    <3>6. Contains(begun, Head(drain.batch))
      BY <1>1, <3>4, <3>5 DEF WorkedFor
    <3> QED
      BY <1>1, <1>2, <1>3, <3>1, <3>6 DEF BatchFirst, AckCovered, Kept
  <2> QED
    BY <2>1, <2>2
<1> QED
  BY <1>2, <1>3, <1>4 DEF OrderInv

LEMMA NoticeOrder ==
  ASSUME MarksInv, OrderInv, Notice
  PROVE  OrderInv'
<1>1. /\ PumpInv(pump, prompts, inFlight, failed)
      /\ Line(arrived, turnedAway, begun, prompts, queue, tail) /\ WorkedFor(begun, pump, recent, failed)
  BY DEF MarksInv, OrderInv
<1>2. UNCHANGED <<arrived, turnedAway, queue, tail, recent, failed>> /\ Continue /\ Reject
  BY DEF Notice
<1>3. /\ Line(arrived, turnedAway, begun', prompts', queue, tail) /\ WorkedFor(begun', pump', recent', failed')
      /\ Kept(begun, prompts, begun', prompts')
  BY <1>1, <1>2, ContinueLine
<1>4. DrainMoves(drain, drain')
  BY <1>2, DrainMovesIn DEF Reject, draining
<1>5. BatchFirst(drain', queue') /\ AckCovered(drain', begun', prompts')
  BY <1>2, <1>3, <1>4, DrainOrder
<1> QED
  BY <1>2, <1>3, <1>5 DEF OrderInv

LEMMA CrashOrder ==
  ASSUME MarksInv, Crash
  PROVE  OrderInv'
<1>1. /\ arrived' = queue /\ turnedAway' = {} /\ queue' = queue /\ begun' = <<>> /\ prompts' = <<>> /\ tail' = <<>>
      /\ recent' = {} /\ failed' = [m \in Message |-> NoReply] /\ pump' = Idle
      /\ drain' = [at |-> "list", batch |-> <<>>]
  BY DEF Crash
<1>2. queue \in Seq(Message) /\ IsInjective(queue)
  BY DEF MarksInv, TypeOK
<1>3. Line(queue, {}, <<>>, <<>>, queue, <<>>)
  BY <1>2, RestartLine
<1>4. Line(arrived', turnedAway', begun', prompts', queue', tail')
  BY <1>1, <1>3
<1>5. pump'.reply.keys = {} /\ \A m \in Message : failed'[m] = NoReply
  BY <1>1 DEF Idle, NoReply
<1>6. WorkedFor(begun', pump', recent', failed')
  BY <1>1, <1>5 DEF WorkedFor
<1>7. BatchFirst(drain', queue') /\ AckCovered(drain', begun', prompts')
  BY <1>1 DEF BatchFirst, AckCovered
<1> QED
  BY <1>4, <1>6, <1>7 DEF OrderInv

(* A transition joins the tail, or the transition at its head leaves it. *)
LEMMA TransitionOrder ==
  ASSUME MarksInv, OrderInv,
         (\E a \in Activity : BeginActivity(a) \/ EndActivity(a)) \/ Publish \/ PublishFails \/ Hold
  PROVE  OrderInv'
<1> DEFINE S == [kind : {"begin", "end"}, of : Activity, at : {"start"}]
                \cup [kind : {"message"}, of : Message, at : {"start", "insert"}]
<1>1. Line(arrived, turnedAway, begun, prompts, queue, tail) /\ tail \in Seq(S)
  BY DEF MarksInv, OrderInv, TypeOK
<1>2. /\ UNCHANGED <<arrived, turnedAway, begun, prompts, queue, pump, recent, failed>>
      /\ ScheduleDrain \/ UNCHANGED drain
  BY DEF BeginActivity, EndActivity, Publish, PublishFails, Hold, pumping, draining, ghost
<1>3. DrainMoves(drain, drain')
  BY <1>2, DrainMovesIn
<1>4. Line(arrived, turnedAway, begun, prompts, queue, tail')
  <2>1. CASE \E a \in Activity : BeginActivity(a) \/ EndActivity(a)
    <3>1. PICK a \in Activity, k \in {"begin", "end"} : tail' = Append(tail, [kind |-> k, of |-> a, at |-> "start"])
      BY <2>1 DEF BeginActivity, EndActivity, Request
    <3>2. PICK x \in S : x = [kind |-> k, of |-> a, at |-> "start"] /\ x.kind # "message"
      BY <3>1
    <3> HIDE DEF S
    <3> QED
      BY <1>1, <3>1, <3>2, TransitionJoins
  <2>2. CASE Publish \/ PublishFails
    <3>1. tail # <<>> /\ Head(tail).kind \in {"begin", "end"} /\ tail' = Tail(tail)
      BY <2>2 DEF Publish, PublishFails, Running, Settle
    <3>2. Head(tail) = tail[1] /\ tail[1].kind # "message"
      BY <1>1, <3>1
    <3> HIDE DEF S
    <3>3. TailOrdered(arrived, turnedAway, begun, prompts, queue, tail) /\ NoneLost(arrived, turnedAway, begun, prompts, queue, tail)
      BY <1>1 DEF Line
    <3>4. /\ TailOrdered(arrived, turnedAway, begun, prompts, queue, Tail(tail))
          /\ NoneLost(arrived, turnedAway, begun, prompts, queue, Tail(tail))
      BY <1>1, <3>1, <3>2, <3>3, HeadLeaves
    <3> QED
      BY <1>1, <3>1, <3>4 DEF Line
  <2>3. CASE Hold
    <3>1. tail # <<>> /\ Head(tail).kind = "message" /\ tail' = <<[Head(tail) EXCEPT !.at = "insert"]>> \o Tail(tail)
      BY <2>3 DEF Hold, Running
    <3>2. Head(tail) = tail[1] /\ 1 \in DOMAIN tail /\ Head(tail) \in S /\ DOMAIN tail = 1 .. Len(tail)
      BY <1>1, <3>1
    <3>3. PICK h \in S : h = [Head(tail) EXCEPT !.at = "insert"] /\ h.kind = tail[1].kind /\ h.of = tail[1].of
      BY <3>1, <3>2
    <3> HIDE DEF S
    <3>4. PICK t \in Seq(S) : t = Tail(tail) /\ Len(t) = Len(tail) - 1 /\ \A i \in 1 .. Len(tail) - 1 : t[i] = tail[i + 1]
      <4>1. Len(tail) \in Nat \ {0} /\ Tail(tail) \in Seq(S) /\ Len(Tail(tail)) = Len(tail) - 1
        BY <1>1, <3>1
      <4>2. \A i \in 1 .. Len(tail) - 1 : Tail(tail)[i] = tail[i + 1]
        BY <1>1, <3>1
      <4> QED
        BY <4>1, <4>2
    <3>5. PICK g \in Seq(S) : g = <<h>> /\ Len(g) = 1 /\ g[1] = h
      <4>1. <<h>> \in Seq(S) /\ Len(<<h>>) = 1 /\ <<h>>[1] = h
        OBVIOUS
      <4> QED
        BY <4>1
    <3>6. PICK U \in Seq(S) : U = g \o t /\ Len(U) = Len(g) + Len(t)
                              /\ (\A i \in 1 .. Len(g) : U[i] = g[i]) /\ (\A i \in 1 .. Len(t) : U[Len(g) + i] = t[i])
      <4>1. g \o t \in Seq(S) /\ Len(g \o t) = Len(g) + Len(t)
        BY <3>4, <3>5, ConcatIs
      <4>2. \A i \in 1 .. Len(g) : (g \o t)[i] = g[i]
        BY <3>4, <3>5, ConcatIs
      <4>3. \A i \in 1 .. Len(t) : (g \o t)[Len(g) + i] = t[i]
        BY <3>4, <3>5, ConcatIs
      <4> QED
        BY <4>1, <4>2, <4>3
    <3>7. Len(U) = Len(tail) /\ DOMAIN U = DOMAIN tail /\ U[1] = h /\ Len(tail) \in Nat
      BY <3>2, <3>4, <3>5, <3>6
    <3>8. \A i \in DOMAIN tail : U[i].kind = tail[i].kind /\ U[i].of = tail[i].of
      <4> SUFFICES ASSUME NEW i \in DOMAIN tail, i # 1 PROVE U[i] = tail[i]
        BY <3>3, <3>7
      <4>1. i - 1 \in 1 .. Len(t) /\ i = Len(g) + (i - 1) /\ i - 1 \in 1 .. Len(tail) - 1 /\ (i - 1) + 1 = i
        BY <3>2, <3>4, <3>5, <3>7
      <4>2. U[Len(g) + (i - 1)] = t[i - 1] /\ t[i - 1] = tail[(i - 1) + 1]
        BY <3>4, <3>6, <4>1
      <4> QED
        BY <4>1, <4>2
    <3>9. Line(arrived, turnedAway, begun, prompts, queue, U)
      BY <1>1, <3>7, <3>8, TailAdvances
    <3> QED
      BY <3>1, <3>3, <3>4, <3>5, <3>6, <3>9
  <2> QED
    BY <2>1, <2>2, <2>3
<1> HIDE DEF S
<1>5. BatchFirst(drain', queue') /\ AckCovered(drain', begun', prompts')
  BY <1>2, <1>3, KeptSame, DrainOrder
<1> QED
  BY <1>2, <1>4, <1>5 DEF OrderInv

(* The pump works on, or records run out: what has had a turn has had it. *)
LEMMA WorkOrder ==
  ASSUME MarksInv, OrderInv, TurnEnds \/ TurnFails \/ SendPart \/ SendFails \/ Forget
  PROVE  OrderInv'
<1>1. TypeOK /\ WorkedFor(begun, pump, recent, failed)
  BY DEF MarksInv, OrderInv
<1>2. UNCHANGED <<arrived, turnedAway, begun, prompts, queue, tail, drain>>
  BY DEF TurnEnds, TurnFails, SendPart, SendFails, Forget, draining, ghost
<1>3. pump \in [at : {"off", "turn", "send", "notice"}, bundle : Seq(Entry), reply : [keys : SUBSET Message, left : Parts]]
  BY <1>1 DEF TypeOK, Checkpoint
<1>4. pump'.reply.keys = pump.reply.keys /\ pump.reply.keys \subseteq Message
  <2>1. CASE TurnEnds
    <3>1. PICK parts : pump' = [pump EXCEPT !.at = "send", !.reply.left = parts]
      BY <2>1 DEF TurnEnds
    <3> QED
      BY <1>3, <3>1
  <2>2. CASE TurnFails \/ SendFails
    BY <1>3, <2>2 DEF TurnFails, SendFails
  <2>3. CASE SendPart
    BY <1>3, <2>3 DEF SendPart
  <2>4. CASE Forget
    BY <1>3, <2>4 DEF Forget
  <2> QED
    BY <2>1, <2>2, <2>3, <2>4
<1>5. recent' \subseteq recent
  BY DEF TurnEnds, TurnFails, SendPart, SendFails, Forget
<1>6. \A m \in Message : failed'[m] # NoReply => failed[m] # NoReply \/ m \in pump.reply.keys
  <2>1. CASE SendFails
    BY <2>1 DEF SendFails
  <2>2. CASE Forget
    BY <2>2 DEF Forget
  <2>3. CASE TurnEnds \/ TurnFails \/ SendPart
    BY <2>3 DEF TurnEnds, TurnFails, SendPart
  <2> QED
    BY <2>1, <2>2, <2>3
<1>7. WorkedFor(begun', pump', recent', failed')
  BY <1>1, <1>2, <1>4, <1>5, <1>6 DEF WorkedFor
<1> QED
  BY <1>2, <1>7 DEF OrderInv

LEMMA OrderNext == MarksInv /\ OrderInv /\ [Next]_vars => OrderInv'
<1> SUFFICES ASSUME MarksInv, OrderInv, [Next]_vars PROVE OrderInv'
  OBVIOUS
<1>1. CASE \E m \in Message : Arrive(m)
  <2>1. PICK m \in Message : Arrive(m)
    BY <1>1
  <2>2. Line(arrived', turnedAway', begun, prompts, queue, tail')
    BY <2>1, ArriveOrder
  <2>3. UNCHANGED <<turnedAway, begun, prompts, queue, pump, recent, failed, drain>>
    BY <2>1 DEF Arrive, pumping, draining
  <2> QED
    BY <2>2, <2>3 DEF OrderInv
<1>2. CASE (\E a \in Activity : BeginActivity(a) \/ EndActivity(a)) \/ Publish \/ PublishFails \/ Hold
  BY <1>2, TransitionOrder
<1>3. CASE GoOn
  <2>1. /\ Line(arrived', turnedAway', begun', prompts', queue', tail') /\ WorkedFor(begun', pump', recent', failed')
        /\ Kept(begun, prompts, begun', prompts')
    BY <1>3, GoOnOrder
  <2>2. UNCHANGED <<queue, drain>>
    BY <1>3 DEF GoOn, draining
  <2>3. BatchFirst(drain', queue') /\ AckCovered(drain', begun', prompts')
    BY <2>1, <2>2, DrainMovesIn, DrainOrder
  <2> QED
    BY <2>1, <2>3 DEF OrderInv
<1>4. CASE Insert
  <2>1. /\ Line(arrived', turnedAway', begun', prompts', queue', tail') /\ UNCHANGED <<begun, prompts, pump, recent, failed>>
        /\ \A i \in DOMAIN queue : i \in DOMAIN queue' /\ queue'[i] = queue[i]
    BY <1>4, InsertOrder
  <2>2. DrainMoves(drain, drain')
    BY <1>4, DrainMovesIn DEF Insert, Wake, draining
  <2>3. BatchFirst(drain', queue') /\ AckCovered(drain', begun', prompts')
    BY <2>1, <2>2, KeptSame, DrainOrder
  <2> QED
    BY <2>1, <2>3 DEF OrderInv
<1>41. CASE AdmissionFails
  <2>1. /\ Line(arrived', turnedAway', begun', prompts', queue', tail')
        /\ UNCHANGED <<begun, prompts, pump, recent, failed>>
        /\ \A i \in DOMAIN queue : i \in DOMAIN queue' /\ queue'[i] = queue[i]
    BY <1>41, TurnedAwayOrder
  <2>2. DrainMoves(drain, drain')
    BY <1>41, DrainMovesIn DEF AdmissionFails, draining
  <2>3. BatchFirst(drain', queue') /\ AckCovered(drain', begun', prompts')
    BY <2>1, <2>2, KeptSame, DrainOrder
  <2> QED
    BY <2>1, <2>3 DEF OrderInv
<1>5. CASE TurnEnds \/ TurnFails \/ SendPart \/ SendFails \/ Forget
  BY <1>5, WorkOrder
<1>6. CASE Finish
  BY <1>6, FinishOrder
<1>7. CASE Notice
  BY <1>7, NoticeOrder
<1>8. CASE ListPending
  BY <1>8, ListOrder
<1>9. CASE DeliverNext
  BY <1>9, DeliverOrder
<1>10. CASE Acknowledge
  BY <1>10, AcknowledgeOrder
<1>11. CASE DrainFails \/ RetryTimer
  <2>1. UNCHANGED <<arrived, turnedAway, begun, prompts, queue, tail, pump, recent, failed>>
    BY <1>11 DEF DrainFails, RetryTimer, pumping, ghost
  <2>2. DrainMoves(drain, drain')
    BY <1>11, DrainMovesIn DEF DrainFails, RetryTimer
  <2> QED
    BY <2>1, <2>2, StillOrder
<1>12. CASE Crash
  BY <1>12, CrashOrder
<1>13. CASE UNCHANGED vars
  <2>1. UNCHANGED <<arrived, turnedAway, begun, prompts, queue, tail, pump, recent, failed, drain>>
    BY <1>13 DEF vars
  <2> QED
    BY <2>1, DrainMovesIn, StillOrder
<1> QED
  BY <1>1, <1>2, <1>3, <1>4, <1>41, <1>5, <1>6, <1>7, <1>8, <1>9, <1>10, <1>11, <1>12, <1>13
     DEF Next, Admission, Transition, DrainStep, Pump

LEMMA OrderInit == Init => OrderInv
<1> SUFFICES ASSUME Init PROVE OrderInv
  OBVIOUS
<1>1. /\ arrived = <<>> /\ turnedAway = {} /\ queue = <<>> /\ begun = <<>> /\ prompts = <<>> /\ tail = <<>>
      /\ recent = {} /\ failed = [m \in Message |-> NoReply] /\ pump = Idle /\ drain = DrainOff
  BY DEF Init
<1>2. <<>> \in Seq(Message) /\ IsInjective(<<>>)
  BY DEF IsInjective
<1>3. Line(arrived, turnedAway, begun, prompts, queue, tail)
  BY <1>1, <1>2, RestartLine
<1>4. pump.reply.keys = {} /\ \A m \in Message : failed[m] = NoReply
  BY <1>1 DEF Idle, NoReply
<1>5. BatchFirst(drain, queue) /\ AckCovered(drain, begun, prompts)
  BY <1>1 DEF BatchFirst, AckCovered, DrainOff
<1> QED
  BY <1>1, <1>3, <1>4, <1>5 DEF OrderInv, WorkedFor

LEMMA OrderMeans == OrderInv => InOrder
<1> SUFFICES ASSUME OrderInv PROVE InOrder
  OBVIOUS
<1>1. \A i, j \in DOMAIN begun :
        i < j /\ begun[i] # None /\ begun[j] # None /\ begun[j] \notin turnedAway =>
          Earlier(arrived, begun[i], begun[j])
  BY DEF OrderInv, Line, TurnsOrdered
<1> QED
  BY <1>1 DEF InOrder, Before, Earlier

(* Messages have their first turn in the order in which they arrived at this process, or   *)
(* after a restart in the order of the durable rows: enqueueIfUnavailable lets no message  *)
(* past one that waits, and the drain feeds the pump from the front of the queue           *)
(* (companion-availability.ts), whatever is retried, dropped or delivered twice.  Only a   *)
(* message whose admission failed may follow later ones.                                   *)
THEOREM TurnsInOrder == Spec => []InOrder
<1>1. Init => OrderInv
  BY OrderInit
<1>2. MarksInv /\ OrderInv /\ [Next]_vars => OrderInv'
  BY OrderNext
<1>3. OrderInv => InOrder
  BY OrderMeans
<1> QED
  BY <1>1, <1>2, <1>3, MarksAlways, PTL DEF Spec
=============================================================================
