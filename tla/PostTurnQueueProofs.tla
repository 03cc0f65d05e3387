------------------------- MODULE PostTurnQueueProofs -------------------------
(* The queue of post-turn actions, for any actions, keys, lanes and capacities  *)
(* and any failing writes and crashes: demand that was accepted is going to be  *)
(* served by what the queue holds, and is in the file.                          *)
(*                                                                              *)
(* DemandKept is about the entry of a key while a run of that key is under way. *)
(* QueueInv adds that the entry stays for as long as the run does, although the *)
(* lane may overflow meanwhile, that the run serves nothing newer than its      *)
(* action, and that no entry is newer than what has yet to arrive.              *)
EXTENDS PostTurnQueue, TLAPS

Item == [action : Action, pending : Action \cup {None}, attempt : Nat, due : BOOLEAN,
         since : Nat, cover : Nat]
Items == [Key -> Item \cup {NoEntry}]
Progress == [pc : {"none", "waiting", "executing"}, key : Key \cup {None},
             entry : Item \cup {NoEntry}, serves : SUBSET Action]

Types ==
  /\ queue \in Items /\ disk \in Items /\ run \in Progress
  /\ open \subseteq arrived /\ arrived \subseteq Action

(* What has arrived is not newer than what has not, and neither is an entry. *)
InOrder(came) == \A a \in came, b \in Action \ came : InferredAt[a] <= InferredAt[b]

InTime(e, came) ==
  \A b \in Action \ came :
    /\ e.since <= InferredAt[b] /\ e.cover <= InferredAt[b]
    /\ e.pending # None => InferredAt[e.pending] <= InferredAt[b]

(* The entry of a run stays in the queue and is due; the run serves what its action
   covers. *)
RunHolds(r, q) ==
  r.pc # "none" =>
    /\ r.key \in Key /\ q[r.key] # NoEntry /\ q[r.key].due
    /\ r.entry # NoEntry
    /\ \A a \in r.serves : InferredAt[a] <= InferredAt[r.entry.action]

Kept(a, e, r) ==
  \/ Covers(e, a) /\ (r.pc = "executing" /\ r.key = KeyOf[a] => a \in r.serves)
  \/ Follows(e, a)

QueueInv ==
  /\ Types
  /\ InOrder(arrived)
  /\ \A k \in Key : InTime(queue[k], arrived) /\ InTime(disk[k], arrived)
  /\ RunHolds(run, queue)
  /\ DemandKept /\ DurableDemand

-----------------------------------------------------------------------------
LEMMA KeptIsDemand ==
  /\ DemandKept <=> \A a \in open : Kept(a, queue[KeyOf[a]], run)
  /\ DemandKept' <=> \A a \in open' : Kept(a, queue'[KeyOf[a]], run')
BY DEF DemandKept, Kept, Covers, Follows, Executes

LEMMA Entries ==
  /\ NoEntry \notin Item
  /\ \A e \in Item : e.action \in Action /\ e.action # None
  /\ NoEntry.pending = None /\ NoEntry.since = 0 /\ NoEntry.cover = 0 /\ NoEntry.action = None
  /\ \A a \in Action : KeyOf[a] \in Key /\ InferredAt[a] \in Nat
BY QueueAssumption DEF NoEntry, Item, None

LEMMA Resting == Idle \in Progress /\ Idle.pc = "none" /\ \A q : RunHolds(Idle, q)
BY DEF Idle, Progress, RunHolds

LEMMA QueueInit == Init => QueueInv
<1> SUFFICES ASSUME Init PROVE QueueInv
  OBVIOUS
<1>1. Types
  BY Resting DEF Init, Types, Empty, Items
<1>2. InOrder(arrived)
  BY DEF Init, InOrder
<1>3. \A k \in Key : InTime(queue[k], arrived) /\ InTime(disk[k], arrived)
  BY Entries DEF Init, Empty, InTime
<1>4. DemandKept /\ DurableDemand
  BY DEF Init, DemandKept, DurableDemand
<1> QED
  BY <1>1, <1>2, <1>3, <1>4, Resting DEF QueueInv, Init

(* What a step has to show: where an entry comes from, and which demand is kept. *)
LEMMA QueueStep ==
  ASSUME QueueInv,
         queue' \in Items, disk' \in Items, run' \in Progress,
         arrived \subseteq arrived', arrived' \subseteq Action, open' \subseteq arrived',
         InOrder(arrived'),
         \A k \in Key : queue'[k] \in {queue[k], disk[k]} \/ InTime(queue'[k], arrived'),
         \A k \in Key : disk'[k] \in {disk[k], queue'[k]},
         RunHolds(run', queue'),
         \A a \in open' : Kept(a, queue'[KeyOf[a]], run'),
         \/ disk' = queue'
         \/ \A a \in open' : a \in open /\ disk'[KeyOf[a]] = disk[KeyOf[a]]
  PROVE  QueueInv'
<1>1. Types'
  BY DEF Types
<1>2. \A k \in Key : InTime(queue[k], arrived') /\ InTime(disk[k], arrived')
  BY DEF QueueInv, InTime
<1>3. \A k \in Key : InTime(queue'[k], arrived') /\ InTime(disk'[k], arrived')
  BY <1>2
<1>4. DemandKept'
  BY KeptIsDemand
<1>5. DurableDemand'
  <2> SUFFICES ASSUME NEW a \in open'
               PROVE  Covers(disk'[KeyOf[a]], a) \/ Follows(disk'[KeyOf[a]], a)
    BY DEF DurableDemand, Covers, Follows
  <2>1. CASE disk' = queue'
    BY <2>1 DEF Kept
  <2>2. CASE a \in open /\ disk'[KeyOf[a]] = disk[KeyOf[a]]
    BY <2>2 DEF QueueInv, DurableDemand
  <2> QED
    BY <2>1, <2>2
<1> QED
  BY <1>1, <1>3, <1>4, <1>5 DEF QueueInv

(* A step of the executor or of an operator accepts nothing. *)
LEMMA NothingAccepted ==
  ASSUME QueueInv, NEW next \in Items, queue' = next, Saves(next), run' \in Progress,
         open' \subseteq open, arrived' = arrived,
         \A k \in Key : next[k] = queue[k] \/ InTime(next[k], arrived),
         RunHolds(run', next),
         \A a \in open' : Kept(a, next[KeyOf[a]], run')
  PROVE  QueueInv'
<1>1. disk' = next \/ disk' = disk
  BY DEF Saves
<1>2. Types
  BY DEF QueueInv
<1>3. /\ disk' \in Items
      /\ \A k \in Key : disk'[k] \in {disk[k], queue'[k]}
      /\ disk' = queue' \/ \A a \in open' : a \in open /\ disk'[KeyOf[a]] = disk[KeyOf[a]]
  BY <1>1, <1>2 DEF Types
<1>4. open' \subseteq arrived' /\ arrived' \subseteq Action /\ InOrder(arrived')
  BY <1>2 DEF Types, QueueInv
<1> QED
  BY <1>3, <1>4, QueueStep

-----------------------------------------------------------------------------
(* What the producer's steps make of an entry *)

LEMMA CreatedEntry ==
  ASSUME NEW a \in Action, NEW due \in BOOLEAN
  PROVE  /\ Created(a, due) \in Item
         /\ Created(a, due).action = a /\ Created(a, due).pending = None
         /\ Created(a, due).since = InferredAt[a] /\ Created(a, due).cover = InferredAt[a]
BY Entries, QueueAssumption DEF Created, Item

(* A fold keeps what the entry covers or is followed by, and takes the demand up: as
   the action itself, or as its successor while the run must finish. *)
LEMMA CoalescedEntry ==
  ASSUME NEW e \in Item, NEW a \in Action, NEW due \in BOOLEAN, NEW busy \in BOOLEAN,
         ~busy => e.pending = None,
         e.cover <= InferredAt[a],
         e.pending # None => InferredAt[e.pending] <= InferredAt[a],
         NEW f, f = Coalesced(e, a, due, busy)
  PROVE  /\ f \in Item
         /\ busy => f.action = e.action /\ f.pending = a
         /\ ~busy => f.action = a /\ f.pending = None
         /\ e.due => f.due
         /\ f.since <= InferredAt[a] /\ f.cover <= InferredAt[a]
<1>1. /\ e.since \in Nat /\ e.cover \in Nat /\ InferredAt[a] \in Nat /\ e.due \in BOOLEAN
      /\ e.pending # None => InferredAt[e.pending] \in Nat
  BY Entries DEF Item
<1>2. InferredAt[a] >= e.cover /\ (e.pending = None \/ InferredAt[a] >= InferredAt[e.pending])
  BY <1>1
<1>3. /\ Least(e.since, InferredAt[a]) \in Nat /\ Least(e.since, InferredAt[a]) <= InferredAt[a]
      /\ Most(e.cover, InferredAt[a]) \in Nat /\ Most(e.cover, InferredAt[a]) <= InferredAt[a]
  BY <1>1 DEF Least, Most
<1>4. (IF busy \/ e.attempt > 0 THEN e.due ELSE e.due \/ due) \in BOOLEAN
  BY <1>1
<1>5. f = [e EXCEPT !.action = IF busy THEN e.action ELSE a,
                    !.pending = IF busy THEN a ELSE None,
                    !.since = Least(e.since, InferredAt[a]),
                    !.cover = Most(e.cover, InferredAt[a]),
                    !.due = IF busy \/ e.attempt > 0 THEN e.due ELSE e.due \/ due]
  BY <1>2 DEF Coalesced
<1>6. f \in Item /\ (busy => f.action = e.action /\ f.pending = a)
      /\ (~busy => f.action = a /\ f.pending = None)
  BY <1>3, <1>4, <1>5 DEF Item
<1>7. f.since = Least(e.since, InferredAt[a]) /\ f.cover = Most(e.cover, InferredAt[a])
      /\ f.due = (IF busy \/ e.attempt > 0 THEN e.due ELSE e.due \/ due)
  BY <1>5 DEF Item
<1>8. e.due => f.due
  BY <1>1, <1>7
<1> QED
  BY <1>3, <1>6, <1>7, <1>8

-----------------------------------------------------------------------------
(* The producer *)

LEMMA Arrival ==
  ASSUME QueueInv, NEW a \in Action, Arrives(a)
  PROVE  /\ InOrder(arrived \cup {a})
         /\ arrived \cup {a} \subseteq Action
         /\ \A b \in Action \ (arrived \cup {a}) : InferredAt[a] <= InferredAt[b]
         /\ \A b \in arrived : InferredAt[b] <= InferredAt[a]
         /\ \A k \in Key :
              /\ queue[k].since <= InferredAt[a] /\ queue[k].cover <= InferredAt[a]
              /\ queue[k].pending # None => InferredAt[queue[k].pending] <= InferredAt[a]
BY Entries DEF QueueInv, Types, InOrder, InTime, Arrives

(* What an overflow drops is not the entry of the run: that one is due, and the new one
   is behind whatever is as old and due. *)
LEMMA OverflowSpares ==
  ASSUME QueueInv, NEW k \in Key, queue[k] = NoEntry, NEW e \in Item,
         \A x \in Key : queue[x].since <= e.since,
         NEW lost \in Overflow([queue EXCEPT ![k] = e], k)
  PROVE  lost \subseteq Key /\ (run.pc # "none" => run.key \notin lost)
<1> DEFINE q == [queue EXCEPT ![k] = e]
           lane == Queued(q) \cap Appraisal
           last == {x \in lane : \A y \in lane : q[y].since <= q[x].since}
           late == {x \in last : ~q[x].due}
           ends == IF late # {} THEN late ELSE IF k \in last THEN {k} ELSE last
<1>1. /\ q[k] = e /\ \A x \in Key : x # k => q[x] = queue[x]
  BY DEF QueueInv, Types, Items
<1>2. lane \subseteq Key
  BY DEF Queued
<1>3. CASE lost = {}
  BY <1>3
<1>4. CASE k \in Appraisal /\ \E d \in ends : lost = {d}
  <2>1. k \in lane
    BY <1>1, <1>4, Entries DEF Queued
  <2>2. \A y \in lane : q[y].since <= q[k].since
    <3>1. e.since \in Nat
      BY DEF Item
    <3>2. \A y \in Key : q[y].since <= q[k].since
      <4> HIDE DEF q
      <4> QED
        BY <1>1, <3>1
    <3> QED
      BY <1>2, <3>2
  <2>3. k \in last
    BY <2>1, <2>2
  <2>4. ends \subseteq Key
    BY <1>2
  <2> SUFFICES ASSUME run.pc # "none", run.key \in ends PROVE FALSE
    BY <1>4, <2>4
  <2>5. run.key # k /\ queue[run.key].due
    BY DEF QueueInv, RunHolds
  <2>6. run.key \in Key /\ q[run.key].due
    BY <1>1, <2>4, <2>5
  <2>7. run.key \notin late
    BY <2>6
  <2> QED
    BY <2>3, <2>5, <2>7
<1> QED
  BY <1>3, <1>4 DEF Overflow

LEMMA EnqueueKeeps ==
  ASSUME QueueInv, NEW a \in Action, NEW due \in BOOLEAN, Enqueue(a, due)
  PROVE  QueueInv'
<1> DEFINE k == KeyOf[a]
           e == Created(a, due)
           with == [queue EXCEPT ![k] = e]
<1>1. /\ k \in Key /\ InferredAt[a] \in Nat /\ queue[k] = NoEntry /\ Arrives(a)
      /\ arrived' = arrived \cup {a} /\ run' = run
  BY Entries DEF Enqueue
<1>2. e \in Item /\ e.action = a /\ e.pending = None /\ e.since = InferredAt[a] /\ e.cover = InferredAt[a]
  BY CreatedEntry
<1> HIDE DEF e, k
<1>3. with \in Items /\ with[k] = e /\ \A x \in Key : x # k => with[x] = queue[x]
  BY <1>1, <1>2 DEF QueueInv, Types, Items
<1>4. PICK lost \in Overflow(with, k) :
        LET left == [x \in Key |-> IF x \in lost THEN NoEntry ELSE with[x]]
        IN  /\ queue' = left
            /\ disk' = left
            /\ open' = (open \cup {a}) \ {b \in Action : KeyOf[b] \in lost}
  BY DEF Enqueue, e, k
<1>5. lost \subseteq Key /\ (run.pc # "none" => run.key \notin lost)
  <2>1. \A x \in Key : queue[x].since <= e.since
    BY <1>1, <1>2, Arrival
  <2> QED
    BY <1>1, <1>2, <1>4, <2>1, OverflowSpares
<1> HIDE DEF with
<1>6. /\ queue' \in Items /\ disk' = queue'
      /\ \A x \in Key : x \notin lost => queue'[x] = with[x]
      /\ \A x \in Key : x \in lost => queue'[x] = NoEntry
  BY <1>3, <1>4 DEF Items
<1>7. \A x \in Key : queue'[x] \in {queue[x], disk[x]} \/ InTime(queue'[x], arrived')
  <2>1. \A b \in Action \ arrived' : InferredAt[a] <= InferredAt[b] /\ InferredAt[b] \in Nat
    BY <1>1, Arrival, Entries
  <2>2. InTime(e, arrived')
    BY <1>2, <2>1 DEF InTime
  <2>3. InTime(NoEntry, arrived')
    BY <2>1, Entries DEF InTime
  <2> QED
    BY <1>3, <1>6, <2>2, <2>3
<1>8. RunHolds(run', queue')
  <2> SUFFICES ASSUME run.pc # "none" PROVE RunHolds(run', queue')
    BY <1>1 DEF RunHolds
  <2>1. RunHolds(run, queue) /\ run.key # k /\ run.key \in Key
    BY <1>1 DEF QueueInv, RunHolds
  <2>2. queue'[run.key] = queue[run.key]
    BY <1>3, <1>5, <1>6, <2>1
  <2> QED
    BY <1>1, <2>1, <2>2 DEF RunHolds
<1>9. \A b \in open' : Kept(b, queue'[KeyOf[b]], run')
  <2> SUFFICES ASSUME NEW b \in open' PROVE Kept(b, queue'[KeyOf[b]], run')
    OBVIOUS
  <2>1. b \in Action /\ KeyOf[b] \in Key /\ KeyOf[b] \notin lost /\ (b \in open \/ b = a)
    BY <1>4, Entries DEF QueueInv, Types
  <2>2. queue'[KeyOf[b]] = with[KeyOf[b]]
    BY <1>6, <2>1
  <2>3. CASE KeyOf[b] = k
    <3>1. b \notin open
      BY <1>1, <2>3, KeptIsDemand DEF QueueInv, Kept, Covers, Follows
    <3>2. b = a
      BY <2>1, <3>1
    <3>3. ~(run.pc = "executing" /\ run.key = k)
      BY <1>1 DEF QueueInv, RunHolds
    <3>4. e # NoEntry /\ InferredAt[e.action] >= InferredAt[b]
      BY <1>1, <1>2, <3>2, Entries
    <3> QED
      BY <1>1, <1>3, <2>2, <2>3, <3>3, <3>4 DEF Kept, Covers
  <2>4. CASE KeyOf[b] # k
    <3>1. b \in open
      BY <2>1, <2>4 DEF k
    <3> QED
      BY <1>1, <1>3, <2>1, <2>2, <2>4, <3>1, KeptIsDemand DEF QueueInv
  <2> QED
    BY <2>3, <2>4
<1>10. open' \subseteq arrived' /\ arrived' \subseteq Action /\ InOrder(arrived') /\ run' \in Progress
  BY <1>1, <1>4, Arrival DEF QueueInv, Types
<1> QED
  BY <1>1, <1>6, <1>7, <1>8, <1>9, <1>10, QueueStep

LEMMA CoalesceKeeps ==
  ASSUME QueueInv, NEW a \in Action, NEW due \in BOOLEAN, Coalesce(a, due)
  PROVE  QueueInv'
<1> DEFINE k == KeyOf[a]
           busy == Executes(k) \/ queue[k].pending # None
           f == Coalesced(queue[k], a, due, busy)
<1>1. /\ k \in Key /\ InferredAt[a] \in Nat /\ queue[k] # NoEntry /\ Arrives(a)
      /\ arrived' = arrived \cup {a} /\ open' = open \cup {a} /\ run' = run
      /\ queue' = [queue EXCEPT ![k] = f] /\ disk' = queue'
  BY Entries DEF Coalesce
<1>2. queue[k] \in Item
  BY <1>1 DEF QueueInv, Types, Items
<1>3. /\ queue[k].cover <= InferredAt[a]
      /\ queue[k].pending # None => InferredAt[queue[k].pending] <= InferredAt[a]
  BY <1>1, Arrival
<1>4. busy \in BOOLEAN /\ (~busy => queue[k].pending = None)
  BY DEF Executes
<1>5. ~busy => ~(run.pc = "executing" /\ run.key = k)
  BY DEF Executes
<1>6. f = Coalesced(queue[k], a, due, busy)
  OBVIOUS
<1> HIDE DEF f, busy, k
<1>7. /\ f \in Item
      /\ busy => f.action = queue[k].action /\ f.pending = a
      /\ ~busy => f.action = a /\ f.pending = None
      /\ queue[k].due => f.due
      /\ f.since <= InferredAt[a] /\ f.cover <= InferredAt[a]
  BY <1>2, <1>3, <1>4, <1>6, CoalescedEntry
<1>8. queue' \in Items /\ queue'[k] = f /\ \A x \in Key : x # k => queue'[x] = queue[x]
  BY <1>1, <1>7 DEF QueueInv, Types, Items
<1>9. InTime(f, arrived')
  <2> SUFFICES ASSUME NEW b \in Action \ arrived'
               PROVE  /\ f.since <= InferredAt[b] /\ f.cover <= InferredAt[b]
                      /\ f.pending # None => InferredAt[f.pending] <= InferredAt[b]
    BY DEF InTime
  <2>1. InferredAt[a] <= InferredAt[b] /\ InferredAt[b] \in Nat
    BY <1>1, Arrival, Entries
  <2>2. f.since \in Nat /\ f.cover \in Nat
    BY <1>7 DEF Item
  <2> QED
    BY <1>1, <1>4, <1>7, <2>1, <2>2
<1>10. RunHolds(run', queue')
  BY <1>1, <1>7, <1>8, Entries DEF QueueInv, RunHolds
<1>11. \A b \in open' : Kept(b, queue'[KeyOf[b]], run')
  <2> SUFFICES ASSUME NEW b \in open' PROVE Kept(b, queue'[KeyOf[b]], run')
    OBVIOUS
  <2>1. b \in Action /\ KeyOf[b] \in Key /\ InferredAt[b] \in Nat /\ InferredAt[b] <= InferredAt[a]
    BY <1>1, Arrival, Entries DEF QueueInv, Types
  <2>2. CASE KeyOf[b] # k
    BY <1>1, <1>8, <2>1, <2>2, KeptIsDemand DEF QueueInv, k
  <2>3. CASE KeyOf[b] = k /\ ~busy
    <3>1. Covers(f, b)
      BY <1>1, <1>7, <2>1, <2>3, Entries DEF Covers
    <3> QED
      BY <1>1, <1>5, <1>8, <2>3, <3>1 DEF Kept
  <2>4. CASE KeyOf[b] = k /\ busy
    <3>1. Follows(f, b)
      BY <1>1, <1>7, <2>1, <2>4, Entries, QueueAssumption DEF Follows
    <3> QED
      BY <1>8, <2>4, <3>1 DEF Kept
  <2> QED
    BY <1>4, <2>2, <2>3, <2>4
<1>12. open' \subseteq arrived' /\ arrived' \subseteq Action /\ InOrder(arrived') /\ run' \in Progress
  BY <1>1, Arrival DEF QueueInv, Types
<1> QED
  BY <1>1, <1>8, <1>9, <1>10, <1>11, <1>12, QueueStep

LEMMA EnqueueThrowsKeeps ==
  ASSUME QueueInv, NEW a \in Action, EnqueueThrows(a)
  PROVE  QueueInv'
<1>1. /\ Arrives(a) /\ UNCHANGED <<queue, disk, run, open>> /\ arrived' = arrived \cup {a}
  BY DEF EnqueueThrows
<1>2. /\ queue' \in Items /\ disk' \in Items /\ run' \in Progress
      /\ open' \subseteq arrived' /\ RunHolds(run', queue')
      /\ \A b \in open' : Kept(b, queue'[KeyOf[b]], run')
  BY <1>1, KeptIsDemand DEF QueueInv, Types
<1> QED
  BY <1>1, <1>2, Arrival, QueueStep

-----------------------------------------------------------------------------
(* The executor *)

(* An entry that leaves takes its demand with it; it is not the entry of a run. *)
LEMMA RemovalKeeps ==
  ASSUME QueueInv, NEW k \in Key, ~Runs(k), Saves([queue EXCEPT ![k] = NoEntry]),
         queue' = [queue EXCEPT ![k] = NoEntry], open' = open \ Demand(k),
         run' = run, arrived' = arrived
  PROVE  QueueInv'
<1> DEFINE next == [queue EXCEPT ![k] = NoEntry]
<1>1. next \in Items /\ next[k] = NoEntry /\ \A x \in Key : x # k => next[x] = queue[x]
  BY DEF QueueInv, Types, Items
<1>2. queue' = next /\ Saves(next)
  OBVIOUS
<1> HIDE DEF next
<1>3. \A x \in Key : next[x] = queue[x] \/ InTime(next[x], arrived)
  BY <1>1, Entries DEF InTime
<1>4. RunHolds(run', next)
  BY <1>1 DEF QueueInv, RunHolds, Runs
<1>5. \A a \in open' : Kept(a, next[KeyOf[a]], run')
  <2> SUFFICES ASSUME NEW a \in open' PROVE Kept(a, next[KeyOf[a]], run')
    OBVIOUS
  <2>1. a \in open /\ KeyOf[a] \in Key /\ KeyOf[a] # k
    BY Entries DEF QueueInv, Types, Demand
  <2> QED
    BY <1>1, <2>1, KeptIsDemand DEF QueueInv
<1>6. run' \in Progress
  BY DEF QueueInv, Types
<1> QED
  BY <1>1, <1>2, <1>3, <1>4, <1>5, <1>6, NothingAccepted

LEMMA CancelKeeps ==
  ASSUME QueueInv, NEW k \in Key, Cancel(k)
  PROVE  QueueInv'
BY RemovalKeeps DEF Cancel

LEMMA RefuseKeeps ==
  ASSUME QueueInv, NEW k \in Key, Refuse(k)
  PROVE  QueueInv'
BY RemovalKeeps DEF Refuse, Runs

(* The queue, the file and the demand are left alone. *)
LEMMA ProgressKeeps ==
  ASSUME QueueInv, UNCHANGED <<queue, disk, open, arrived>>, run' \in Progress,
         RunHolds(run', queue), \A a \in open : Kept(a, queue[KeyOf[a]], run')
  PROVE  QueueInv'
<1>1. queue' \in Items /\ disk' \in Items /\ open' \subseteq arrived' /\ arrived' \subseteq Action
  BY DEF QueueInv, Types
<1> QED
  BY <1>1, QueueStep DEF QueueInv

LEMMA QuietKeeps ==
  ASSUME QueueInv, UNCHANGED <<queue, disk, run, open, arrived>>
  PROVE  QueueInv'
BY ProgressKeeps, KeptIsDemand DEF QueueInv, Types

(* What a run of an entry serves. *)
LEMMA ExecutionServes ==
  ASSUME QueueInv, NEW k \in Key, NEW e \in Item
  PROVE  /\ Execution(k, e) \in Progress
         /\ Execution(k, e).pc = "executing" /\ Execution(k, e).key = k
         /\ Execution(k, e).entry = e
         /\ \A a \in Execution(k, e).serves : InferredAt[a] <= InferredAt[e.action]
         /\ \A a \in open : KeyOf[a] = k /\ InferredAt[a] <= InferredAt[e.action]
              => a \in Execution(k, e).serves
<1>1. Demand(k) \subseteq Action
  BY DEF Demand, QueueInv, Types
<1> QED
  BY <1>1 DEF Execution, Progress, Demand

LEMMA StartKeeps ==
  ASSUME QueueInv, NEW k \in Key, Start(k)
  PROVE  QueueInv'
<1> DEFINE e == [queue[k] EXCEPT !.attempt = @ + 1]
           next == [queue EXCEPT ![k] = e]
           wait == [pc |-> "waiting", key |-> k, entry |-> e, serves |-> {}]
<1>1. queue[k] \in Item /\ queue[k].due /\ run.pc = "none"
  BY DEF QueueInv, Types, Items, Start, First, Ready
<1>2. /\ e \in Item /\ e.action = queue[k].action /\ e.pending = queue[k].pending
      /\ e.since = queue[k].since /\ e.cover = queue[k].cover /\ e.due = queue[k].due
  <2>1. queue[k].attempt + 1 \in Nat
    BY <1>1 DEF Item
  <2>2. PICK i \in Item : i = queue[k]
    BY <1>1
  <2>3. PICK n \in Nat : n = i.attempt + 1
    BY <2>1, <2>2
  <2>4. e = [i EXCEPT !.attempt = n]
    BY <2>2, <2>3
  <2> HIDE DEF e
  <2> QED
    BY <2>2, <2>4 DEF Item
<1>3. /\ queue' = next /\ Saves(next) /\ open' = open /\ arrived' = arrived
      /\ run' = Execution(k, e) \/ run' = wait
  BY DEF Start, ghost
<1> HIDE DEF e
<1>4. next \in Items /\ next[k] = e /\ \A x \in Key : x # k => next[x] = queue[x]
  BY <1>2 DEF QueueInv, Types, Items
<1> HIDE DEF next
<1>5. wait \in Progress /\ wait.pc = "waiting" /\ wait.key = k /\ wait.entry = e /\ wait.serves = {}
  BY <1>2 DEF Progress
<1> HIDE DEF wait
<1>6. /\ run' \in Progress /\ run'.pc # "none" /\ run'.key = k /\ run'.entry = e
      /\ \A a \in run'.serves : InferredAt[a] <= InferredAt[e.action]
      /\ run'.pc = "executing" =>
           \A a \in open : KeyOf[a] = k /\ InferredAt[a] <= InferredAt[e.action] => a \in run'.serves
  BY <1>2, <1>3, <1>5, ExecutionServes
<1>7. RunHolds(run', next)
  BY <1>1, <1>2, <1>4, <1>6, Entries DEF RunHolds
<1>8. \A x \in Key : next[x] = queue[x] \/ InTime(next[x], arrived)
  BY <1>2, <1>4 DEF QueueInv, InTime
<1>9. \A a \in open' : Kept(a, next[KeyOf[a]], run')
  <2> SUFFICES ASSUME NEW a \in open PROVE Kept(a, next[KeyOf[a]], run')
    BY <1>3
  <2>1. KeyOf[a] \in Key /\ InferredAt[a] \in Nat /\ Kept(a, queue[KeyOf[a]], run)
    BY Entries, KeptIsDemand DEF QueueInv, Types
  <2>2. CASE KeyOf[a] # k
    BY <1>4, <1>6, <2>1, <2>2 DEF Kept
  <2>3. CASE KeyOf[a] = k /\ Follows(queue[k], a)
    BY <1>2, <1>4, <2>3, Entries DEF Kept, Follows
  <2>4. CASE KeyOf[a] = k /\ Covers(queue[k], a)
    <3>1. Covers(e, a) /\ InferredAt[e.action] \in Nat /\ InferredAt[a] <= InferredAt[e.action]
      BY <1>2, <2>1, <2>4, Entries DEF Covers
    <3>2. run'.pc = "executing" => a \in run'.serves
      BY <1>6, <2>4, <3>1
    <3> QED
      BY <1>4, <2>4, <3>1, <3>2 DEF Kept
  <2> QED
    BY <2>1, <2>2, <2>3, <2>4 DEF Kept
<1> QED
  BY <1>3, <1>4, <1>6, <1>7, <1>8, <1>9, NothingAccepted

LEMMA ForegroundIdleKeeps ==
  ASSUME QueueInv, ForegroundIdle
  PROVE  QueueInv'
<1> DEFINE k == run.key
           e == queue[k]
<1>1. k \in Key /\ e # NoEntry /\ e.due /\ run.pc = "waiting"
  BY DEF QueueInv, RunHolds, ForegroundIdle
<1>2. e \in Item
  BY <1>1 DEF QueueInv, Types, Items
<1>3. run' = Execution(k, e) /\ UNCHANGED <<queue, disk, open, arrived>>
  BY <1>1 DEF ForegroundIdle, ghost
<1>4. RunHolds(run', queue)
  BY <1>1, <1>2, <1>3, ExecutionServes DEF RunHolds
<1>5. \A a \in open : Kept(a, queue[KeyOf[a]], run')
  <2> SUFFICES ASSUME NEW a \in open PROVE Kept(a, queue[KeyOf[a]], run')
    OBVIOUS
  <2>1. InferredAt[a] \in Nat /\ Kept(a, queue[KeyOf[a]], run) /\ InferredAt[e.action] \in Nat
    BY <1>2, Entries, KeptIsDemand DEF QueueInv, Types
  <2>2. CASE Follows(queue[KeyOf[a]], a)
    BY <2>2 DEF Kept
  <2>3. CASE Covers(queue[KeyOf[a]], a)
    <3>1. KeyOf[a] = k => InferredAt[a] <= InferredAt[e.action]
      BY <2>1, <2>3 DEF Covers
    <3> QED
      BY <1>1, <1>2, <1>3, <2>3, <3>1, ExecutionServes DEF Kept
  <2> QED
    BY <2>1, <2>2, <2>3 DEF Kept
<1> QED
  BY <1>1, <1>2, <1>3, <1>4, <1>5, ProgressKeeps, ExecutionServes

(* The end of a run: the entry of its key is what is given, and the rest stays. *)
LEMMA RunEnds ==
  ASSUME QueueInv, run.pc = "executing", NEW e \in Item \cup {NoEntry}, InTime(e, arrived),
         queue' = [queue EXCEPT ![run.key] = e], Saves([queue EXCEPT ![run.key] = e]),
         run' = Idle, arrived' = arrived, open' \subseteq open,
         \A a \in open' : KeyOf[a] = run.key => Covers(e, a) \/ Follows(e, a)
  PROVE  QueueInv'
<1> DEFINE next == [queue EXCEPT ![run.key] = e]
<1>1. run.key \in Key
  BY DEF QueueInv, RunHolds
<1>2. next \in Items /\ next[run.key] = e /\ \A x \in Key : x # run.key => next[x] = queue[x]
  BY <1>1 DEF QueueInv, Types, Items
<1>3. queue' = next /\ Saves(next)
  OBVIOUS
<1> HIDE DEF next
<1>4. \A a \in open' : Kept(a, next[KeyOf[a]], run')
  <2> SUFFICES ASSUME NEW a \in open' PROVE Kept(a, next[KeyOf[a]], run')
    OBVIOUS
  <2>1. KeyOf[a] \in Key /\ Kept(a, queue[KeyOf[a]], run)
    BY Entries, KeptIsDemand DEF QueueInv, Types
  <2> QED
    BY <1>2, <2>1, Resting DEF Kept
<1> QED
  BY <1>2, <1>3, <1>4, Resting, NothingAccepted

(* Demand that the run does not serve has a successor; demand that it serves is covered
   by its action. *)
LEMMA RunCovers ==
  ASSUME QueueInv, run.pc = "executing"
  PROVE  /\ run.key \in Key /\ queue[run.key] \in Item /\ run.entry \in Item
         /\ InTime(queue[run.key], arrived)
         /\ \A a \in open : KeyOf[a] = run.key =>
              \/ a \in run.serves /\ InferredAt[a] <= InferredAt[run.entry.action]
              \/ Follows(queue[run.key], a)
<1>1. run.key \in Key /\ queue[run.key] # NoEntry /\ run.entry # NoEntry
  BY DEF QueueInv, RunHolds
<1>2. queue[run.key] \in Item /\ run.entry \in Item /\ InTime(queue[run.key], arrived)
  BY <1>1 DEF QueueInv, Types, Items, Progress
<1> QED
  BY <1>1, <1>2, KeptIsDemand DEF QueueInv, RunHolds, Kept

LEMMA OverKeeps ==
  ASSUME QueueInv, NEW due \in BOOLEAN, Over(due)
  PROVE  QueueInv'
<1> DEFINE live == queue[run.key]
           e == IF live = NoEntry \/ live.pending = None THEN NoEntry
                ELSE [live EXCEPT !.action = live.pending, !.pending = None, !.attempt = 0,
                                  !.due = due, !.since = InferredAt[live.pending]]
<1>1. /\ run.pc = "executing" /\ run' = Idle /\ arrived' = arrived /\ open' = open \ run.serves
      /\ queue' = [queue EXCEPT ![run.key] = e] /\ Saves([queue EXCEPT ![run.key] = e])
  BY DEF Over, Finishes, Advanced
<1>2. live \in Item /\ InTime(live, arrived)
  BY <1>1, RunCovers
<1>3. CASE live.pending = None
  <2>1. e = NoEntry
    BY <1>3
  <2>2. InTime(NoEntry, arrived)
    BY Entries DEF InTime
  <2>3. \A a \in open' : KeyOf[a] # run.key
    BY <1>1, <1>3, RunCovers DEF Follows
  <2> HIDE DEF e
  <2> QED
    BY <1>1, <2>1, <2>2, <2>3, RunEnds
<1>4. CASE live.pending # None
  <2>1. live.pending \in Action /\ InferredAt[live.pending] \in Nat
    BY <1>2, <1>4, Entries DEF Item
  <2>2. live # NoEntry
    BY <1>2, Entries
  <2>3. e = [live EXCEPT !.action = live.pending, !.pending = None, !.attempt = 0,
                         !.due = due, !.since = InferredAt[live.pending]]
    BY <1>4, <2>2
  <2> HIDE DEF e
  <2>4. /\ e \in Item /\ e.action = live.pending /\ e.pending = None
        /\ e.since = InferredAt[live.pending] /\ e.cover = live.cover
    BY <1>2, <2>1, <2>3 DEF Item
  <2>5. InTime(e, arrived)
    BY <1>2, <1>4, <2>4 DEF InTime
  <2>6. \A a \in open' : KeyOf[a] = run.key => Covers(e, a)
    BY <1>1, <2>4, RunCovers, Entries DEF Follows, Covers
  <2> QED
    BY <1>1, <2>4, <2>5, <2>6, RunEnds
<1> QED
  BY <1>3, <1>4

(* A checkpoint puts the action of the run back into what is live. *)
LEMMA CheckpointKeeps ==
  ASSUME QueueInv, NEW attempt \in Nat, open' = open,
         Finishes(Checkpointed([run.entry EXCEPT !.due = FALSE, !.attempt = attempt]))
  PROVE  QueueInv'
<1> DEFINE live == queue[run.key]
           e == [live EXCEPT !.action = run.entry.action, !.attempt = attempt, !.due = FALSE]
           r == [run.entry EXCEPT !.due = FALSE, !.attempt = attempt]
<1>1. run.pc = "executing" /\ run' = Idle /\ arrived' = arrived
  BY DEF Finishes
<1>2. live \in Item /\ live # NoEntry /\ InTime(live, arrived) /\ run.entry \in Item
  BY <1>1, RunCovers, Entries
<1>3. r.action = run.entry.action /\ r.attempt = attempt /\ r.due = FALSE
  BY <1>2 DEF Item
<1>4. Checkpointed(r) = [queue EXCEPT ![run.key] = e]
  <2> HIDE DEF r
  <2> QED
    BY <1>2, <1>3 DEF Checkpointed
<1>5. queue' = [queue EXCEPT ![run.key] = e] /\ Saves([queue EXCEPT ![run.key] = e])
  BY <1>4 DEF Finishes
<1>6. run.entry.action \in Action
  BY <1>2, Entries
<1>7. /\ e \in Item /\ e.action = run.entry.action /\ e.pending = live.pending
      /\ e.since = live.since /\ e.cover = live.cover
  BY <1>2, <1>6 DEF Item
<1> HIDE DEF e
<1>8. InTime(e, arrived)
  BY <1>2, <1>7 DEF InTime
<1>9. \A a \in open' : KeyOf[a] = run.key => Covers(e, a) \/ Follows(e, a)
  <2> SUFFICES ASSUME NEW a \in open, KeyOf[a] = run.key PROVE Covers(e, a) \/ Follows(e, a)
    OBVIOUS
  <2>1. InferredAt[a] \in Nat /\ InferredAt[run.entry.action] \in Nat /\ e # NoEntry
    BY <1>6, <1>7, Entries DEF QueueInv, Types
  <2>2. CASE InferredAt[a] <= InferredAt[run.entry.action]
    BY <1>7, <2>1, <2>2 DEF Covers
  <2>3. CASE Follows(live, a)
    BY <1>7, <2>1, <2>3 DEF Follows
  <2> QED
    BY <1>1, <2>2, <2>3, RunCovers
<1> QED
  BY <1>1, <1>5, <1>7, <1>8, <1>9, RunEnds

LEMMA RetryKeeps ==
  ASSUME QueueInv, Retry
  PROVE  QueueInv'
<1>1. run.entry \in Item
  BY RunCovers DEF Retry
<1>2. PICK n \in Nat : n = run.entry.attempt
  BY <1>1 DEF Item
<1>3. [run.entry EXCEPT !.due = FALSE] = [run.entry EXCEPT !.due = FALSE, !.attempt = n]
  BY <1>1, <1>2 DEF Item
<1> QED
  BY <1>3, CheckpointKeeps DEF Retry

LEMMA DeferKeeps ==
  ASSUME QueueInv, Defer
  PROVE  QueueInv'
<1>1. run.entry \in Item
  BY RunCovers DEF Defer
<1>2. run.entry.attempt \in Nat
  BY <1>1 DEF Item
<1>3. PICK n \in Nat : n = IF run.entry.attempt > 0 THEN run.entry.attempt - 1 ELSE 0
  BY <1>2
<1>4. Finishes(Checkpointed([run.entry EXCEPT !.due = FALSE, !.attempt = n]))
  BY <1>1, <1>3 DEF Defer
<1> QED
  BY <1>4, CheckpointKeeps DEF Defer

LEMMA ElapseKeeps ==
  ASSUME QueueInv, NEW k \in Key, Elapse(k)
  PROVE  QueueInv'
<1> DEFINE e == [queue[k] EXCEPT !.due = TRUE]
<1>1. queue[k] \in Item /\ queue' = [queue EXCEPT ![k] = e]
      /\ UNCHANGED <<disk, run, open, arrived>>
  BY DEF Elapse, ghost, QueueInv, Types, Items
<1>2. /\ e \in Item /\ e.action = queue[k].action /\ e.pending = queue[k].pending /\ e.due
      /\ e.since = queue[k].since /\ e.cover = queue[k].cover
  BY <1>1 DEF Item
<1> HIDE DEF e
<1>3. queue' \in Items /\ queue'[k] = e /\ \A x \in Key : x # k => queue'[x] = queue[x]
  BY <1>1, <1>2 DEF QueueInv, Types, Items
<1>4. \A x \in Key : queue'[x] = queue[x] \/ InTime(queue'[x], arrived')
  BY <1>1, <1>2, <1>3 DEF QueueInv, InTime
<1>5. RunHolds(run', queue')
  BY <1>1, <1>2, <1>3, Entries DEF QueueInv, RunHolds
<1>6. \A a \in open' : Kept(a, queue'[KeyOf[a]], run')
  <2> SUFFICES ASSUME NEW a \in open PROVE Kept(a, queue'[KeyOf[a]], run)
    BY <1>1
  <2>1. KeyOf[a] \in Key /\ Kept(a, queue[KeyOf[a]], run)
    BY Entries, KeptIsDemand DEF QueueInv, Types
  <2>2. e # NoEntry
    BY <1>2, Entries
  <2> QED
    BY <1>2, <1>3, <2>1, <2>2 DEF Kept, Covers, Follows
<1>7. disk' \in Items /\ run' \in Progress /\ open' \subseteq arrived' /\ arrived' \subseteq Action
  BY <1>1 DEF QueueInv, Types
<1> QED
  BY <1>1, <1>3, <1>4, <1>5, <1>6, <1>7, QueueStep DEF QueueInv

-----------------------------------------------------------------------------
(* The start after a crash *)

(* What is read back covers the demand that is still open, because the file did. *)
LEMMA RestartKeeps ==
  ASSUME QueueInv, Restart
  PROVE  QueueInv'
<1> DEFINE bad == {k \in Queued(disk) : ~Readable(disk[k])}
           good == [k \in Key |-> IF k \in bad THEN NoEntry ELSE disk[k]]
<1>1. /\ queue' = good /\ open' = open \ {a \in Action : KeyOf[a] \in bad}
      /\ disk' = disk \/ disk' = good
      /\ run' = Idle /\ arrived' = arrived
  BY DEF Restart
<1> HIDE DEF bad
<1>2. /\ good \in Items /\ \A k \in Key : k \notin bad => good[k] = disk[k]
      /\ \A k \in Key : k \in bad => good[k] = NoEntry
  BY DEF QueueInv, Types, Items
<1> HIDE DEF good
<1>3. InTime(NoEntry, arrived')
  BY Entries DEF InTime
<1>4. \A a \in open' : a \in open /\ KeyOf[a] \in Key /\ KeyOf[a] \notin bad
  BY <1>1, Entries DEF QueueInv, Types
<1>5. \A a \in open' : Kept(a, queue'[KeyOf[a]], run')
  BY <1>1, <1>2, <1>4, Resting DEF QueueInv, DurableDemand, Kept
<1>6. disk' \in Items /\ open' \subseteq arrived' /\ arrived' \subseteq Action
  BY <1>1, <1>2 DEF QueueInv, Types
<1>7. /\ \A k \in Key : queue'[k] \in {queue[k], disk[k]} \/ InTime(queue'[k], arrived')
      /\ \A k \in Key : disk'[k] \in {disk[k], queue'[k]}
      /\ disk' = queue' \/ \A a \in open' : a \in open /\ disk'[KeyOf[a]] = disk[KeyOf[a]]
  BY <1>1, <1>2, <1>3, <1>4
<1> QED
  BY <1>1, <1>2, <1>5, <1>6, <1>7, Resting, QueueStep DEF QueueInv

LEMMA RestartUnreadKeeps ==
  ASSUME QueueInv, RestartUnread
  PROVE  QueueInv'
<1>1. /\ queue' = Empty /\ run' = Idle /\ open' = {} /\ UNCHANGED <<disk, arrived>>
  BY DEF RestartUnread
<1>2. Empty \in Items /\ \A k \in Key : Empty[k] = NoEntry
  BY DEF Empty, Items
<1>3. InTime(NoEntry, arrived')
  BY Entries DEF InTime
<1>4. disk' \in Items /\ open' \subseteq arrived' /\ arrived' \subseteq Action
  BY <1>1 DEF QueueInv, Types
<1> QED
  BY <1>1, <1>2, <1>3, <1>4, Resting, QueueStep DEF QueueInv

-----------------------------------------------------------------------------
LEMMA QueueInvariant == Spec => []QueueInv
<1>1. ASSUME QueueInv, [Next]_vars PROVE QueueInv'
  <2>1. CASE Producer
    BY <1>1, <2>1, EnqueueKeeps, CoalesceKeeps, EnqueueThrowsKeeps DEF Producer
  <2>2. CASE Tick \/ TickEnds \/ UNCHANGED vars
    BY <1>1, <2>2, QuietKeeps DEF Tick, TickEnds, vars, ghost
  <2>3. CASE ForegroundIdle \/ Retry \/ Defer \/ \E due \in BOOLEAN : Over(due)
    BY <1>1, <2>3, ForegroundIdleKeeps, RetryKeeps, DeferKeeps, OverKeeps
  <2>4. CASE \E k \in Key : Refuse(k) \/ Start(k) \/ Cancel(k) \/ Elapse(k)
    BY <1>1, <2>4, RefuseKeeps, StartKeeps, CancelKeeps, ElapseKeeps
  <2>5. CASE Restart \/ RestartUnread
    BY <1>1, <2>5, RestartKeeps, RestartUnreadKeeps
  <2> QED
    BY <1>1, <2>1, <2>2, <2>3, <2>4, <2>5 DEF Next, Executor
<1> QED
  BY <1>1, QueueInit, PTL DEF Spec

(* Accepted demand is served by what the queue holds: by an action that has yet to begin
   or began after the demand had arrived, or by its successor, whatever overflows, is
   folded in, deferred, retried or read back meanwhile (coalesceQueueAction,
   persistRunningCheckpoint, advancePastFinishedAction, queueAction). *)
THEOREM DemandIsKept == Spec => []DemandKept
BY QueueInvariant, PTL DEF QueueInv

(* The same demand is in the file, whichever writes have failed since it was accepted
   (queueAction, persistQueueEntries, hydrateQueue). *)
THEOREM DemandIsDurable == Spec => []DurableDemand
BY QueueInvariant, PTL DEF QueueInv
=============================================================================
