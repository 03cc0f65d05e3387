-------------------------- MODULE MemoryDeletionProofs --------------------------
(* Deleting a memory with consent, for any number of proposals, confirmations,   *)
(* operators and decisions, and any crashes, restarts and lost calls: what the   *)
(* gateway tells is durable, and what is durable was decided by the operator on  *)
(* record.                                                                       *)
EXTENDS MemoryDeletion, WellFoundedInduction, TLAPS

Durable == {"approved", "restored"}

Handling ==
  [p : Proposal \cup {0}, at : {"idle", "snapshot", "known", "emit", "alert"},
   read : Statuses, e : Entry \cup {0}]

Confirmation == [p : Proposal \cup {0}, failed : Choice \cup {"none"}, live : BOOLEAN]

Decision ==
  [e : Entry \cup {0}, d : Choice \cup {"none"}, o : Operator \cup {None},
   at : {"idle", "sent", "ok", "error"}, live : BOOLEAN]

Types ==
  /\ status \in [Proposal -> Statuses]
  /\ by \in [Proposal -> Operator \cup {None}]
  /\ todo \subseteq Proposal
  /\ ask \in Handling
  /\ entry \in [Entry -> Confirmation]
  /\ pending \subseteq Entry
  /\ history \subseteq Proposal \X {"approved", "denied"}
  /\ call \in [Request -> Decision]
  /\ asked \subseteq Proposal \X Operator \X Choice

(* What the gateway handles was proposed, and what it has read of a decided proposal
   is still so: a decision is not taken back. *)
AskFits(a, st) ==
  a.at # "idle" =>
    /\ a.p \in Proposal /\ st[a.p] # "none"
    /\ a.at = "known" => /\ a.read # "none"
                         /\ a.read = "denied" => st[a.p] = "denied"
                         /\ a.read \in Durable => st[a.p] \in Durable

(* A decision under way is one an operator has made, about the proposal of its
   confirmation, and an answer the agent has given is durable. *)
CallFits(k, confirmations, st, made) ==
  k.at # "idle" =>
    /\ k.e \in Entry /\ confirmations[k.e].p \in Proposal
    /\ k.d \in Choice /\ k.o \in Operator
    /\ <<confirmations[k.e].p, k.o, k.d>> \in made
    /\ k.at = "ok" => /\ k.d = "approve" => st[confirmations[k.e].p] \in Durable
                      /\ k.d = "deny" => st[confirmations[k.e].p] = "denied"

UnderWay ==
  /\ AskFits(ask, status)
  /\ \A c \in Request : CallFits(call[c], entry, status, asked)
  /\ \A p \in todo : status[p] # "none"
  /\ \A e \in pending : entry[e].p \in Proposal

DeletionInv == Types /\ UnderWay /\ HistoryIsTrue /\ DecidedByOperator

-----------------------------------------------------------------------------
(* The least element of a set of numbers is one of them. *)
LEMMA MinOf ==
  ASSUME NEW S, S \subseteq Nat, S # {}
  PROVE  Min(S) \in S
<1> DEFINE R == {ss \in Nat \X Nat : ss[1] < ss[2]}
<1>1. IsWellFoundedOn(R, Nat)
  BY NatLessThanWellFounded DEF OpToRel
<1>2. \A x, y \in Nat : <<y, x>> \notin R => x <= y
  <2> SUFFICES ASSUME NEW x \in Nat, NEW y \in Nat, ~(x <= y) PROVE <<y, x>> \in R
    OBVIOUS
  <2>1. y < x
    OBVIOUS
  <2> QED
    BY <2>1
<1> HIDE DEF R
<1>3. PICK x \in S : \A y \in S : ~(<<y, x>> \in R)
  BY <1>1, WFMin
<1>4. \A y \in S : x <= y
  BY <1>2, <1>3
<1> QED
  BY <1>4 DEF Min

LEMMA DeletionInit == Init => DeletionInv
<1> SUFFICES ASSUME Init PROVE DeletionInv
  OBVIOUS
<1>1. Types
  BY DEF Init, Types, Handling, Confirmation, Decision, Statuses, Nothing, Blank, Free
<1>2. UnderWay
  BY DEF Init, UnderWay, AskFits, CallFits, Nothing, Free
<1>3. HistoryIsTrue /\ DecidedByOperator
  BY DEF Init, HistoryIsTrue, DecidedByOperator
<1> QED
  BY <1>1, <1>2, <1>3 DEF DeletionInv

(* What a step has to show of the parts it touches. *)
LEMMA DeletionStep ==
  ASSUME DeletionInv, Types',
         \A p \in Proposal : /\ status[p] = "denied" => status'[p] = "denied"
                             /\ status[p] \in Durable => status'[p] \in Durable
                             /\ status[p] # "none" => status'[p] # "none",
         ask' = ask \/ AskFits(ask', status'),
         \A c \in Request :
           \/ call'[c].at = "idle"
           \/ /\ call'[c].at = call[c].at /\ call'[c].e = call[c].e
              /\ call'[c].d = call[c].d /\ call'[c].o = call[c].o
           \/ CallFits(call'[c], entry', status', asked'),
         \A e \in Entry : entry[e].p \in Proposal => entry'[e].p = entry[e].p,
         \A e \in pending' : e \in pending \/ entry'[e].p \in Proposal,
         \A p \in todo' : p \in todo \/ status'[p] # "none",
         asked \subseteq asked',
         \A h \in history' :
           \/ h \in history
           \/ IF h[2] = "denied" THEN status'[h[1]] = "denied" ELSE status'[h[1]] \in Durable,
         \A p \in Proposal :
           /\ \/ status'[p] \in Durable => status[p] \in Durable /\ by'[p] = by[p]
              \/ <<p, by'[p], "approve">> \in asked'
           /\ \/ status'[p] = "denied" => status[p] = "denied" /\ by'[p] = by[p]
              \/ \E d \in {"deny", "modify"} : <<p, by'[p], d>> \in asked'
  PROVE  DeletionInv'
<1>1. AskFits(ask', status')
  BY DEF DeletionInv, UnderWay, AskFits
<1>2. \A c \in Request : CallFits(call'[c], entry', status', asked')
  <2> SUFFICES ASSUME NEW c \in Request,
                      call'[c].at = call[c].at, call'[c].e = call[c].e,
                      call'[c].d = call[c].d, call'[c].o = call[c].o
               PROVE  CallFits(call'[c], entry', status', asked')
    BY DEF CallFits
  <2>1. CallFits(call[c], entry, status, asked)
    BY DEF DeletionInv, UnderWay
  <2> QED
    BY <2>1 DEF CallFits
<1>3. UnderWay'
  <2>1. \A p \in todo' : status'[p] # "none"
    BY DEF DeletionInv, UnderWay, Types
  <2>2. \A e \in pending' : entry'[e].p \in Proposal
    BY DEF DeletionInv, UnderWay, Types
  <2> QED
    BY <1>1, <1>2, <2>1, <2>2 DEF UnderWay
<1>4. HistoryIsTrue'
  <2> SUFFICES ASSUME NEW h \in history'
               PROVE  IF h[2] = "denied" THEN status'[h[1]] = "denied" ELSE status'[h[1]] \in Durable
    BY DEF HistoryIsTrue, Durable
  <2>1. h[1] \in Proposal
    BY DEF Types
  <2>2. h \in history =>
          IF h[2] = "denied" THEN status[h[1]] = "denied" ELSE status[h[1]] \in Durable
    BY DEF DeletionInv, HistoryIsTrue, Durable
  <2> QED
    BY <2>1, <2>2
<1>5. \A p \in Proposal :
        /\ status'[p] \in Durable => <<p, by'[p], "approve">> \in asked'
        /\ status'[p] = "denied" => \E d \in {"deny", "modify"} : <<p, by'[p], d>> \in asked'
  BY DEF DeletionInv, DecidedByOperator, Durable
<1>6. \A p, o, d : <<p, o, d>> \in asked' => o \in Operator
  BY DEF Types
<1>7. DecidedByOperator'
  BY <1>5, <1>6 DEF DecidedByOperator, Durable
<1> QED
  BY <1>3, <1>4, <1>7 DEF DeletionInv

-----------------------------------------------------------------------------
(* A step that decides nothing: proposals are created, alerted and restored, and the
   gateway keeps its books. *)
LEMMA NothingDecided ==
  ASSUME DeletionInv,
         status' \in [Proposal -> Statuses], by' = by,
         \A p \in Proposal :
           \/ status'[p] = status[p]
           \/ status[p] \in {"none", "alert"} /\ status'[p] \in Undecided
           \/ status[p] = "approved" /\ status'[p] = "restored",
         ask' \in Handling, ask' = ask \/ AskFits(ask', status'),
         todo' \subseteq Proposal, \A p \in todo' : p \in todo \/ status'[p] # "none",
         entry' \in [Entry -> Confirmation],
         \A e \in Entry : entry[e].p \in Proposal => entry'[e].p = entry[e].p,
         pending' \subseteq Entry,
         \A e \in pending' : e \in pending \/ entry'[e].p \in Proposal,
         history' \subseteq Proposal \X {"approved", "denied"},
         \A h \in history' :
           \/ h \in history
           \/ IF h[2] = "denied" THEN status'[h[1]] = "denied" ELSE status'[h[1]] \in Durable,
         call' \in [Request -> Decision],
         \A c \in Request :
           \/ call'[c].at = "idle"
           \/ /\ call'[c].at = call[c].at /\ call'[c].e = call[c].e
              /\ call'[c].d = call[c].d /\ call'[c].o = call[c].o
           \/ CallFits(call'[c], entry', status', asked'),
         asked \subseteq asked', asked' \subseteq Proposal \X Operator \X Choice
  PROVE  DeletionInv'
<1>1. Types'
  BY DEF DeletionInv, Types
<1>2. \A p \in Proposal : /\ status[p] = "denied" => status'[p] = "denied"
                          /\ status[p] \in Durable => status'[p] \in Durable
                          /\ status[p] # "none" => status'[p] # "none"
  BY DEF Durable, Undecided
<1>3. \A p \in Proposal :
        /\ \/ status'[p] \in Durable => status[p] \in Durable /\ by'[p] = by[p]
           \/ <<p, by'[p], "approve">> \in asked'
        /\ \/ status'[p] = "denied" => status[p] = "denied" /\ by'[p] = by[p]
           \/ \E d \in {"deny", "modify"} : <<p, by'[p], d>> \in asked'
  BY DEF Durable, Undecided
<1> QED
  BY <1>1, <1>2, <1>3, DeletionStep

(* Whoever loses its agent keeps everything else. *)
LEMMA UnlinkedKeeps ==
  ASSUME Types
  PROVE  /\ Unlinked \in [Entry -> Confirmation]
         /\ \A e \in Entry : Unlinked[e].p = entry[e].p
BY DEF Types, Unlinked, Confirmation

LEMMA CutKeeps ==
  ASSUME Types
  PROVE  /\ Cut \in [Request -> Decision]
         /\ \A c \in Request : /\ Cut[c].at = call[c].at /\ Cut[c].e = call[c].e
                               /\ Cut[c].d = call[c].d /\ Cut[c].o = call[c].o
BY DEF Types, Cut, Decision

LEMMA Idle ==
  /\ Nothing \in Handling
  /\ \A st : AskFits(Nothing, st)
BY DEF Nothing, Handling, Statuses, AskFits

(* What a failure changes. *)
LEMMA FailsKeeps ==
  ASSUME Types, Fails(entry)
  PROVE  /\ ask' = Nothing
         /\ todo' \subseteq todo
         /\ entry' \in [Entry -> Confirmation]
         /\ \A e \in Entry : entry'[e].p = entry[e].p
         /\ call' \in [Request -> Decision]
         /\ \A c \in Request : /\ call'[c].at = call[c].at /\ call'[c].e = call[c].e
                               /\ call'[c].d = call[c].d /\ call'[c].o = call[c].o
<1>1. CASE entry' = entry /\ UNCHANGED <<agent, todo, call>>
  BY <1>1 DEF Fails, Types
<1>2. CASE todo' = {} /\ entry' = Unlinked /\ call' = Cut
  BY <1>2, UnlinkedKeeps, CutKeeps DEF Fails
<1> QED
  BY <1>1, <1>2 DEF Fails, Unlinked

-----------------------------------------------------------------------------
(* The agent *)

LEMMA ProposeKeeps ==
  ASSUME DeletionInv, NEW p \in Proposal, Propose(p)
  PROVE  DeletionInv'
<1>1. Types
  BY DEF DeletionInv
<1>2. /\ status' \in [Proposal -> Statuses] /\ status'[p] # "none"
      /\ \A q \in Proposal : \/ status'[q] = status[q]
                             \/ status[q] \in {"none", "alert"} /\ status'[q] \in Undecided
  BY <1>1 DEF Propose, Create, Pending, Types, Statuses, Undecided
<1>3. ask' \in Handling /\ AskFits(ask', status')
  BY <1>2 DEF Propose, Nothing, Handling, AskFits, Statuses
<1> QED
  BY <1>1, <1>2, <1>3, NothingDecided DEF Propose, Types, DeletionInv, UnderWay

LEMMA RestoreKeeps ==
  ASSUME DeletionInv, NEW p \in Proposal, Restore(p)
  PROVE  DeletionInv'
<1>1. Types
  BY DEF DeletionInv
<1>2. /\ status' \in [Proposal -> Statuses]
      /\ \A q \in Proposal : \/ status'[q] = status[q]
                             \/ status[q] = "approved" /\ status'[q] = "restored"
  BY <1>1 DEF Restore, Types, Statuses
<1> QED
  BY <1>1, <1>2, NothingDecided DEF Restore, Types, bounds

LEMMA TouchKeeps ==
  ASSUME DeletionInv, Touch
  PROVE  DeletionInv'
BY NothingDecided DEF Touch, DeletionInv, Types, bounds

LEMMA StartKeeps ==
  ASSUME DeletionInv, Start
  PROVE  DeletionInv'
<1>1. Types
  BY DEF DeletionInv
<1>2. todo' \subseteq Proposal /\ \A p \in todo' : status'[p] # "none"
  BY DEF Start, store, Recoverable, Undecided
<1> QED
  BY <1>1, <1>2, NothingDecided DEF Start, Types, bounds, store

LEMMA RecoverKeeps ==
  ASSUME DeletionInv, Recover
  PROVE  DeletionInv'
<1>1. Types
  BY DEF DeletionInv
<1>2. ask' \in Handling /\ (ask' = ask \/ AskFits(ask', status'))
  <2>1. CASE todo = {}
    BY <1>1, <2>1 DEF Recover, Types
  <2>2. CASE todo # {} /\ ask' = [Nothing EXCEPT !.p = Min(todo), !.at = "snapshot"]
    <3>1. Min(todo) \in todo
      BY <1>1, <2>2, MinOf, NumberAssumption DEF Types
    <3>2. Min(todo) \in Proposal /\ status[Min(todo)] # "none"
      BY <1>1, <3>1 DEF Types, DeletionInv, UnderWay
    <3> DEFINE q == Min(todo)
    <3> HIDE DEF q
    <3>3. q \in Proposal /\ status'[q] # "none" /\ ask' = [p |-> q, at |-> "snapshot", read |-> "none", e |-> 0]
      BY <2>2, <3>2 DEF q, Recover, store, Nothing
    <3> QED
      BY <3>3 DEF Handling, AskFits, Statuses
  <2> QED
    BY <2>1, <2>2 DEF Recover
<1> QED
  BY <1>1, <1>2, NothingDecided DEF Recover, Types, bounds, store

LEMMA CrashKeeps ==
  ASSUME DeletionInv, Crash
  PROVE  DeletionInv'
<1>1. Types
  BY DEF DeletionInv
<1> QED
  BY <1>1, Idle, UnlinkedKeeps, CutKeeps, NothingDecided DEF Crash, Types, store

LEMMA GatewayRestartKeeps ==
  ASSUME DeletionInv, GatewayRestart
  PROVE  DeletionInv'
<1>1. Types
  BY DEF DeletionInv
<1>2. call' \in [Request -> Decision] /\ \A c \in Request : call'[c].at = "idle"
  BY DEF GatewayRestart, Free, Decision
<1> QED
  BY <1>1, <1>2, Idle, UnlinkedKeeps, NothingDecided DEF GatewayRestart, Types, store

-----------------------------------------------------------------------------
(* The gateway and a proposal *)

(* A failure that leaves the database alone or alerts a partner, and may withdraw
   confirmations. *)
LEMMA FailureKeeps ==
  ASSUME DeletionInv, Fails(entry),
         status' \in [Proposal -> Statuses], by' = by,
         \A p \in Proposal :
           status'[p] = status[p] \/ (status[p] = "alert" /\ status'[p] = "validate"),
         pending' \subseteq pending, history' = history, asked' = asked
  PROVE  DeletionInv'
<1>1. Types
  BY DEF DeletionInv
<1>2. /\ todo' \subseteq Proposal /\ \A p \in todo' : p \in todo
      /\ pending' \subseteq Entry /\ history' \subseteq Proposal \X {"approved", "denied"}
  BY <1>1, FailsKeeps DEF Types
<1>3. \A p \in Proposal :
        \/ status'[p] = status[p]
        \/ status[p] \in {"none", "alert"} /\ status'[p] \in Undecided
        \/ status[p] = "approved" /\ status'[p] = "restored"
  BY DEF Undecided
<1> QED
  BY <1>1, <1>2, <1>3, FailsKeeps, Idle, NothingDecided DEF Types

LEMMA SnapshotKeeps ==
  ASSUME DeletionInv, Snapshot
  PROVE  DeletionInv'
<1>1. Types
  BY DEF DeletionInv
<1>2. CASE Fails(entry)
  BY <1>1, <1>2, FailureKeeps DEF Snapshot, store, Types
<1>3. CASE ask' = [ask EXCEPT !.at = "known", !.read = status[ask.p]]
           /\ UNCHANGED <<agent, todo, call, entry>>
  <2>1. ask.p \in Proposal /\ status[ask.p] # "none" /\ status[ask.p] \in Statuses
    BY <1>1 DEF DeletionInv, UnderWay, AskFits, Snapshot, Types
  <2>2. ask' \in Handling /\ ask'.p = ask.p /\ ask'.at = "known" /\ ask'.read = status[ask.p]
    BY <1>1, <1>3, <2>1 DEF Types, Handling
  <2>3. AskFits(ask', status')
    BY <2>1, <2>2 DEF AskFits, Snapshot, store
  <2> QED
    BY <1>1, <1>3, <2>2, <2>3, NothingDecided DEF Snapshot, store, Types
<1> QED
  BY <1>2, <1>3 DEF Snapshot

LEMMA SurfacedKeeps ==
  ASSUME DeletionInv, ask.at = "known", Surfaced, UNCHANGED <<store, asked, bounds>>
  PROVE  DeletionInv'
<1>1. Types
  BY DEF DeletionInv
<1>2. /\ ask.p \in Proposal /\ status[ask.p] # "none"
      /\ UNCHANGED <<status, by, asked>>
  BY DEF DeletionInv, UnderWay, AskFits, store
<1>3. CASE /\ Existing # {}
           /\ entry' = [entry EXCEPT ![Min(Existing)].live = TRUE]
           /\ ask' = [ask EXCEPT !.at = "alert"]
           /\ UNCHANGED <<agent, todo, call, pending, history, refused>>
  <2>1. ask' \in Handling /\ AskFits(ask', status')
    BY <1>1, <1>2, <1>3 DEF Types, Handling, AskFits
  <2> DEFINE e == Min(Existing)
  <2> HIDE DEF e
  <2>2. entry' = [entry EXCEPT ![e].live = TRUE]
    BY <1>3 DEF e
  <2>3. entry' \in [Entry -> Confirmation] /\ \A x \in Entry : entry'[x].p = entry[x].p
    BY <1>1, <2>2 DEF Types, Confirmation
  <2> QED
    BY <1>1, <1>2, <1>3, <2>1, <2>3, NothingDecided DEF Types
<1>4. CASE /\ Unused # {}
           /\ entry' = [entry EXCEPT ![Min(Unused)] = [p |-> ask.p, failed |-> "none", live |-> TRUE]]
           /\ pending' = pending \cup {Min(Unused)}
           /\ ask' = [ask EXCEPT !.at = "emit", !.e = Min(Unused)]
           /\ UNCHANGED <<agent, todo, call, history, refused>>
  <2>1. Min(Unused) \in Unused
    BY <1>4, MinOf, NumberAssumption DEF Unused
  <2>2. PICK e \in Entry : e = Min(Unused) /\ entry[e] = Blank
    BY <2>1 DEF Unused
  <2>3. entry[e].p \notin Proposal
    BY <2>2, NumberAssumption DEF Blank
  <2>4. /\ entry' = [entry EXCEPT ![e] = [p |-> ask.p, failed |-> "none", live |-> TRUE]]
        /\ pending' = pending \cup {e}
        /\ ask' = [ask EXCEPT !.at = "emit", !.e = e]
    BY <1>4, <2>2
  <2>5. ask' \in Handling /\ AskFits(ask', status')
    BY <1>1, <1>2, <2>4 DEF Types, Handling, AskFits
  <2>6. /\ entry' \in [Entry -> Confirmation] /\ entry'[e].p \in Proposal
        /\ \A x \in Entry : entry[x].p \in Proposal => entry'[x].p = entry[x].p
    BY <1>1, <1>2, <2>3, <2>4 DEF Types, Confirmation
  <2>7. /\ pending' \subseteq Entry
        /\ \A x \in pending' : x \in pending \/ entry'[x].p \in Proposal
    BY <1>1, <2>4, <2>6 DEF Types
  <2> QED
    BY <1>1, <1>2, <1>4, <2>5, <2>6, <2>7, NothingDecided DEF Types
<1> QED
  BY <1>3, <1>4 DEF Surfaced

(* What the gateway has read of a decided proposal is how the proposal stands. *)
LEMMA SettledKeeps ==
  ASSUME DeletionInv, ask.at = "known", ask.read \notin Undecided, Settled,
         UNCHANGED <<store, asked, bounds>>
  PROVE  DeletionInv'
<1>1. Types
  BY DEF DeletionInv
<1>2. /\ ask.p \in Proposal
      /\ UNCHANGED <<status, by, asked>>
  BY DEF DeletionInv, UnderWay, AskFits, store
<1> DEFINE final == IF ask.read = "denied" THEN "denied" ELSE "approved"
<1>3. IF final = "denied" THEN status[ask.p] = "denied" ELSE status[ask.p] \in Durable
  <2>1. ask.read \in {"denied", "approved", "restored"}
    BY <1>1 DEF DeletionInv, UnderWay, AskFits, Types, Handling, Statuses, Undecided
  <2> QED
    BY <2>1 DEF DeletionInv, UnderWay, AskFits, Durable
<1>4. final \in {"approved", "denied"}
  OBVIOUS
<1> HIDE DEF final
<1>5. CASE Fails(entry) /\ UNCHANGED <<pending, history>>
  BY <1>1, <1>2, <1>5, FailureKeeps DEF Types
<1>6. CASE Done /\ entry' = entry /\ pending' \subseteq pending
           /\ history' \subseteq history \cup {<<ask.p, final>>}
  <2>1. /\ ask' = Nothing /\ call' = call /\ todo' \subseteq todo
        /\ pending' \subseteq Entry
    BY <1>1, <1>6 DEF Done, Types
  <2>2. history' \subseteq Proposal \X {"approved", "denied"}
    BY <1>1, <1>2, <1>4, <1>6 DEF Types
  <2>3. \A h \in history' :
          \/ h \in history
          \/ IF h[2] = "denied" THEN status'[h[1]] = "denied" ELSE status'[h[1]] \in Durable
    BY <1>2, <1>3, <1>6
  <2> QED
    BY <1>1, <1>2, <1>6, <2>1, <2>2, <2>3, Idle, NothingDecided DEF Types
<1> QED
  BY <1>5, <1>6 DEF Settled, final

LEMMA KnownKeeps ==
  ASSUME DeletionInv, Known
  PROVE  DeletionInv'
BY SurfacedKeeps, SettledKeeps DEF Known

LEMMA EmitKeeps ==
  ASSUME DeletionInv, Emit
  PROVE  DeletionInv'
<1>1. Types
  BY DEF DeletionInv
<1>2. CASE Fails(entry) /\ pending' = pending \ {ask.e}
  BY <1>1, <1>2, FailureKeeps DEF Emit, store, Types
<1>3. CASE ask' = [ask EXCEPT !.at = "alert"] /\ UNCHANGED <<agent, todo, call, entry, pending>>
  <2>1. ask' \in Handling /\ AskFits(ask', status')
    BY <1>1, <1>3 DEF Types, Handling, AskFits, Emit, store, DeletionInv, UnderWay
  <2> QED
    BY <1>1, <1>3, <2>1, NothingDecided DEF Emit, store, Types
<1> QED
  BY <1>2, <1>3 DEF Emit

LEMMA AlertKeeps ==
  ASSUME DeletionInv, Alert
  PROVE  DeletionInv'
<1>1. Types
  BY DEF DeletionInv
<1>2. /\ status' \in [Proposal -> Statuses]
      /\ \A p \in Proposal :
           status'[p] = status[p] \/ (status[p] = "alert" /\ status'[p] = "validate")
  BY <1>1 DEF Alert, Types, Statuses
<1>3. CASE Fails(entry)
  BY <1>2, <1>3, FailureKeeps DEF Alert
<1>4. CASE Done /\ entry' = entry
  <2>1. /\ ask' = Nothing /\ call' = call /\ todo' \subseteq todo /\ todo' \subseteq Proposal
    BY <1>1, <1>4 DEF Done, Types
  <2>2. \A p \in Proposal :
          \/ status'[p] = status[p]
          \/ status[p] \in {"none", "alert"} /\ status'[p] \in Undecided
          \/ status[p] = "approved" /\ status'[p] = "restored"
    BY <1>2 DEF Undecided
  <2> QED
    BY <1>1, <1>2, <1>4, <2>1, <2>2, Idle, NothingDecided DEF Alert, Types
<1> QED
  BY <1>3, <1>4 DEF Alert

-----------------------------------------------------------------------------
(* The gateway and a decision *)

LEMMA DecideKeeps ==
  ASSUME DeletionInv, NEW c \in Request, NEW e \in Entry, NEW o \in Resolver, NEW d \in Choice,
         Decide(c, e, o, d)
  PROVE  DeletionInv'
<1>1. Types
  BY DEF DeletionInv
<1>2. entry[e].p \in Proposal /\ entry[e].live \in BOOLEAN
  BY <1>1 DEF Decide, DeletionInv, UnderWay, Types, Confirmation
<1> DEFINE k == [e |-> e, d |-> d, o |-> o, at |-> "sent", live |-> entry[e].live]
<1>3. k \in Decision /\ CallFits(k, entry, status, asked')
  BY <1>2 DEF Decision, CallFits, Decide
<1>4. call' = [call EXCEPT ![c] = k]
  BY DEF Decide
<1> HIDE DEF k
<1>5. /\ call' \in [Request -> Decision]
      /\ \A x \in Request : call'[x] = call[x] \/ call'[x] = k
  BY <1>1, <1>3, <1>4 DEF Types
<1>6. /\ pending' \subseteq pending /\ asked \subseteq asked'
      /\ UNCHANGED <<status, by, todo, ask, entry, history>>
  BY DEF Decide, store
<1>7. asked' \subseteq Proposal \X Operator \X Choice
  BY <1>1, <1>2 DEF Decide, Types
<1>8. \A x \in Request :
        \/ /\ call'[x].at = call[x].at /\ call'[x].e = call[x].e
           /\ call'[x].d = call[x].d /\ call'[x].o = call[x].o
        \/ CallFits(call'[x], entry', status', asked')
  BY <1>3, <1>5, <1>6
<1> QED
  BY <1>1, <1>5, <1>6, <1>7, <1>8, NothingDecided DEF Types

(* The one step that decides: the proposal was undecided or decided so already. *)
LEMMA ServeKeeps ==
  ASSUME DeletionInv, NEW c \in Request, Serve(c)
  PROVE  DeletionInv'
<1>1. Types
  BY DEF DeletionInv
<1> DEFINE p == entry[call[c].e].p
           o == call[c].o
           d == call[c].d
           to == Asks(d)
<1>2. /\ p \in Proposal /\ o \in Operator /\ d \in Choice
      /\ <<p, o, d>> \in asked /\ call[c].e \in Entry
  BY DEF Serve, DeletionInv, UnderWay, CallFits
<1>3. \/ to = "approved" /\ d = "approve"
      \/ to = "denied" /\ d \in {"deny", "modify"}
  BY <1>2, ChoiceAssumption DEF Asks
<1>4. UNCHANGED <<todo, ask, entry, pending, history, asked>>
  BY DEF Serve
<1>5. CASE /\ (to = "approved" /\ Approvable(p, o)) \/ (to = "denied" /\ Deniable(p, o))
           /\ status' = [status EXCEPT ![p] = to]
           /\ by' = [by EXCEPT ![p] = o]
           /\ call' = [call EXCEPT ![c].at = "ok"]
  <2>1. \/ to = "approved" /\ status[p] \in {"approved", "validate"}
        \/ to = "denied" /\ status[p] \in {"denied", "validate"}
    BY <1>5 DEF Approvable, Deniable
  <2> HIDE DEF p, o, d, to
  <2>2. /\ status' \in [Proposal -> Statuses] /\ status'[p] = to
        /\ \A q \in Proposal : q # p => status'[q] = status[q]
    BY <1>1, <1>2, <1>3, <1>5 DEF Types, Statuses
  <2>3. /\ by' \in [Proposal -> Operator \cup {None}] /\ by'[p] = o
        /\ \A q \in Proposal : q # p => by'[q] = by[q]
    BY <1>1, <1>2, <1>5 DEF Types
  <2>4. /\ call' \in [Request -> Decision]
        /\ call'[c].e = call[c].e /\ call'[c].d = call[c].d /\ call'[c].o = call[c].o
        /\ call'[c].at = "ok"
        /\ \A x \in Request : x # c => call'[x] = call[x]
    BY <1>1, <1>5 DEF Types, Decision
  <2>5. CallFits(call'[c], entry', status', asked')
    <3>1. d = "approve" => status'[p] \in Durable
      BY <1>3, <2>2 DEF Durable
    <3>2. d = "deny" => status'[p] = "denied"
      BY <1>3, <2>2
    <3>3. entry'[call'[c].e].p = p /\ call'[c].d = d /\ call'[c].o = o
      BY <1>4, <2>4 DEF p, d, o
    <3> QED
      BY <1>2, <1>4, <2>4, <3>1, <3>2, <3>3 DEF CallFits
  <2>6. \A x \in Request :
          \/ /\ call'[x].at = call[x].at /\ call'[x].e = call[x].e
             /\ call'[x].d = call[x].d /\ call'[x].o = call[x].o
          \/ CallFits(call'[x], entry', status', asked')
    BY <2>4, <2>5
  <2>7. \A q \in Proposal : /\ status[q] = "denied" => status'[q] = "denied"
                            /\ status[q] \in Durable => status'[q] \in Durable
                            /\ status[q] # "none" => status'[q] # "none"
    BY <2>1, <2>2 DEF Durable
  <2>8. \A q \in Proposal :
          /\ \/ status'[q] \in Durable => status[q] \in Durable /\ by'[q] = by[q]
             \/ <<q, by'[q], "approve">> \in asked'
          /\ \/ status'[q] = "denied" => status[q] = "denied" /\ by'[q] = by[q]
             \/ \E m \in {"deny", "modify"} : <<q, by'[q], m>> \in asked'
    <3>1. <<p, by'[p], d>> \in asked'
      BY <1>2, <1>4, <2>3
    <3> QED
      BY <1>3, <2>2, <2>3, <3>1 DEF Durable
  <2>9. Types'
    BY <1>1, <1>4, <2>2, <2>3, <2>4 DEF Types
  <2> QED
    BY <1>1, <1>4, <2>6, <2>7, <2>8, <2>9, DeletionStep
<1>6. CASE call' = [call EXCEPT ![c].at = "error"] /\ UNCHANGED <<status, by>>
  <2>1. /\ call' \in [Request -> Decision]
        /\ call'[c].e = call[c].e /\ call'[c].d = call[c].d /\ call'[c].o = call[c].o
        /\ call'[c].at = "error"
        /\ \A x \in Request : x # c => call'[x] = call[x]
    BY <1>1, <1>6 DEF Types, Decision
  <2>2. CallFits(call'[c], entry', status', asked')
    BY <1>2, <1>4, <1>6, <2>1 DEF CallFits
  <2>3. \A x \in Request :
          \/ /\ call'[x].at = call[x].at /\ call'[x].e = call[x].e
             /\ call'[x].d = call[x].d /\ call'[x].o = call[x].o
          \/ CallFits(call'[x], entry', status', asked')
    BY <2>1, <2>2
  <2> QED
    BY <1>1, <1>4, <1>6, <2>1, <2>3, NothingDecided DEF Types
<1> QED
  BY <1>5, <1>6 DEF Serve

LEMMA LoseKeeps ==
  ASSUME DeletionInv, NEW c \in Request, Lose(c)
  PROVE  DeletionInv'
<1>1. Types
  BY DEF DeletionInv
<1>2. UNCHANGED <<status, by, todo, ask, entry, pending, history, asked>>
  BY DEF Lose, store
<1>3. CallFits(call[c], entry, status, asked) /\ call[c].at # "idle"
  BY DEF DeletionInv, UnderWay, Lose
<1>4. /\ call' \in [Request -> Decision]
      /\ call'[c].e = call[c].e /\ call'[c].d = call[c].d /\ call'[c].o = call[c].o
      /\ call'[c].at = "error"
      /\ \A x \in Request : x # c => call'[x] = call[x]
  BY <1>1 DEF Types, Decision, Lose
<1>5. CallFits(call'[c], entry', status', asked')
  BY <1>2, <1>3, <1>4 DEF CallFits
<1>6. \A x \in Request :
        \/ /\ call'[x].at = call[x].at /\ call'[x].e = call[x].e
           /\ call'[x].d = call[x].d /\ call'[x].o = call[x].o
        \/ CallFits(call'[x], entry', status', asked')
  BY <1>4, <1>5
<1> QED
  BY <1>1, <1>2, <1>4, <1>6, NothingDecided DEF Types

(* The gateway tells of a decision only what the agent has answered or what it has
   found durable. *)
LEMMA ReturnKeeps ==
  ASSUME DeletionInv, NEW c \in Request, Return(c)
  PROVE  DeletionInv'
<1>1. Types
  BY DEF DeletionInv
<1> DEFINE k == call[c]
           p == entry[k.e].p
<1>2. UNCHANGED <<status, by, todo, ask, asked>>
  BY DEF Return, store
<1>3. /\ k.e \in Entry /\ p \in Proposal /\ k.d \in Choice
      /\ k.at = "ok" => /\ k.d = "approve" => status[p] \in Durable
                        /\ k.d = "deny" => status[p] = "denied"
  BY DEF Return, DeletionInv, UnderWay, CallFits
<1>4. /\ call' \in [Request -> Decision]
      /\ call'[c].at = "idle"
      /\ \A x \in Request : x # c => call'[x] = call[x]
  BY <1>1 DEF Types, Decision, Return, Free
<1>5. CASE Retained(c)
  <2>1. entry' \in [Entry -> Confirmation] /\ \A x \in Entry : entry'[x].p = entry[x].p
    BY <1>1, <1>3, <1>5 DEF Retained, Types, Confirmation
  <2>2. /\ pending' \subseteq Entry /\ history' = history
        /\ \A x \in pending' : x \in pending \/ entry'[x].p \in Proposal
    BY <1>1, <1>3, <1>5, <2>1 DEF Retained, Types
  <2> QED
    BY <1>1, <1>2, <1>4, <2>1, <2>2, NothingDecided DEF Types
<1>6. ASSUME NEW final \in {"approved", "denied"}, Ends(k.e, final),
             IF final = "denied" THEN status[p] = "denied" ELSE status[p] \in Durable
      PROVE  DeletionInv'
  <2>1. /\ entry' = entry /\ pending' \subseteq pending /\ pending' \subseteq Entry
        /\ history' = history \cup {<<p, final>>}
    BY <1>1, <1>6 DEF Ends, Types
  <2> HIDE DEF p, k
  <2>2. history' \subseteq Proposal \X {"approved", "denied"}
    BY <1>1, <1>3, <1>6, <2>1 DEF Types
  <2>3. \A h \in history' :
          \/ h \in history
          \/ IF h[2] = "denied" THEN status'[h[1]] = "denied" ELSE status'[h[1]] \in Durable
    BY <1>2, <1>6, <2>1
  <2> QED
    BY <1>1, <1>2, <1>4, <2>1, <2>2, <2>3, NothingDecided DEF Types
<1>7. CASE k.d = "deny" /\ k.at = "ok" /\ Ends(k.e, "denied")
  BY <1>3, <1>6, <1>7
<1>8. CASE k.d = "approve" /\ (k.at = "ok" \/ status[p] = "approved") /\ Ends(k.e, "approved")
  <2>1. status[p] \in Durable
    BY <1>3, <1>8 DEF Durable
  <2> QED
    BY <1>6, <1>8, <2>1
<1> QED
  BY <1>5, <1>7, <1>8 DEF Return

-----------------------------------------------------------------------------
LEMMA DeletionInvariant == Spec => []DeletionInv
<1>1. ASSUME DeletionInv, [Next]_vars PROVE DeletionInv'
  <2>1. CASE \E p \in Proposal : Propose(p) \/ Restore(p)
    BY <1>1, <2>1, ProposeKeeps, RestoreKeeps
  <2>2. CASE Touch \/ Crash \/ GatewayRestart \/ Start \/ Recover
    BY <1>1, <2>2, TouchKeeps, CrashKeeps, GatewayRestartKeeps, StartKeeps, RecoverKeeps
  <2>3. CASE Handles
    BY <1>1, <2>3, SnapshotKeeps, KnownKeeps, EmitKeeps, AlertKeeps DEF Handles
  <2>4. CASE \E c \in Request : Answers(c)
    BY <1>1, <2>4, ServeKeeps, LoseKeeps, ReturnKeeps DEF Answers
  <2>5. CASE \E c \in Request, e \in Entry, o \in Resolver, d \in Choice : Decide(c, e, o, d)
    BY <1>1, <2>5, DecideKeeps
  <2>6. CASE UNCHANGED vars
    BY <1>1, <2>6, NothingDecided DEF vars, DeletionInv, Types
  <2> QED
    BY <1>1, <2>1, <2>2, <2>3, <2>4, <2>5, <2>6 DEF Next
<1> QED
  BY <1>1, DeletionInit, PTL DEF Spec

(* The history the gateway tells is what the agent has made durable, whatever crashed,
   was lost or was decided twice: an approval is told only when the agent has answered
   or the gateway has found it durable, and a decision is never taken back (resolve,
   reconcileRetainedResolution). *)
THEOREM HistoryHolds == Spec => []HistoryIsTrue
BY DeletionInvariant, PTL DEF DeletionInv

(* A memory is deleted only if the operator on record approved just that, and a denial on
   record is that operator's denial or modification (execute, onDenied,
   approveMemoryDeletionProposal, denyMemoryDeletionProposal). *)
THEOREM ConsentOnRecord == Spec => []DecidedByOperator
BY DeletionInvariant, PTL DEF DeletionInv
=============================================================================
