---------------------------- MODULE MemoryDeletion ----------------------------
(***************************************************************************)
(* Deleting a memory with an operator's consent.  The companion's agent    *)
(* keeps proposals in its database; the gateway keeps, in its own memory,  *)
(* the confirmations that operators see.  To propose, the agent calls the  *)
(* gateway, which asks the agent back for the durable proposal, enqueues a *)
(* confirmation, alerts the partner and tells the agent so.  A decision    *)
(* goes the other way: the gateway asks the agent to approve or to deny,   *)
(* and keeps the confirmation when that fails.  An agent that starts       *)
(* proposes every undecided or decided proposal again before anything      *)
(* else; one that loses the gateway restarts.  All proposals are about one *)
(* memory.  Confirmations of this kind are renewed when they expire, so    *)
(* that time plays no part.                                                *)
(***************************************************************************)
EXTENDS Naturals, FiniteSets, FiniteSetsExt

CONSTANTS
  Proposal,      \* numbered in the order of their creation
  Entry,         \* confirmations, numbered likewise
  Resolver,      \* identities a decision may be made under
  Operator,      \* those of an authenticated operator
  Request,       \* decisions the gateway may be handling at a time
  Choice,        \* decisions the operators make
  MaxAsks,       \* bound: how often the companion proposes again what is pending
  MaxDecisions,  \* bound: decisions in all
  MaxFaults,     \* bound: crashes, lost replies and failed alerts in all
  None

ASSUME ChoiceAssumption == Choice \subseteq {"approve", "deny", "modify"}
ASSUME ResolverAssumption == Operator \subseteq Resolver
ASSUME NumberAssumption == Proposal \subseteq Nat \ {0} /\ Entry \subseteq Nat \ {0}

VARIABLES
  status,     \* database: status of each proposal
  by,         \* database: the operator who decided it
  stale,      \* database: proposals whose memory has changed since
  agent,      \* "up", "starting" or "down"
  todo,       \* proposals a starting agent has yet to propose
  ask,        \* the proposal the gateway is handling
  entry,      \* confirmations: proposal, failed decision, whether the agent is still there
  pending,    \* confirmations that operators see
  history,    \* how confirmations ended
  call,       \* decisions the gateway is handling
  asked,      \* decisions the operators have made
  refused,    \* whether an agent was not let up because of a decision that is durable
  asks, decisions, faults

vars == <<status, by, stale, agent, todo, ask, entry, pending, history, call, asked,
          refused, asks, decisions, faults>>
store == <<status, by, stale>>
bounds == <<asks, decisions, faults>>

Nothing == [p |-> 0, at |-> "idle", read |-> "none", e |-> 0]
Free    == [e |-> 0, d |-> "none", o |-> None, at |-> "idle", live |-> FALSE]
Blank   == [p |-> 0, failed |-> "none", live |-> FALSE]

Undecided == {"alert", "validate"}

Init ==
  /\ status = [p \in Proposal |-> "none"] /\ by = [p \in Proposal |-> None] /\ stale = {}
  /\ agent = "up" /\ todo = {} /\ ask = Nothing
  /\ entry = [e \in Entry |-> Blank] /\ pending = {} /\ history = {}
  /\ call = [c \in Request |-> Free]
  /\ asked = {} /\ refused = FALSE
  /\ asks = 0 /\ decisions = 0 /\ faults = 0

Fault == faults < MaxFaults /\ faults' = faults + 1
NoFault == UNCHANGED faults

-----------------------------------------------------------------------------
(* The agent's database *)

Pending == {p \in Proposal : status[p] \in Undecided}

(* A proposal is created if the memory is there and nothing is pending for it. *)
Create(p) ==
  /\ Pending = {}
  /\ \A q \in Proposal : status[q] # "approved" /\ (q < p => status[q] # "none")
  /\ status[p] = "none"
  /\ status' = [status EXCEPT ![p] = "alert"]
  /\ UNCHANGED asks

(* The tool proposes anew, or what is pending already. *)
Propose(p) ==
  /\ agent = "up" /\ ask = Nothing
  /\ \/ Create(p)
     \/ p \in Pending /\ asks < MaxAsks /\ asks' = asks + 1 /\ UNCHANGED status
  /\ ask' = [Nothing EXCEPT !.p = p, !.at = "snapshot"]
  /\ UNCHANGED <<by, stale, agent, todo, entry, pending, history, call, asked, refused,
                 decisions, faults>>

Touch ==
  /\ stale' = stale \cup Pending
  /\ UNCHANGED <<status, by, agent, todo, ask, entry, pending, history, call, asked,
                 refused, bounds>>

Restore(p) ==
  /\ agent = "up"
  /\ status[p] = "approved"
  /\ status' = [status EXCEPT ![p] = "restored"]
  /\ UNCHANGED <<by, stale, agent, todo, ask, entry, pending, history, call, asked,
                 refused, bounds>>

(* Mutant of Approvable: what was denied can be approved. *)
ApprovableLate(p, o) ==
  \/ status[p] = "approved" /\ by[p] = o
  \/ status[p] \in {"validate", "denied"} /\ p \notin stale

(* approveMemoryDeletionProposal, denyMemoryDeletionProposal: the same operator may repeat
   a decision, and an approval is void when the memory has changed. *)
Approvable(p, o) ==
  \/ status[p] = "approved" /\ by[p] = o
  \/ status[p] = "validate" /\ p \notin stale

Deniable(p, o) ==
  \/ status[p] = "denied" /\ by[p] = o
  \/ status[p] = "validate"

-----------------------------------------------------------------------------
(* The agent's start and its end *)

(* Mutant of Recoverable: proposals whose partner was not alerted yet are left out. *)
RecoverableAlerted == {p \in Proposal : status[p] \in {"validate", "approved", "denied"}}

Recoverable == {p \in Proposal : status[p] \in Undecided \cup {"approved", "denied"}}

(* What was under way has failed long before the new agent is there. *)
Start ==
  /\ agent = "down"
  /\ \A c \in Request : call[c] = Free
  /\ agent' = "starting" /\ todo' = Recoverable
  /\ UNCHANGED <<store, ask, entry, pending, history, call, asked, refused, bounds>>

Recover ==
  /\ agent = "starting" /\ ask = Nothing
  /\ \/ /\ todo # {}
        /\ ask' = [Nothing EXCEPT !.p = Min(todo), !.at = "snapshot"]
        /\ UNCHANGED agent
     \/ todo = {} /\ agent' = "up" /\ UNCHANGED ask
  /\ UNCHANGED <<store, todo, entry, pending, history, call, asked, refused, bounds>>

(* Whoever is linked to this agent is so no longer. *)
Unlinked == [e \in Entry |-> [entry[e] EXCEPT !.live = FALSE]]
Cut      == [c \in Request |-> [call[c] EXCEPT !.live = FALSE]]

Crash ==
  /\ agent # "down" /\ Fault
  /\ agent' = "down" /\ todo' = {} /\ ask' = Nothing
  /\ entry' = Unlinked /\ call' = Cut
  /\ UNCHANGED <<store, pending, history, asked, refused, asks, decisions>>

(* The gateway forgets everything, and the agent that loses it goes down. *)
GatewayRestart ==
  /\ Fault
  /\ agent' = "down" /\ todo' = {} /\ ask' = Nothing
  /\ entry' = Unlinked /\ pending' = {} /\ history' = {}
  /\ call' = [c \in Request |-> Free]
  /\ UNCHANGED <<store, asked, refused, asks, decisions>>

-----------------------------------------------------------------------------
(* The gateway handles a proposal *)

Done ==
  /\ ask' = Nothing
  /\ todo' = todo \ {ask.p}
  /\ UNCHANGED <<agent, call>>

(* The tool reports an error; a starting agent gives up. *)
Fails(entries) ==
  /\ ask' = Nothing
  /\ \/ agent = "up" /\ entry' = entries /\ UNCHANGED <<agent, todo, call>>
     \/ /\ agent = "starting"
        /\ agent' = "down" /\ todo' = {}
        /\ entry' = [e \in Entry |-> [entries[e] EXCEPT !.live = FALSE]]
        /\ call' = Cut

(* The snapshot is taken in the agent and reaches the gateway later, or never. *)
Snapshot ==
  /\ ask.at = "snapshot"
  /\ \/ NoFault /\ ask' = [ask EXCEPT !.at = "known", !.read = status[ask.p]]
        /\ UNCHANGED <<agent, todo, call, entry>>
     \/ Fault /\ Fails(entry)
  /\ UNCHANGED <<store, pending, history, asked, refused, asks, decisions>>

Existing == {e \in pending : entry[e].p = ask.p}

Unused == {e \in Entry : entry[e] = Blank}

(* reconcileRetainedResolution: only the decision that failed can turn out to be durable. *)
Fits(e, final) ==
  \/ final = "approved" /\ entry[e].failed = "approve"
  \/ final = "denied" /\ entry[e].failed = "deny"

(* What is decided is reconciled with the confirmation, if there is one. *)
Settled ==
  LET final == IF ask.read = "denied" THEN "denied" ELSE "approved"
      e     == Min(Existing)
  IN  \/ /\ Existing = {}
         /\ Done /\ UNCHANGED <<entry, pending, history, refused>>
      \/ /\ Existing # {} /\ Fits(e, final)
         /\ pending' = pending \ {e}
         /\ history' = history \cup {<<ask.p, final>>}
         /\ Done /\ UNCHANGED <<entry, refused>>
      \/ /\ Existing # {} /\ ~Fits(e, final)
         /\ refused' = (refused \/ agent = "starting")
         /\ Fails(entry) /\ UNCHANGED <<pending, history>>

(* What is undecided is linked to this agent, or gets a new confirmation. *)
Surfaced ==
  \/ /\ Existing # {}
     /\ entry' = [entry EXCEPT ![Min(Existing)].live = TRUE]
     /\ ask' = [ask EXCEPT !.at = "alert"]
     /\ UNCHANGED <<agent, todo, call, pending, history, refused>>
  \/ /\ Existing = {} /\ Unused # {}
     /\ LET e == Min(Unused)
        IN  /\ entry' = [entry EXCEPT ![e] = [p |-> ask.p, failed |-> "none", live |-> TRUE]]
            /\ pending' = pending \cup {e}
            /\ ask' = [ask EXCEPT !.at = "emit", !.e = e]
     /\ UNCHANGED <<agent, todo, call, history, refused>>

Known ==
  /\ ask.at = "known"
  /\ IF ask.read \in Undecided THEN Surfaced ELSE Settled
  /\ UNCHANGED <<store, asked, bounds>>

(* The alert is delivered, or the confirmation is withdrawn. *)
Emit ==
  /\ ask.at = "emit"
  /\ \/ NoFault /\ ask' = [ask EXCEPT !.at = "alert"]
        /\ UNCHANGED <<agent, todo, call, entry, pending>>
     \/ Fault /\ pending' = pending \ {ask.e} /\ Fails(entry)
  /\ UNCHANGED <<store, history, asked, refused, asks, decisions>>

(* markMemoryDeletionPartnerAlerted: asked of the agent, whose answer may be lost. *)
Alert ==
  LET p == ask.p
  IN  /\ ask.at = "alert"
      /\ status' = IF status[p] = "alert" THEN [status EXCEPT ![p] = "validate"] ELSE status
      /\ \/ NoFault /\ status[p] \in Undecided /\ Done /\ UNCHANGED entry
         \/ NoFault /\ status[p] \notin Undecided /\ Fails(entry)
         \/ Fault /\ Fails(entry)
      /\ UNCHANGED <<by, stale, pending, history, asked, refused, asks, decisions>>

-----------------------------------------------------------------------------
(* The gateway handles a decision *)

(* Only an operator is heard: anybody else's decision leaves everything as it is.  Who
   denies leaves the confirmation where it is; who approves or modifies takes it away. *)
Decide(c, e, o, d) ==
  /\ call[c] = Free /\ e \in pending
  /\ o \in Operator
  /\ d \in Choice /\ decisions < MaxDecisions
  /\ decisions' = decisions + 1
  /\ call' = [call EXCEPT ![c] = [e |-> e, d |-> d, o |-> o, at |-> "sent",
                                  live |-> entry[e].live]]
  /\ pending' = IF d = "deny" THEN pending ELSE pending \ {e}
  /\ asked' = asked \cup {<<entry[e].p, o, d>>}
  /\ UNCHANGED <<store, agent, todo, ask, entry, history, refused, asks, faults>>

(* Mutant of Asks: a decision with other parameters is taken for an approval. *)
AsksLoosely(d) == IF d = "deny" THEN "denied" ELSE "approved"

(* What the agent is asked to make of the proposal: a modification denies it. *)
Asks(d) == IF d = "approve" THEN "approved" ELSE "denied"

(* The agent does what it is asked, or answers with an error. *)
Serve(c) ==
  LET p  == entry[call[c].e].p
      o  == call[c].o
      to == Asks(call[c].d)
  IN  /\ call[c].at = "sent" /\ call[c].live
      /\ IF (to = "approved" /\ Approvable(p, o)) \/ (to = "denied" /\ Deniable(p, o))
         THEN /\ status' = [status EXCEPT ![p] = to]
              /\ by' = [by EXCEPT ![p] = o]
              /\ call' = [call EXCEPT ![c].at = "ok"]
         ELSE /\ call' = [call EXCEPT ![c].at = "error"]
              /\ UNCHANGED <<status, by>>
      /\ UNCHANGED <<stale, agent, todo, ask, entry, pending, history, asked, refused, bounds>>

(* The question or the answer is lost. *)
Lose(c) ==
  /\ call[c].at \in {"sent", "ok"}
  /\ IF call[c].live THEN Fault ELSE NoFault
  /\ call' = [call EXCEPT ![c].at = "error"]
  /\ UNCHANGED <<store, agent, todo, ask, entry, pending, history, asked, refused, asks,
                 decisions>>

Ends(e, final) ==
  /\ pending' = pending \ {e}
  /\ history' = history \cup {<<entry[e].p, final>>}
  /\ UNCHANGED entry

Retained(c) ==
  LET e == call[c].e
  IN  /\ entry' = [entry EXCEPT ![e].failed = call[c].d]
      /\ pending' = IF call[c].d = "deny" THEN pending ELSE pending \cup {e}
      /\ UNCHANGED history

(* After an approval that failed the gateway looks whether it is durable all the same. *)
Return(c) ==
  LET k == call[c]
      durable == k.live /\ status[entry[k.e].p] = "approved"
  IN  /\ k.at \in {"ok", "error"}
      /\ call' = [call EXCEPT ![c] = Free]
      /\ \/ NoFault /\ k.d = "deny" /\ k.at = "ok" /\ Ends(k.e, "denied")
         \/ NoFault /\ k.d = "approve" /\ (k.at = "ok" \/ durable) /\ Ends(k.e, "approved")
         \/ NoFault /\ k.d = "approve" /\ k.at = "error" /\ ~durable /\ Retained(c)
         \/ Fault /\ k.d = "approve" /\ k.at = "error" /\ durable /\ Retained(c)
         \/ NoFault /\ k.d = "deny" /\ k.at = "error" /\ Retained(c)
         \/ NoFault /\ k.d = "modify" /\ Retained(c)
      /\ UNCHANGED <<store, agent, todo, ask, asked, refused, asks, decisions>>

-----------------------------------------------------------------------------
Handles == Snapshot \/ Known \/ Emit \/ Alert
Answers(c) == Serve(c) \/ Lose(c) \/ Return(c)

Next ==
  \/ \E p \in Proposal : Propose(p) \/ Restore(p)
  \/ Touch \/ Crash \/ GatewayRestart \/ Start \/ Recover
  \/ Handles
  \/ \E c \in Request : Answers(c)
  \/ \E c \in Request, e \in Entry, o \in Resolver, d \in Choice : Decide(c, e, o, d)

Spec == Init /\ [][Next]_vars

(* A supervisor starts the agent again; calls are answered or fail.  Nothing makes the
   companion propose or an operator decide. *)
Fairness ==
  /\ WF_vars(Start) /\ WF_vars(Recover) /\ WF_vars(Handles)
  /\ \A c \in Request : WF_vars(Answers(c))

FairSpec == Spec /\ Fairness

-----------------------------------------------------------------------------
Statuses == {"none", "alert", "validate", "approved", "denied", "restored"}

(* At most one proposal is undecided, what is decided has an operator, and whoever is
   pending or handled is a confirmation of a proposal. *)
TypeOK ==
  /\ status \in [Proposal -> Statuses]
  /\ Cardinality(Pending) <= 1
  /\ \A p \in Proposal :
       (by[p] \in Operator) <=> (status[p] \in {"approved", "denied", "restored"})
  /\ agent \in {"up", "starting", "down"}
  /\ todo \subseteq Proposal /\ stale \subseteq Proposal
  /\ pending \subseteq Entry \ Unused
  /\ \A c \in Request : call[c] = Free \/ call[c].e \in Entry \ Unused

(* What the gateway tells of a confirmation is what the agent has made durable, whatever
   was lost, refused, or decided twice (resolve, reconcileRetainedResolution). *)
HistoryIsTrue ==
  \A h \in history :
    IF h[2] = "denied" THEN status[h[1]] = "denied"
    ELSE status[h[1]] \in {"approved", "restored"}

(* A memory is deleted only if the one on record is an operator and has approved just
   that, and a denial on record is one of that operator's, too (resolve, execute,
   onDenied). *)
DecidedByOperator ==
  \A p \in Proposal :
    /\ status[p] \in {"approved", "restored", "denied"} => by[p] \in Operator
    /\ status[p] \in {"approved", "restored"} => <<p, by[p], "approve">> \in asked
    /\ status[p] = "denied" => \E d \in {"deny", "modify"} : <<p, by[p], d>> \in asked

(* The operators see again whatever is undecided, after crashes of the agent, restarts of
   the gateway and lost calls (recoverPendingMemoryDeletionProposals); what can stand in
   the way is a confirmation kept after another decision than the one that is durable
   (reconcileRetainedResolution refuses it, and with it the agent's start). *)
Resurfaces ==
  \A p \in Proposal :
    p \in Pending /\ agent # "up"
      ~> \/ p \notin Pending \/ refused
         \/ \E e \in pending : entry[e].p = p /\ entry[e].live
=============================================================================
