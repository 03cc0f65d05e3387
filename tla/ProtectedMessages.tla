------------------------- MODULE ProtectedMessages -------------------------
(***************************************************************************)
(* Discord messages on their way into an agent and the replies on their    *)
(* way out.  While an activity protects the companion's time, and as long  *)
(* as older messages wait, a message goes to a durable queue; otherwise it *)
(* goes straight to the pump, which bundles messages, runs a turn for them *)
(* and delivers the reply part by part.  A drain feeds the durable queue   *)
(* to the same pump and acknowledges a row when its delivery has ended.    *)
(*                                                                         *)
(* One process, one channel.  Transitions of the availability state and    *)
(* admissions run one at a time (`tail'); the drain and the pump run       *)
(* beside them.                                                            *)
(***************************************************************************)
EXTENDS Naturals, Sequences, SequencesExt, FiniteSets

CONSTANTS
  Message,       \* message ids
  Author,        \* who wrote each of them
  Activity,      \* activities that protect the companion's time
  Kind,          \* "idle" or "do_not_disturb" for each of them
  BatchSize,     \* queueReadBatchSize
  Copies,        \* how often the gateway delivers each message at most
  MaxFaults,     \* failing turns, sends, admissions and calls of the drain
  MaxWriteFaults,\* failing writes of the availability state
  MaxCrashes,    \* restarts of the agent
  None

ASSUME MessagesAssumption ==
  /\ IsFiniteSet(Message) /\ None \notin Message
  /\ DOMAIN Author = Message
  /\ Kind \in [Activity -> {"idle", "do_not_disturb"}]
  /\ Copies \in [Message -> Nat]
  /\ BatchSize \in Nat \ {0}
  /\ {MaxFaults, MaxWriteFaults, MaxCrashes} \subseteq Nat

VARIABLES
  current,   \* availability as this process knows it
  ahead,     \* whether the durable row bears the revision this process would write next
  act,       \* stage of each activity
  tail,      \* transitions and admissions that wait for their turn; the head runs
  queue,     \* durable queue of protected messages
  drain,     \* the drain: where it is and what is left of its batch
  owed,      \* another drain is chained behind it
  retry,     \* the retry timer is set
  prompts,   \* entries that wait for the pump
  pump,      \* the pump: where it is, its bundle, and what of the reply is left to send
  inFlight,  \* messages the pump is responsible for
  recent,    \* messages whose reply was delivered lately
  failed,    \* checkpoint of a reply that was delivered in part, by message
  faults,    \* faults so far: of the work, of state writes, restarts
  copies,    \* deliveries of each message so far
  arrived,   \* ghost: messages this process knows, in the order of their first arrival
  begun,     \* ghost: messages in the order of their first turn in this process
  forgotten, \* ghost: messages whose records in memory have run out
  said,      \* ghost: what of the text of its reply this process has sent to each message
  replied,   \* ghost: messages whose reply was delivered entirely
  told,      \* ghost: messages whose author was told of a failure
  untold,    \* ghost: messages given up without their author being told
  turnedAway \* ghost: messages whose admission has failed in this process

availability == <<current, ahead, act>>
draining     == <<drain, owed, retry>>
pumping      == <<prompts, pump, inFlight, recent, failed>>
ghost        == <<arrived, begun, forgotten, said, replied, told, untold, turnedAway>>
vars == <<current, ahead, act, tail, queue, drain, owed, retry, prompts, pump, inFlight,
          recent, failed, faults, copies, arrived, begun, forgotten, said, replied,
          told, untold, turnedAway>>

-----------------------------------------------------------------------------
(* State *)

Stages == {"new", "begin", "on", "end", "done"}

(* A message with how it came: `awaited' by the drain, or resuming a checkpoint. *)
Entry == [m : Message, awaited : BOOLEAN, resumes : BOOLEAN]

Parts      == {<<>>, <<"text">>, <<"media">>, <<"text", "media">>}
Checkpoint == [keys : SUBSET Message, left : Parts]
NoReply    == [keys |-> {}, left |-> <<>>]

Idle      == [at |-> "off", bundle |-> <<>>, reply |-> NoReply]
DrainOff  == [at |-> "off", batch |-> <<>>]

Init ==
  /\ current = "available" /\ ahead = FALSE
  /\ act = [a \in Activity |-> "new"]
  /\ tail = <<>> /\ queue = <<>>
  /\ drain = DrainOff /\ owed = FALSE /\ retry = FALSE
  /\ prompts = <<>> /\ pump = Idle /\ inFlight = {}
  /\ recent = {} /\ failed = [m \in Message |-> NoReply]
  /\ faults = [work |-> 0, write |-> 0, crash |-> 0]
  /\ copies = [m \in Message |-> 0]
  /\ arrived = <<>> /\ begun = <<>>
  /\ forgotten = {}
  /\ said = [m \in Message |-> "no"]
  /\ replied = {} /\ told = {} /\ untold = {} /\ turnedAway = {}

Keys(bundle) == {bundle[i].m : i \in DOMAIN bundle}

(* A fault of the work: a turn, a send, an admission or a call of the drain that fails. *)
Faulty ==
  /\ faults.work < MaxFaults
  /\ faults' = [faults EXCEPT !.work = @ + 1]

-----------------------------------------------------------------------------
(* The drain is chained behind the one that runs, if any *)

ScheduleDrain ==
  /\ retry' = FALSE
  /\ IF drain.at = "off"
       THEN drain' = [at |-> "list", batch |-> <<>>] /\ owed' = FALSE
       ELSE owed' = TRUE /\ UNCHANGED drain

(* A drain returns; the next one begins. *)
DrainEnds(again) ==
  /\ drain' = IF owed THEN [at |-> "list", batch |-> <<>>] ELSE DrainOff
  /\ owed' = FALSE
  /\ retry' = (retry \/ (again /\ current = "available"))

-----------------------------------------------------------------------------
(* The pump *)

(* takeNextDiscordBundle: the first entry and the later ones of its author that no other *)
(* author's message and no resumed delivery comes before.                               *)
BundleLen(q) ==
  IF q[1].resumes THEN 1
  ELSE CHOOSE n \in 1 .. Len(q) :
         /\ \A i \in 1 .. n : ~q[i].resumes /\ Author[q[i].m] = Author[q[1].m]
         /\ n < Len(q) => q[n + 1].resumes \/ Author[q[n + 1].m] # Author[q[1].m]

(* Of its bundle, the messages that have a turn for the first time, each in its place. *)
Fresh(bundle) ==
  [i \in DOMAIN bundle |-> IF Contains(begun, bundle[i].m) THEN None ELSE bundle[i].m]

(* The pump takes its next bundle, resuming a checkpoint or prompting the agent. *)
Take(q) ==
  IF q = <<>>
    THEN pump' = Idle /\ prompts' = <<>> /\ UNCHANGED begun
    ELSE LET n == BundleLen(q)
             b == SubSeq(q, 1, n)
         IN  /\ prompts' = SubSeq(q, n + 1, Len(q))
             /\ pump' = IF b[1].resumes
                          THEN [at |-> "send", bundle |-> b, reply |-> failed[b[1].m]]
                          ELSE [at |-> "turn", bundle |-> b, reply |-> [keys |-> Keys(b), left |-> <<>>]]
             /\ begun' = IF b[1].resumes \/ \A m \in Keys(b) : Contains(begun, m)
                           THEN begun ELSE begun \o Fresh(b)

(* Whether handleDiscordMessage drops a message: its reply was delivered lately, or the *)
(* pump has it, or another message its checkpoint covers, already.                      *)
Resumable(m) == failed[m] # NoReply
Claims(m)    == IF Resumable(m) THEN failed[m].keys ELSE {m}
Dropped(m)   == m \in recent \/ Claims(m) \cap inFlight # {}

Admit(m, awaited) ==
  LET e == [m |-> m, awaited |-> awaited, resumes |-> Resumable(m)]
  IN  /\ inFlight' = inFlight \cup Claims(m)
      /\ IF pump.at = "off" THEN Take(<<e>>)
                            ELSE prompts' = Append(prompts, e) /\ UNCHANGED <<pump, begun>>
      /\ UNCHANGED <<recent, failed>>

(* Mutant of Released: a delivery that fails keeps its marks. *)
ReleasedWhenOut == IF pump.at = "send" THEN inFlight \ pump.reply.keys ELSE inFlight

Released == inFlight \ pump.reply.keys

Awaited == \E i \in DOMAIN pump.bundle : pump.bundle[i].awaited

Continue == Take(prompts)

(* promptWhenIdle returns; the agent was busy for as long as it took. *)
TurnEnds ==
  /\ pump.at = "turn"
  /\ \E parts \in Parts :
       pump' = [pump EXCEPT !.at = "send", !.reply.left = parts]
  /\ UNCHANGED <<availability, tail, queue, draining, prompts, inFlight, recent, failed,
                 faults, copies, ghost>>

TurnFails ==
  /\ pump.at = "turn" /\ Faulty
  /\ pump' = [pump EXCEPT !.at = "notice"]
  /\ UNCHANGED <<availability, tail, queue, draining, prompts, inFlight, recent, failed,
                 copies, ghost>>

(* Mutant of Delivered: the checkpoint does not advance past the text. *)
DeliveredAgain(left) == IF Head(left) = "text" /\ Len(left) > 1 THEN left ELSE Tail(left)

Delivered(left) == Tail(left)

(* Text in the channel: a part of it or the whole, or something of it once more. *)
Say(extent) ==
  said' = [m \in Message |->
             IF Head(pump.reply.left) # "text" \/ m \notin pump.reply.keys THEN said[m]
             ELSE IF said[m] \in {"whole", "again"} THEN "again"
             ELSE extent]

SendPart ==
  /\ pump.at = "send" /\ pump.reply.left # <<>>
  /\ Say("whole")
  /\ pump' = [pump EXCEPT !.reply.left = Delivered(@)]
  /\ UNCHANGED <<availability, tail, queue, draining, prompts, inFlight, recent, failed,
                 faults, copies, arrived, begun, forgotten, replied, told, untold, turnedAway>>

(* The checkpoint is parked under all of its messages.  A text goes out in chunks; the     *)
(* checkpoint does not know of those that went out before the one that failed.             *)
SendFails ==
  /\ pump.at = "send" /\ pump.reply.left # <<>> /\ Faulty
  /\ Say("part") \/ UNCHANGED said
  /\ failed' = [m \in Message |-> IF m \in pump.reply.keys THEN pump.reply ELSE failed[m]]
  /\ pump' = [pump EXCEPT !.at = "notice"]
  /\ UNCHANGED <<availability, tail, queue, draining, prompts, inFlight, recent, copies,
                 arrived, begun, forgotten, replied, told, untold, turnedAway>>

(* The reply is out: finalizeDiscordDelivery, and the drain goes on. *)
Finish ==
  /\ pump.at = "send" /\ pump.reply.left = <<>>
  /\ inFlight' = Released
  /\ recent' = recent \cup pump.reply.keys
  /\ failed' = [m \in Message |-> IF m \in pump.reply.keys THEN NoReply ELSE failed[m]]
  /\ replied' = replied \cup pump.reply.keys
  /\ drain' = IF Awaited THEN [drain EXCEPT !.at = "ack"] ELSE drain
  /\ Continue
  /\ UNCHANGED <<availability, tail, queue, owed, retry, faults, copies, arrived, forgotten, said,
                 told, untold, turnedAway>>

(* Mutant of Reject: a failed delivery lets the drain go on as well. *)
RejectNot ==
  IF Awaited THEN drain' = [drain EXCEPT !.at = "ack"] /\ UNCHANGED <<owed, retry>> ELSE UNCHANGED draining

(* The delivery the drain waits for fails: it stops, to try again later. *)
Reject == IF Awaited THEN DrainEnds(TRUE) ELSE UNCHANGED draining

(* handleDiscordTurnFailure: a notice in the channel.  If it cannot be sent either, that is *)
(* only audited.  The drain tries again what is in the durable queue, unless it takes the   *)
(* failing delivery of another copy for its own.                                            *)
Told   == told' = told \cup pump.reply.keys /\ UNCHANGED untold
Untold == untold' = untold \cup {m \in pump.reply.keys : Contains(queue, m) => copies[m] > 1} /\ UNCHANGED told

(* The delivery has failed for good or for now; the drain that waits for it fails too. *)
Notice ==
  /\ pump.at = "notice"
  /\ inFlight' = Released
  /\ Told \/ Untold
  /\ Reject
  /\ Continue
  /\ UNCHANGED <<availability, tail, queue, recent, failed, faults, copies, arrived, forgotten, said,
                 replied, turnedAway>>

-----------------------------------------------------------------------------
(* Availability: begin and release, serialized *)

Request(op) == tail' = Append(tail, op)

BeginActivity(a) ==
  /\ act[a] = "new"
  /\ act' = [act EXCEPT ![a] = "begin"]
  /\ Request([kind |-> "begin", of |-> a, at |-> "start"])
  /\ UNCHANGED <<current, ahead, queue, draining, pumping, faults, copies, ghost>>

EndActivity(a) ==
  /\ act[a] = "on"
  /\ act' = [act EXCEPT ![a] = "end"]
  /\ Request([kind |-> "end", of |-> a, at |-> "start"])
  /\ UNCHANGED <<current, ahead, queue, draining, pumping, faults, copies, ghost>>

Running(kind) == tail # <<>> /\ Head(tail).kind = kind

(* deriveState over the activities that remain or are added. *)
Derived(on) ==
  CASE \E a \in on : Kind[a] = "do_not_disturb" -> "do_not_disturb"
    [] on = {}                                  -> "available"
    [] OTHER                                    -> "idle"

Wanted ==
  LET on == {a \in Activity : act[a] \in {"on", "end"}}
  IN  Derived(IF Head(tail).kind = "begin" THEN on \cup {Head(tail).of} ELSE on \ {Head(tail).of})

Settle(to) ==
  /\ act' = [act EXCEPT ![Head(tail).of] = to]
  /\ tail' = Tail(tail)

(* publishDerivedState, which writes only a state that differs. *)
Publish ==
  /\ Running("begin") \/ Running("end")
  /\ Wanted # current => ~ahead
  /\ Settle(IF Head(tail).kind = "begin" THEN "on" ELSE "done")
  /\ current' = Wanted
  /\ IF Wanted # current /\ Wanted = "available" THEN ScheduleDrain ELSE UNCHANGED draining
  /\ UNCHANGED <<ahead, queue, pumping, faults, copies, ghost>>

(* The write fails.  A begin throws and leaves no activity; a release throws and leaves it *)
(* on, and nobody releases it again.  If only the answer was lost, the row has the         *)
(* revision already, and every later write of this process finds it taken.                 *)
PublishFails ==
  /\ Running("begin") \/ Running("end")
  /\ Wanted # current
  /\ IF ahead
       THEN UNCHANGED <<ahead, faults>>
       ELSE /\ faults.write < MaxWriteFaults
            /\ faults' = [faults EXCEPT !.write = @ + 1]
            /\ ahead' \in BOOLEAN
  /\ act' = [act EXCEPT ![Head(tail).of] = IF Head(tail).kind = "begin" THEN "done" ELSE "end"]
  /\ tail' = Tail(tail)
  /\ UNCHANGED <<current, queue, draining, pumping, copies, ghost>>

-----------------------------------------------------------------------------
(* A message from the gateway *)

Arrive(m) ==
  /\ copies[m] < Copies[m]
  /\ copies' = [copies EXCEPT ![m] = @ + 1]
  /\ arrived' = IF Contains(arrived, m) THEN arrived ELSE Append(arrived, m)
  /\ Request([kind |-> "message", of |-> m, at |-> "start"])
  /\ UNCHANGED <<availability, queue, draining, pumping, faults, begun, forgotten, said, replied,
                 told, untold, turnedAway>>

(* Mutant of Protected: older messages that wait do not matter. *)
ProtectedNow == current # "available"

Protected == current # "available" \/ queue # <<>>

(* enqueueIfUnavailable finds nothing in the way, and the message goes on by itself. *)
GoOn ==
  /\ Running("message") /\ Head(tail).at = "start" /\ ~Protected
  /\ tail' = Tail(tail)
  /\ LET m == Head(tail).of
     IN  IF Dropped(m) THEN UNCHANGED <<pumping, begun>> ELSE Admit(m, FALSE)
  /\ UNCHANGED <<availability, queue, draining, faults, copies, arrived, forgotten, said, replied,
                 told, untold, turnedAway>>

(* It finds that the message has to wait; the drain may run before the row is written. *)
Hold ==
  /\ Running("message") /\ Head(tail).at = "start" /\ Protected
  /\ tail' = <<[Head(tail) EXCEPT !.at = "insert"]>> \o Tail(tail)
  /\ UNCHANGED <<availability, queue, draining, pumping, faults, copies, ghost>>

(* Mutant of Wake: a row that was just written waits for the next transition. *)
WakeNot == UNCHANGED draining

Wake == IF current = "available" THEN ScheduleDrain ELSE UNCHANGED draining

Rows(m) == IF Contains(queue, m) THEN queue ELSE Append(queue, m)

Insert ==
  /\ Running("message") /\ Head(tail).at = "insert"
  /\ tail' = Tail(tail)
  /\ queue' = Rows(Head(tail).of)
  /\ Wake
  /\ UNCHANGED <<availability, pumping, faults, copies, ghost>>

(* hasPending throws, or enqueue does, be it that only its answer was lost.  Nobody handles *)
(* the rejection: the message goes no further, its author hears nothing, and no drain is    *)
(* scheduled for the row that may be there.                                                 *)
AdmissionFails ==
  /\ Running("message") /\ Faulty
  /\ tail' = Tail(tail)
  /\ turnedAway' = turnedAway \cup {Head(tail).of}
  /\ \/ Head(tail).at = "start" /\ current = "available" /\ UNCHANGED queue
     \/ Head(tail).at = "insert" /\ queue' \in {queue, Rows(Head(tail).of)}
  /\ UNCHANGED <<availability, draining, pumping, copies, arrived, begun, forgotten, said, replied,
                 told, untold>>

-----------------------------------------------------------------------------
(* The drain *)

ListPending ==
  /\ drain.at = "list"
  /\ IF current = "available" /\ queue # <<>>
       THEN /\ drain' = [at |-> "next", batch |-> SubSeq(queue, 1, IF Len(queue) < BatchSize THEN Len(queue) ELSE BatchSize)]
            /\ UNCHANGED <<owed, retry>>
       ELSE DrainEnds(FALSE)
  /\ UNCHANGED <<availability, tail, queue, pumping, faults, copies, ghost>>

(* The deliverer.  A message that handleDiscordMessage drops counts as delivered. *)
DeliverNext ==
  /\ drain.at = "next"
  /\ IF drain.batch = <<>>
       THEN /\ drain' = [drain EXCEPT !.at = "list"]
            /\ UNCHANGED <<owed, retry, pumping, begun>>
       ELSE IF current # "available"
         THEN DrainEnds(FALSE) /\ UNCHANGED <<pumping, begun>>
         ELSE /\ UNCHANGED <<owed, retry>>
              /\ IF Dropped(Head(drain.batch))
                   THEN drain' = [drain EXCEPT !.at = "ack"] /\ UNCHANGED <<pumping, begun>>
                   ELSE drain' = [drain EXCEPT !.at = "await"] /\ Admit(Head(drain.batch), TRUE)
  /\ UNCHANGED <<availability, tail, queue, faults, copies, arrived, forgotten, said, replied,
                 told, untold, turnedAway>>

(* Where a message is in the durable queue. *)
Row(m) == CHOOSE i \in DOMAIN queue : queue[i] = m

Acknowledge ==
  /\ drain.at = "ack"
  /\ queue' = RemoveAt(queue, Row(Head(drain.batch)))
  /\ drain' = [at |-> "next", batch |-> Tail(drain.batch)]
  /\ UNCHANGED <<availability, tail, owed, retry, pumping, faults, copies, ghost>>

(* listPending or acknowledge throws. *)
DrainFails ==
  /\ drain.at = "ack" \/ (drain.at = "list" /\ current = "available")
  /\ Faulty
  /\ DrainEnds(TRUE)
  /\ UNCHANGED <<availability, tail, queue, pumping, copies, ghost>>

RetryTimer ==
  /\ retry
  /\ ScheduleDrain
  /\ UNCHANGED <<availability, tail, queue, pumping, faults, copies, ghost>>

-----------------------------------------------------------------------------
(* Two minutes pass, and the records in memory are pruned. *)
Forget ==
  /\ \/ \E m \in recent :
          /\ recent' = recent \ {m}
          /\ forgotten' = forgotten \cup {m}
          /\ UNCHANGED failed
     \/ \E m \in Message :
          /\ Resumable(m)
          /\ ~\E i \in DOMAIN prompts : prompts[i].resumes /\ prompts[i].m \in failed[m].keys
          /\ failed' = [k \in Message |-> IF k \in failed[m].keys THEN NoReply ELSE failed[k]]
          /\ forgotten' = forgotten \cup failed[m].keys
          /\ UNCHANGED recent
  /\ UNCHANGED <<availability, tail, queue, draining, prompts, pump, inFlight, faults, copies,
                 arrived, begun, said, replied, told, untold, turnedAway>>

(* The agent crashes and starts again: initialize makes it available, and its drain begins *)
(* when the deliverer is set.  What was not in the durable queue is gone, and the order of *)
(* its rows is all that is left of the order of arrival.                                   *)
Crash ==
  /\ faults.crash < MaxCrashes
  /\ faults' = [faults EXCEPT !.crash = @ + 1]
  /\ current' = "available" /\ ahead' = FALSE
  /\ act' = [a \in Activity |-> IF act[a] = "new" THEN "new" ELSE "done"]
  /\ tail' = <<>>
  /\ drain' = [at |-> "list", batch |-> <<>>] /\ owed' = FALSE /\ retry' = FALSE
  /\ prompts' = <<>> /\ pump' = Idle /\ inFlight' = {}
  /\ recent' = {} /\ failed' = [m \in Message |-> NoReply]
  /\ said' = [m \in Message |-> "no"] /\ forgotten' = {}
  /\ arrived' = queue /\ begun' = <<>> /\ turnedAway' = {}
  /\ UNCHANGED <<queue, copies, replied, told, untold>>

-----------------------------------------------------------------------------
Admission    == GoOn \/ Hold \/ Insert \/ AdmissionFails
Transition   == Publish \/ PublishFails
Pump         == TurnEnds \/ TurnFails \/ SendPart \/ SendFails \/ Finish \/ Notice
DrainStep    == ListPending \/ DeliverNext \/ Acknowledge \/ DrainFails

Next ==
  \/ \E m \in Message : Arrive(m)
  \/ \E a \in Activity : BeginActivity(a) \/ EndActivity(a)
  \/ Admission \/ Transition \/ Pump \/ DrainStep \/ RetryTimer \/ Forget \/ Crash

Spec == Init /\ [][Next]_vars

(* Activities end, awaited calls return or throw, the timer fires. *)
Fairness ==
  /\ \A a \in Activity : WF_vars(EndActivity(a))
  /\ WF_vars(Admission) /\ WF_vars(Transition)
  /\ WF_vars(Pump) /\ WF_vars(DrainStep) /\ WF_vars(RetryTimer)

FairSpec == Spec /\ Fairness

-----------------------------------------------------------------------------
(* Properties *)

TypeOK ==
  /\ current \in {"available", "idle", "do_not_disturb"} /\ ahead \in BOOLEAN
  /\ act \in [Activity -> Stages]
  /\ tail \in Seq([kind : {"begin", "end"}, of : Activity, at : {"start"}]
                  \cup [kind : {"message"}, of : Message, at : {"start", "insert"}])
  /\ queue \in Seq(Message) /\ IsInjective(queue)
  /\ drain \in [at : {"off", "list", "next", "await", "ack"}, batch : Seq(Message)]
  /\ owed \in BOOLEAN /\ retry \in BOOLEAN
  /\ prompts \in Seq(Entry)
  /\ pump \in [at : {"off", "turn", "send", "notice"}, bundle : Seq(Entry), reply : Checkpoint]
  /\ inFlight \subseteq Message /\ recent \subseteq Message
  /\ failed \in [Message -> Checkpoint]
  /\ copies \in [Message -> Nat] /\ said \in [Message -> {"no", "part", "whole", "again"}]
  /\ forgotten \subseteq Message /\ replied \subseteq Message /\ turnedAway \subseteq Message

(* A message is marked in flight only while the pump has an entry that will end it: no     *)
(* failed or resumed delivery leaves a mark behind that would refuse the message for good  *)
(* (finalizeDiscordDelivery over the keys of the checkpoint).                              *)
NoMarkLeft ==
  inFlight = pump.reply.keys \cup UNION {Claims(prompts[i].m) : i \in DOMAIN prompts}

(* Once the text of a reply to a message is out, nothing of it is sent again, although its *)
(* media fail, the message is delivered again and the drain tries again, as long as the    *)
(* process remembers it (deliverDiscordReply, the checkpoint).  A send that fails half-way *)
(* is repeated from the start.                                                             *)
TextNotRepeated == \A m \in Message \ forgotten : said[m] # "again"

Before(u, v) == \E k, l \in DOMAIN arrived : k < l /\ arrived[k] = u /\ arrived[l] = v

(* Messages have their first turn in the order in which they arrived, whether they waited  *)
(* in the durable queue or not (enqueueIfUnavailable: hasPending).  Only a message that    *)
(* was turned away may come later, by another copy or the row that was written all the     *)
(* same.                                                                                   *)
InOrder ==
  \A i, j \in DOMAIN begun :
    i < j /\ None \notin {begun[i], begun[j]} /\ begun[j] \notin turnedAway
      => Before(begun[i], begun[j])

(* A row leaves the durable queue only when the reply to its message has been delivered,   *)
(* if the gateway has delivered the message once (drain,                                   *)
(* companion-availability.test.ts:148).                                                    *)
AckAfterDelivery ==
  [][\A m \in Message : Contains(queue, m) /\ ~Contains(queue', m)
                          => m \in replied \/ copies[m] > 1]_vars

(* A state write has failed: the companion may stay unavailable for good. *)
Stuck == faults.write > 0

(* Every message is answered in the end, or its author told that it could not be, unless   *)
(* the agent dies before the message is in the durable queue, its admission has failed, or *)
(* the notice fails as well; if the gateway has delivered it once, a message in the        *)
(* durable queue is answered even then                                                     *)
(* (promptWhenIdle, pumpDiscordQueue, enqueueIfUnavailable).                               *)
Answered ==
  \A m \in Message :
    Contains(arrived, m) ~> \/ m \in replied \cup told \cup untold \cup turnedAway
                            \/ ~Contains(arrived, m) \/ Stuck
=============================================================================
