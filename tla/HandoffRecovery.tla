-------------------------- MODULE HandoffRecovery --------------------------
(***************************************************************************)
(* How a finished turn's background work reaches the job store for sure.   *)
(*                                                                         *)
(* A turn is recorded durably first and its jobs are enqueued after it, so *)
(* a crash or a database outage in between leaves a handoff that only the  *)
(* record knows.  Each scheduler tick runs one recovery                    *)
(* (handoff-recovery-runtime.ts): a scan of the whole history until one    *)
(* scan has been complete, and then a drain of a small retry index         *)
(* (session/manager/background-work-handoff-recovery.ts) that live turns   *)
(* and the scan fill with what they could not enqueue.                     *)
(*                                                                         *)
(* The retry index has no order here: a drain selects as many references   *)
(* as the index can hold, so the rotation of failed ones moves nothing in  *)
(* or out of its batch.                                                    *)
(***************************************************************************)
EXTENDS Integers, FiniteSets

CONSTANTS
    Turn,       \* turns with background work, numbered in the order of the scan
    Owner,      \* logical sessions that own the records
    OwnerOf,    \* [Turn -> Owner]
    Capacity,   \* BACKGROUND_WORK_HANDOFF_RECOVERY_BATCH_SIZE
    Refused,    \* turns whose batch the store always refuses
    MaxFaults   \* bound: failures, redactions, corruptions and restarts

ASSUME HandoffAssumption ==
    /\ Turn \subseteq Nat \ {0} /\ IsFiniteSet(Turn)
    /\ OwnerOf \in [Turn -> Owner]
    /\ Capacity \in Nat \ {0} /\ MaxFaults \in Nat
    /\ Refused \subseteq Turn

VARIABLES
    recorded,   \* turns with a durable TurnRecord
    accepted,   \* turns in the job store's ledger
    redacted,   \* turns with an active tombstone
    malformed,  \* records that fail their structural validation
    evidence,   \* what the journal of each owner gives a reader
    live,       \* turns between their record and the end of their enqueue
    pending,    \* the retry index
    snapshotRecovered, capacityBlocked, evidenceBlocked,    \* the latches
    proc,       \* abortRequested
    phase,      \* where the recovery in flight is
    rest,       \* what is left of its scan or of its batch
    at,         \* the turn it is enqueueing
    skip,       \* owners the scan passed over, and what it will do about them
    failed,     \* it has collected errors
    waived,     \* ghost: turns this process set aside, and said so
    stuck,      \* ghost: the index when the capacity latch was set
    faults

disk    == <<recorded, redacted, malformed, evidence>>
latches == <<snapshotRecovered, capacityBlocked, evidenceBlocked>>
scan    == <<rest, at, skip, failed>>
handoffVars == <<disk, accepted, live, pending, latches, proc, phase, scan,
                 waived, stuck, faults>>

NoTurn == 0
NoSkip == [blocked |-> {}, corrupt |-> {}, skipped |-> FALSE]

Fault == faults < MaxFaults /\ faults' = faults + 1

HandoffInit ==
    /\ recorded = {} /\ accepted = {} /\ redacted = {} /\ malformed = {}
    /\ evidence = [o \in Owner |-> "clean"]
    /\ live = {} /\ pending = {}
    /\ snapshotRecovered = FALSE /\ capacityBlocked = FALSE /\ evidenceBlocked = FALSE
    /\ proc = "up" /\ phase = "idle"
    /\ rest = {} /\ at = NoTurn /\ skip = NoSkip /\ failed = FALSE
    /\ waived = {} /\ stuck = {} /\ faults = 0

-----------------------------------------------------------------------------
(* The enqueue call and the retry index. *)

\* supervisor.enqueueBatch and recoverHandoff: the batch is in, and the caller knows.
Accepts(t) == t \notin Refused /\ accepted' = accepted \cup {t} /\ UNCHANGED faults

\* The call fails, before its commit or after it (a read that follows it throws).
Rejects(t) ==
    \/ t \in Refused /\ UNCHANGED <<accepted, faults>>
    \/ t \notin Refused /\ Fault /\ accepted' \in {accepted, accepted \cup {t}}

\* Mutant of HasRoom: the limit is off by one.
HasRoomForOneMore(t) == t \in pending \/ Cardinality(pending) <= Capacity

\* indexReference: a turn that is indexed already needs no room.
HasRoom(t) == t \in pending \/ Cardinality(pending) < Capacity

-----------------------------------------------------------------------------
(* Live turns: persistTurnRecord and what follows it, and a delivery replay. *)

RecordTurn(t) ==
    /\ t \in Turn \ recorded
    /\ recorded' = recorded \cup {t} /\ live' = live \cup {t}
    /\ UNCHANGED <<accepted, redacted, malformed, evidence, pending, latches, proc, phase,
                   scan, waived, stuck, faults>>

\* The turn is delivered again and its record is there: its jobs go out again.
ReplayTurn(t) ==
    /\ t \in recorded \ live /\ t \notin malformed
    /\ live' = live \cup {t}
    /\ UNCHANGED <<disk, accepted, pending, latches, proc, phase, scan, waived, stuck, faults>>

LiveEnqueue(t) ==
    /\ t \in live /\ Accepts(t)
    /\ live' = live \ {t}
    /\ UNCHANGED <<disk, pending, latches, proc, phase, scan, waived, stuck>>

\* The turn's failed enqueue goes to the index; when there is no room the
\* capacity error is raised to the turn.
LiveEnqueueFails(t) ==
    /\ t \in live /\ Rejects(t)
    /\ live' = live \ {t}
    /\ pending' = IF HasRoom(t) THEN pending \cup {t} ELSE pending
    /\ waived' = IF HasRoom(t) THEN waived ELSE waived \cup {t}
    /\ UNCHANGED <<disk, latches, proc, phase, scan, stuck>>

-----------------------------------------------------------------------------
(* One recovery: its beginning, the historical scan, the drain. *)

\* recoverPending: the batch is selected once, from the whole index.
BeginDrain ==
    /\ phase' = "drain" /\ failed' = FALSE /\ at' = NoTurn /\ skip' = NoSkip
    /\ rest' = pending

\* A latch, or a complete snapshot, keeps this recovery from scanning.  A scan
\* takes its own snapshot of the records.
BeginRecovery ==
    /\ proc = "up" /\ phase = "idle"
    /\ \/ /\ capacityBlocked \/ evidenceBlocked \/ snapshotRecovered
          /\ BeginDrain
       \/ /\ ~(capacityBlocked \/ evidenceBlocked \/ snapshotRecovered)
          /\ phase' = "scan" /\ rest' = recorded
          /\ at' = NoTurn /\ skip' = NoSkip /\ failed' = FALSE
    /\ UNCHANGED <<disk, accepted, live, pending, latches, proc, waived, stuck, faults>>

EndRecovery ==
    /\ phase' = "idle" /\ rest' = {} /\ at' = NoTurn /\ skip' = NoSkip /\ failed' = FALSE

\* The next record of the stream.  Its owner's journal decides: a redacted turn
\* and a retired owner are passed over for good, an unreadable or corrupt owner
\* is skipped with all its later records.
ScanRecord(t) ==
    LET o == OwnerOf[t]
        known == o \in skip.blocked
        clean == ~known /\ evidence[o] = "clean"
    IN /\ proc = "up" /\ phase = "scan" /\ t \notin malformed
       /\ t \in rest /\ \A u \in rest : t <= u
       /\ rest' = rest \ {t}
       /\ phase' = IF clean /\ t \notin redacted THEN "enqueue" ELSE "scan"
       /\ at' = IF clean /\ t \notin redacted THEN t ELSE NoTurn
       /\ skip' = IF known \/ evidence[o] \in {"clean", "retired"} THEN skip
                  ELSE [blocked |-> skip.blocked \cup {o},
                        corrupt |-> IF evidence[o] = "corrupt" THEN skip.corrupt \cup {o}
                                    ELSE skip.corrupt,
                        skipped |-> TRUE]
       /\ waived' = IF ~known /\ (evidence[o] = "retired" \/ (clean /\ t \in redacted))
                    THEN waived \cup {t} ELSE waived
       /\ UNCHANGED <<disk, accepted, live, pending, latches, proc, failed, stuck, faults>>

\* A structurally invalid record ends the scan, before it is reached or at it.
ScanPoisoned ==
    /\ proc = "up" /\ phase = "scan" /\ rest \cap malformed # {}
    /\ EndRecovery
    /\ evidenceBlocked' = TRUE
    /\ UNCHANGED <<disk, accepted, live, pending, snapshotRecovered, capacityBlocked, proc,
                   waived, stuck, faults>>

\* The stream fails otherwise (stale evidence, I/O, a worker that exits).
ScanFails ==
    /\ phase = "scan" /\ Fault
    /\ EndRecovery
    /\ UNCHANGED <<disk, accepted, live, pending, latches, proc, waived, stuck>>

ScanEnqueue ==
    /\ phase = "enqueue" /\ Accepts(at)
    /\ phase' = "scan" /\ at' = NoTurn
    /\ UNCHANGED <<disk, live, pending, latches, proc, rest, skip, failed, waived, stuck>>

\* A failed record goes to the index; without room the scan ends and latches.
ScanEnqueueFails ==
    /\ phase = "enqueue" /\ Rejects(at)
    /\ \/ /\ HasRoom(at)
          /\ pending' = pending \cup {at} /\ failed' = TRUE
          /\ phase' = "scan" /\ at' = NoTurn
          /\ UNCHANGED <<rest, skip, capacityBlocked, stuck>>
       \/ /\ ~HasRoom(at)
          /\ EndRecovery
          /\ capacityBlocked' = TRUE /\ stuck' = pending
          /\ UNCHANGED pending
    /\ UNCHANGED <<disk, live, snapshotRecovered, evidenceBlocked, proc, waived>>

\* Mutant of ScanEnds: a complete enumeration counts although owners were skipped.
ScanEndsSkipping ==
    /\ proc = "up" /\ phase = "scan" /\ rest = {}
    /\ snapshotRecovered' = TRUE
    /\ IF failed THEN EndRecovery
       ELSE IF skip.corrupt # {}
       THEN phase' = "dispose" /\ UNCHANGED scan
       ELSE BeginDrain
    /\ UNCHANGED <<disk, accepted, live, pending, capacityBlocked, evidenceBlocked, proc,
                   waived, stuck, faults>>

\* Mutant of ScanEnds: a scan with a failed record does not count as complete.
ScanEndsRepeating ==
    /\ proc = "up" /\ phase = "scan" /\ rest = {}
    /\ snapshotRecovered' = (~skip.skipped /\ ~failed)
    /\ IF failed THEN EndRecovery
       ELSE IF skip.corrupt # {}
       THEN phase' = "dispose" /\ UNCHANGED scan
       ELSE BeginDrain
    /\ UNCHANGED <<disk, accepted, live, pending, capacityBlocked, evidenceBlocked, proc,
                   waived, stuck, faults>>

\* The stream is exhausted.  Collected errors are thrown before any corrupt owner
\* is disposed of; the snapshot counts only when nobody was skipped.
ScanEnds ==
    /\ proc = "up" /\ phase = "scan" /\ rest = {}
    /\ snapshotRecovered' = ~skip.skipped
    /\ IF failed THEN EndRecovery
       ELSE IF skip.corrupt # {}
       THEN phase' = "dispose" /\ UNCHANGED scan
       ELSE BeginDrain
    /\ UNCHANGED <<disk, accepted, live, pending, capacityBlocked, evidenceBlocked, proc,
                   waived, stuck, faults>>

\* quarantineCorruptOwner repairs the journal or retires this generation of it;
\* a journal that has changed since makes it throw.
Dispose(o) ==
    /\ proc = "up" /\ phase = "dispose" /\ o \in skip.corrupt
    /\ \/ /\ evidence[o] = "corrupt"
          /\ \E e \in {"clean", "retired"} : evidence' = [evidence EXCEPT ![o] = e]
          /\ skip' = [skip EXCEPT !.corrupt = @ \ {o}]
          /\ UNCHANGED <<phase, rest, at, failed>>
       \/ /\ evidence[o] # "corrupt"
          /\ EndRecovery /\ UNCHANGED evidence
    /\ UNCHANGED <<recorded, accepted, redacted, malformed, live, pending, latches, proc,
                   waived, stuck, faults>>

DisposeFails ==
    /\ phase = "dispose" /\ Fault
    /\ EndRecovery
    /\ UNCHANGED <<disk, accepted, live, pending, latches, proc, waived, stuck>>

DisposeEnds ==
    /\ phase = "dispose" /\ skip.corrupt = {}
    /\ BeginDrain
    /\ UNCHANGED <<disk, accepted, live, pending, latches, proc, waived, stuck, faults>>

\* The canonical record is read again under the turn's eligibility fence: one
\* that is no longer eligible or valid leaves the index.
DrainRead(t) ==
    /\ proc = "up" /\ phase = "drain" /\ t \in rest
    /\ rest' = rest \ {t}
    /\ \/ /\ t \in redacted \cup malformed
          /\ pending' = pending \ {t} /\ waived' = waived \cup {t}
          /\ failed' = (failed \/ t \notin redacted)
          /\ UNCHANGED <<phase, at>>
       \/ /\ t \notin redacted \cup malformed
          /\ phase' = "fenced" /\ at' = t
          /\ UNCHANGED <<pending, waived, failed>>
    /\ UNCHANGED <<disk, accepted, live, latches, proc, skip, stuck, faults>>

DrainReadFails(t) ==
    /\ phase = "drain" /\ t \in rest /\ Fault
    /\ rest' = rest \ {t} /\ failed' = TRUE
    /\ UNCHANGED <<disk, accepted, live, pending, latches, proc, phase, at, skip, waived, stuck>>

DrainEnqueue ==
    /\ phase = "fenced" /\ Accepts(at)
    /\ pending' = pending \ {at}
    /\ phase' = "drain" /\ at' = NoTurn
    /\ UNCHANGED <<disk, live, latches, proc, rest, skip, failed, waived, stuck>>

DrainEnqueueFails ==
    /\ phase = "fenced" /\ Rejects(at)
    /\ phase' = "drain" /\ at' = NoTurn /\ failed' = TRUE
    /\ UNCHANGED <<disk, live, pending, latches, proc, rest, skip, waived, stuck>>

\* Mutant of DrainEnds: a failed drain opens the latch as well.
DrainEndsAnyway ==
    /\ phase = "drain" /\ rest = {}
    /\ capacityBlocked' = FALSE /\ evidenceBlocked' = (capacityBlocked /\ evidenceBlocked)
    /\ EndRecovery
    /\ UNCHANGED <<disk, accepted, live, pending, snapshotRecovered, proc, waived, stuck, faults>>

\* Mutant of DrainEnds: the evidence latch is left to a clean scan.
DrainEndsLatched ==
    /\ phase = "drain" /\ rest = {}
    /\ capacityBlocked' = (failed /\ capacityBlocked)
    /\ EndRecovery
    /\ UNCHANGED <<disk, accepted, live, pending, snapshotRecovered, evidenceBlocked, proc,
                   waived, stuck, faults>>

\* A drain without an error opens the latch that led to it; the next recovery
\* scans again.
DrainEnds ==
    /\ phase = "drain" /\ rest = {}
    /\ capacityBlocked' = (failed /\ capacityBlocked)
    /\ evidenceBlocked' = (evidenceBlocked /\ (failed \/ capacityBlocked))
    /\ EndRecovery
    /\ UNCHANGED <<disk, accepted, live, pending, snapshotRecovered, proc, waived, stuck, faults>>

-----------------------------------------------------------------------------
(* Shutdown and restart. *)

AbortRecovery ==
    /\ proc = "up" /\ Fault
    /\ proc' = "aborting"
    /\ UNCHANGED <<disk, accepted, live, pending, latches, phase, scan, waived, stuck>>

\* The signal is seen at the stream, before a disposal and before a reference.
RecoveryAborted ==
    /\ proc = "aborting"
    /\ phase \in {"scan", "dispose"} \/ (phase = "drain" /\ rest # {})
    /\ EndRecovery
    /\ UNCHANGED <<disk, accepted, live, pending, latches, proc, waived, stuck, faults>>

\* The process ends, by a crash or after its abort, and the next one starts.
Restart ==
    /\ \/ proc = "aborting" /\ UNCHANGED faults
       \/ proc = "up" /\ Fault
    /\ proc' = "up" /\ live' = {} /\ pending' = {}
    /\ snapshotRecovered' = FALSE /\ capacityBlocked' = FALSE /\ evidenceBlocked' = FALSE
    /\ EndRecovery
    /\ waived' = {} /\ stuck' = {}
    /\ UNCHANGED <<disk, accepted>>

-----------------------------------------------------------------------------
(* What happens to the records and journals meanwhile. *)

\* Mutant of Redact: the tombstone does not wait for the turn's fence.
RedactUnfenced(t) ==
    /\ t \in recorded \ redacted /\ Fault
    /\ redacted' = redacted \cup {t}
    /\ UNCHANGED <<recorded, accepted, malformed, evidence, live, pending, latches, proc,
                   phase, scan, waived, stuck>>

\* A tombstone is written under the turn's eligibility fence.
Redact(t) ==
    /\ t \in recorded \ redacted /\ Fault
    /\ ~(phase = "fenced" /\ at = t)
    /\ redacted' = redacted \cup {t}
    /\ UNCHANGED <<recorded, accepted, malformed, evidence, live, pending, latches, proc,
                   phase, scan, waived, stuck>>

Restore(t) ==
    /\ t \in redacted
    /\ ~(phase = "fenced" /\ at = t)
    /\ redacted' = redacted \ {t}
    /\ UNCHANGED <<recorded, accepted, malformed, evidence, live, pending, latches, proc,
                   phase, scan, waived, stuck, faults>>

Malform(t) ==
    /\ t \in recorded \ malformed /\ Fault
    /\ malformed' = malformed \cup {t}
    /\ UNCHANGED <<recorded, accepted, redacted, evidence, live, pending, latches, proc,
                   phase, scan, waived, stuck>>

Mend(t) ==
    /\ t \in malformed
    /\ malformed' = malformed \ {t}
    /\ UNCHANGED <<recorded, accepted, redacted, evidence, live, pending, latches, proc,
                   phase, scan, waived, stuck, faults>>

\* A journal that is appended to while it is read is unreadable for a while; a
\* corrupt one stays so until it is disposed of; an append ends a retirement.
Degrade(o) ==
    /\ Fault
    /\ \E e \in {"unreadable", "corrupt"} :
         /\ evidence[o] # e
         /\ evidence' = [evidence EXCEPT ![o] = e]
    /\ UNCHANGED <<recorded, accepted, redacted, malformed, live, pending, latches, proc,
                   phase, scan, waived, stuck>>

Settle(o) ==
    /\ evidence[o] = "unreadable"
    /\ evidence' = [evidence EXCEPT ![o] = "clean"]
    /\ UNCHANGED <<recorded, accepted, redacted, malformed, live, pending, latches, proc,
                   phase, scan, waived, stuck, faults>>

-----------------------------------------------------------------------------
Recovery ==
    \/ (\E t \in Turn : ScanRecord(t)) \/ ScanPoisoned \/ ScanEnqueue \/ ScanEnqueueFails \/ ScanEnds
    \/ (\E o \in Owner : Dispose(o)) \/ DisposeEnds
    \/ (\E t \in Turn : DrainRead(t)) \/ DrainEnqueue \/ DrainEnqueueFails \/ DrainEnds
    \/ RecoveryAborted

LiveTurn(t) == LiveEnqueue(t) \/ LiveEnqueueFails(t)

HandoffNext ==
    \/ \E t \in Turn : \/ RecordTurn(t) \/ ReplayTurn(t) \/ LiveTurn(t)
                       \/ DrainReadFails(t)
                       \/ Redact(t) \/ Restore(t) \/ Malform(t) \/ Mend(t)
    \/ \E o \in Owner : Degrade(o) \/ Settle(o)
    \/ BeginRecovery \/ Recovery \/ ScanFails \/ DisposeFails
    \/ AbortRecovery \/ Restart

HandoffSpec == HandoffInit /\ [][HandoffNext]_handoffVars

\* The scheduler ticks, a recovery and a turn's enqueue go on, an append to a
\* journal comes to an end, and a process that is stopped is started again.
Fairness ==
    /\ WF_handoffVars(BeginRecovery) /\ WF_handoffVars(Recovery)
    /\ \A t \in Turn : WF_handoffVars(LiveTurn(t))
    /\ \A o \in Owner : WF_handoffVars(Settle(o))
    /\ WF_handoffVars(Restart /\ proc = "aborting")

HandoffFairSpec == HandoffSpec /\ Fairness

-----------------------------------------------------------------------------
(* Properties. *)

\* The variables keep the shape of the maps and files they stand for, and the
\* retry index never outgrows the batch that drains it (indexReference).
HandoffTypeOK ==
    /\ recorded \subseteq Turn /\ accepted \subseteq Turn
    /\ redacted \subseteq Turn /\ malformed \subseteq Turn
    /\ evidence \in [Owner -> {"clean", "unreadable", "corrupt", "retired"}]
    /\ live \subseteq Turn
    /\ pending \subseteq Turn /\ Cardinality(pending) <= Capacity
    /\ snapshotRecovered \in BOOLEAN /\ capacityBlocked \in BOOLEAN
    /\ evidenceBlocked \in BOOLEAN
    /\ proc \in {"up", "aborting"}
    /\ phase \in {"idle", "scan", "enqueue", "dispose", "drain", "fenced"}
    /\ rest \subseteq Turn /\ at \in Turn \cup {NoTurn}
    /\ skip \in [blocked : SUBSET Owner, corrupt : SUBSET Owner, skipped : BOOLEAN]
    /\ failed \in BOOLEAN
    /\ waived \subseteq Turn /\ stuck \subseteq Turn /\ faults \in 0 .. MaxFaults

\* A durable turn whose jobs the store does not have is never forgotten: its turn
\* is still enqueueing it, or the retry index has it, or a scan is still to come,
\* unless this process set it aside and said so (post-turn-scheduling.ts: "A
\* crash on either side is recoverable").
NothingForgotten ==
    snapshotRecovered => recorded \subseteq accepted \cup live \cup pending \cup waived

\* The capacity latch opens only when the references that filled the index have
\* been accepted or set aside, however many live turns use the index meanwhile
\* (handoff-recovery-runtime.ts: "A successful drain therefore makes one later
\* durable rescan safe; a failed drain throws and leaves the latch in place").
LatchHeldUntilDrained ==
    [][capacityBlocked /\ ~capacityBlocked'
         => stuck \cap pending' \subseteq accepted \cup waived]_handoffVars

\* A drain never enqueues the work of a redacted turn, although the redaction may
\* come between its read of the record and its enqueue (the eligibility fence).
RedactionFenced ==
    [][phase = "fenced" /\ at \in accepted' \ accepted => at \notin redacted]_handoffVars

\* A turn the store refuses for ever fails in every scan, and a scan throws what it
\* collected before it disposes of a corrupt owner (handoff-recovery-runtime.ts:145).
RefusalBlocksDisposal ==
    /\ \E t \in recorded \cap Refused : t \notin redacted /\ evidence[OwnerOf[t]] = "clean"
    /\ \E o \in Owner : evidence[o] = "corrupt"

\* Such a turn fails in every drain too, so that a latch which waits for a drain
\* without an error stays closed until the next start.
RefusalKeepsLatch == (capacityBlocked \/ evidenceBlocked) /\ pending \cap Refused # {}

\* Once the outages are over every durable turn that the store does not refuse
\* reaches it, is set aside or is redacted (recover, run), unless for good a
\* malformed record ends every scan or a refused turn is in the way.
HandoffsRecovered ==
    <>[](malformed = {} /\ ~RefusalBlocksDisposal /\ ~RefusalKeepsLatch)
      => \A t \in Turn \ Refused :
           t \in recorded ~> t \in accepted \cup waived \cup redacted

\* The history is not read for ever, although records may fail for ever: those are
\* left to the retry index "instead of forcing the next scheduler tick to enumerate
\* the full TurnRecord history again" (tick-runtime.ts), unless malformed records
\* keep coming up or a refused turn keeps a corrupt owner from being disposed of.
EnumerationEnds ==
    <>[](malformed = {} /\ ~RefusalBlocksDisposal) => <>[](phase \notin {"scan", "enqueue"})

=============================================================================
