----------------------------- MODULE ClaimPump -----------------------------
(***************************************************************************)
(* The event loop of one BackgroundWorkSupervisor (supervisor.ts): who may *)
(* start a claim pass and when, how stop() waits for it, and the heartbeat *)
(* timer that claims and foreground leases share.  What a pass does to the *)
(* store is BackgroundWork; here a store call is an await that may return  *)
(* or throw, and the promise reactions that follow it are steps of their   *)
(* own, because other callers run between them.                            *)
(***************************************************************************)
EXTENDS Integers

CONSTANTS
    MaxClaims,      \* maxConcurrentSessions
    MaxForeground   \* bound: foreground leases at a time

ASSUME PumpAssumption == MaxClaims \in Nat \ {0} /\ MaxForeground \in Nat

VARIABLES
    tickPromise,    \* none, running, or settled but not yet cleared by its finally
    chained,        \* chainedTickPromise: none, waiting, or ready to fire
    body,           \* where runTick is
    running,        \* number of claims in execution
    stopping,
    stop,           \* how far stop() is
    leases,         \* number of foregroundLeases
    ready,          \* number of readyForegroundLeaseIds
    lost,           \* number of leases found expired and not yet ended
    ending,         \* number of endForeground calls waiting for the store
    timer,          \* the heartbeat timer is set
    owed            \* ghost: a tick() came while a pass was in flight

tickState == <<tickPromise, chained, body, owed>>
fg == <<leases, ready, lost, ending>>
pumpVars == <<tickPromise, chained, body, running, stopping, stop, leases, ready, lost, ending,
              timer, owed>>

PumpInit ==
    /\ tickPromise = "none" /\ chained = "none" /\ body = "idle" /\ owed = FALSE
    /\ running = 0 /\ stopping = FALSE /\ stop = "no"
    /\ leases = 0 /\ ready = 0 /\ lost = 0 /\ ending = 0 /\ timer = FALSE

-----------------------------------------------------------------------------
(* tick(), runTick and the promises around them. *)

BeginsPass ==
    /\ tickPromise' = "running" /\ body' = "recovering" /\ owed' = FALSE
    /\ UNCHANGED chained

\* Mutant of Tick: a request is deduplicated onto the pass in flight.
TickDeduplicated ==
    \/ stopping /\ UNCHANGED tickState
    \/ ~stopping /\ tickPromise = "none" /\ BeginsPass
    \/ ~stopping /\ tickPromise # "none" /\ owed' = TRUE /\ UNCHANGED <<tickPromise, chained, body>>

\* tick(): while a pass is in flight one follow-up is chained, and later
\* requests coalesce onto it.
Tick ==
    \/ stopping /\ UNCHANGED tickState
    \/ ~stopping /\ tickPromise = "none" /\ BeginsPass
    \/ /\ ~stopping /\ tickPromise # "none"
       /\ chained' = IF chained = "none" THEN "waiting" ELSE chained
       /\ owed' = TRUE
       /\ UNCHANGED <<tickPromise, body>>

\* An accepted enqueue or the scheduler asks for a pass.
Request ==
    /\ Tick
    /\ UNCHANGED <<running, stopping, stop, fg, timer>>

\* heartbeat, recoverExpired and purgeTerminal have returned.
RecoveryReturns ==
    /\ body = "recovering"
    /\ body' = "loop"
    /\ UNCHANGED <<tickPromise, chained, owed, running, stopping, stop, fg, timer>>

\* Mutant of CallClaimNext: the loop does not look at stopping.
CallClaimNextStopping ==
    /\ body = "loop" /\ running < MaxClaims
    /\ body' = "calling"
    /\ UNCHANGED <<tickPromise, chained, owed, running, stopping, stop, fg, timer>>

\* The loop's condition holds and claimNext is called.
CallClaimNext ==
    /\ body = "loop" /\ ~stopping /\ running < MaxClaims
    /\ body' = "calling"
    /\ UNCHANGED <<tickPromise, chained, owed, running, stopping, stop, fg, timer>>

\* A job comes back, perhaps to a supervisor that has begun to stop meanwhile.
Claimed ==
    /\ body = "calling"
    /\ body' = "loop" /\ running' = running + 1 /\ timer' = TRUE
    /\ UNCHANGED <<tickPromise, chained, owed, stopping, stop, fg>>

\* runTick returns (nothing to claim, no slot left, stopping) or throws.
PassEnds ==
    /\ \/ body \in {"recovering", "calling"}
       \/ body = "loop" /\ (stopping \/ running >= MaxClaims)
    /\ body' = "idle" /\ tickPromise' = "settled"
    /\ UNCHANGED <<chained, owed, running, stopping, stop, fg, timer>>

\* The finally of the pass: its promise is cleared, then its reactions may run.
ClearTick ==
    /\ tickPromise = "settled"
    /\ tickPromise' = "none"
    /\ chained' = IF chained = "waiting" THEN "ready" ELSE chained
    /\ UNCHANGED <<body, owed, running, stopping, stop, fg, timer>>

\* The chained reaction forgets itself and calls tick(), which may find that
\* another caller has started a pass first.
ChainedFires ==
    /\ chained = "ready"
    /\ \/ stopping /\ chained' = "none" /\ UNCHANGED <<tickPromise, body, owed>>
       \/ /\ ~stopping /\ tickPromise = "none"
          /\ chained' = "none"
          /\ tickPromise' = "running" /\ body' = "recovering" /\ owed' = FALSE
       \/ /\ ~stopping /\ tickPromise # "none"
          /\ chained' = "waiting" /\ UNCHANGED <<tickPromise, body, owed>>
    /\ UNCHANGED <<running, stopping, stop, fg, timer>>

\* Mutant of ClaimEnds: the last claim stops the timer whoever else needs it.
ClaimEndsForAll ==
    /\ running > 0
    /\ running' = running - 1
    /\ timer' = (timer /\ running' # 0)
    /\ Tick
    /\ UNCHANGED <<stopping, stop, fg>>

\* A claim's execution is over: the timer stops with the last user of it, and the
\* settlement asks for the next pass.
ClaimEnds ==
    /\ running > 0
    /\ running' = running - 1
    /\ timer' = (timer /\ ~(running' = 0 /\ leases = 0))
    /\ Tick
    /\ UNCHANGED <<stopping, stop, fg>>

-----------------------------------------------------------------------------
(* stop(), which its owner may retry after a failure. *)

\* Mutant of Stop: the pass in flight is not awaited.
StopOverlooksPass ==
    /\ stop \in {"no", "failed"}
    /\ stopping' = TRUE /\ owed' = FALSE
    /\ stop' = "chained"
    /\ UNCHANGED <<tickPromise, chained, body, running, fg, timer>>

Stop ==
    /\ stop \in {"no", "failed"}
    /\ stopping' = TRUE /\ owed' = FALSE
    /\ stop' = IF tickPromise = "none" THEN "chained" ELSE "tick"
    /\ UNCHANGED <<tickPromise, chained, body, running, fg, timer>>

\* The awaited pass has been cleared, or it has thrown.
StopAwaitsTick ==
    /\ stop = "tick" /\ tickPromise = "none"
    /\ stop' \in {"chained", "failed"}
    /\ UNCHANGED <<tickState, running, stopping, fg, timer>>

StopAwaitsChained ==
    /\ stop = "chained" /\ chained = "none"
    /\ stop' = "claims"
    /\ UNCHANGED <<tickState, running, stopping, fg, timer>>

\* The claims in execution settle, or the shutdown timeout fires first.
StopAwaitsClaims ==
    /\ stop = "claims"
    /\ stop' = "sweep"
    /\ UNCHANGED <<tickState, running, stopping, fg, timer>>

StopSweeps ==
    /\ stop = "sweep"
    /\ \/ stop' = "done" /\ timer' = FALSE
       \/ stop' = "failed" /\ UNCHANGED timer
    /\ UNCHANGED <<tickState, running, stopping, fg>>

-----------------------------------------------------------------------------
(* Foreground leases share the timer. *)

BeginForeground ==
    /\ leases + ending < MaxForeground
    /\ leases' = leases + 1
    /\ UNCHANGED <<tickState, running, stopping, stop, ready, lost, ending, timer>>

\* The lease row is inserted.
ForegroundReady ==
    /\ ready + lost < leases
    /\ ready' = ready + 1 /\ timer' = TRUE
    /\ UNCHANGED <<tickState, running, stopping, stop, leases, lost, ending>>

ForegroundFails ==
    /\ ready + lost < leases
    /\ leases' = leases - 1
    /\ UNCHANGED <<tickState, running, stopping, stop, ready, lost, ending, timer>>

\* endForeground forgets the lease, lost or not, and deletes its row.
EndForeground ==
    /\ \/ ready > 0 /\ ready' = ready - 1 /\ UNCHANGED lost
       \/ lost > 0 /\ lost' = lost - 1 /\ UNCHANGED ready
    /\ leases' = leases - 1 /\ ending' = ending + 1
    /\ UNCHANGED <<tickState, running, stopping, stop, timer>>

\* The row is deleted: the session's last lease stops the timer if nobody needs
\* it by now.  After an error, or with another lease of the session, it stays.
ForegroundEnded ==
    /\ ending > 0
    /\ ending' = ending - 1
    /\ timer' \in {timer, timer /\ ~(running = 0 /\ ready = 0)}
    /\ UNCHANGED <<tickState, running, stopping, stop, leases, ready, lost>>

\* A heartbeat finds a lease expired: it is never submitted again.
ForegroundLost ==
    /\ ready > 0
    /\ ready' = ready - 1 /\ lost' = lost + 1
    /\ timer' = (timer /\ ~(running = 0 /\ ready' = 0))
    /\ UNCHANGED <<tickState, running, stopping, stop, leases, ending>>

-----------------------------------------------------------------------------
ClaimPass == \/ RecoveryReturns \/ CallClaimNext \/ Claimed \/ PassEnds \/ ClearTick \/ ChainedFires

Stopping == \/ Stop \/ StopAwaitsTick \/ StopAwaitsChained \/ StopAwaitsClaims \/ StopSweeps

Foreground == \/ BeginForeground \/ ForegroundReady \/ ForegroundFails
              \/ EndForeground \/ ForegroundEnded \/ ForegroundLost

PumpNext == Request \/ ClaimEnds \/ ClaimPass \/ Stopping \/ Foreground

PumpSpec == PumpInit /\ [][PumpNext]_pumpVars

\* Store calls return or throw, promise reactions run and the shutdown timer
\* fires.  Nobody has to request a pass, to stop or to end a claim, and a pass
\* that keeps finding jobs need not end.
PumpFairSpec ==
    /\ PumpSpec
    /\ WF_pumpVars(RecoveryReturns \/ CallClaimNext \/ Claimed \/ PassEnds)
    /\ WF_pumpVars(ClearTick) /\ WF_pumpVars(ChainedFires)
    /\ WF_pumpVars(StopAwaitsTick) /\ WF_pumpVars(StopAwaitsChained)
    /\ WF_pumpVars(StopAwaitsClaims) /\ WF_pumpVars(StopSweeps)

-----------------------------------------------------------------------------
(* Properties. *)

\* The fields keep their shapes; the local number of claims is bounded by the
\* concurrency that the loop of runTick admits.
PumpTypeOK ==
    /\ tickPromise \in {"none", "running", "settled"}
    /\ chained \in {"none", "waiting", "ready"}
    /\ body \in {"idle", "recovering", "loop", "calling"}
    /\ running \in 0 .. MaxClaims
    /\ stopping \in BOOLEAN /\ owed \in BOOLEAN /\ timer \in BOOLEAN
    /\ stop \in {"no", "tick", "chained", "claims", "sweep", "done", "failed"}
    /\ leases \in 0 .. MaxForeground /\ ready \in 0 .. leases
    /\ lost \in 0 .. leases - ready /\ ending \in 0 .. MaxForeground - leases

\* No pass is in flight or still to come when the shutdown sweep requeues this
\* owner's claims and the store closes, also after a failed stop: a claim taken
\* later would stay leased to nobody (stop(): "no pass is left mid-flight when
\* the store closes").
SweepAfterLastPass ==
    stop \in {"claims", "sweep", "done"} => tickPromise = "none" /\ body = "idle"

\* While a claim runs or a foreground lease is ready somebody renews it: the timer
\* they share is set until the supervisor has stopped (ensureHeartbeat,
\* stopHeartbeat).
HeartbeatCoversLeases ==
    running > 0 \/ ready > 0 => timer \/ stop = "done"

\* A stop comes to its end however much work there is and whoever keeps asking
\* for passes: the pass in flight leaves its loop, the chained one does nothing,
\* and a claim that never returns only costs the timeout.
StopEnds == stopping ~> stop \in {"done", "failed"}

Contract == INSTANCE ClaimPumpContract
              WITH passing <- tickPromise # "none", owed <- owed, closed <- stopping

\* The pump keeps its contract: no overlapping passes, no pass once stopping, and
\* every request that came during a pass is followed by a pass that began after
\* it (tick(): "a request that arrives while one is in flight must not be
\* swallowed by it").
KeepsContract == Contract!Spec
=============================================================================
