-------------------------- MODULE OutboxDispatcher --------------------------
(***************************************************************************)
(* The outbox and its dispatcher: from the OutboxEvent row a domain change *)
(* commits, to the delivery jobs in the webhook-delivery queue.            *)
(*                                                                         *)
(* Every worker process polls on a timer.  The timer does not wait for the *)
(* previous cycle, so one process can have several cycles ("ticks") under  *)
(* way, and several worker replicas poll the same table.  A tick claims    *)
(* pending rows in one Postgres transaction (FOR UPDATE SKIP LOCKED),      *)
(* stamps dispatchedAt and commits; only then, outside the transaction, it *)
(* reads the subscribed endpoints of each claimed event and adds one job   *)
(* per endpoint to the queue in Redis.                                     *)
(*                                                                         *)
(* The hazards: two ticks claiming one row; a tick that dies or fails      *)
(* between the commit and the last queue.add; a shutdown that cuts a tick; *)
(* an endpoint that subscribes or unsubscribes while a tick fans out.      *)
(***************************************************************************)
EXTENDS Integers, FiniteSets

CONSTANTS
    Workers,     \* worker processes (replicas)
    Ticks,       \* dispatch cycles that can be under way at once
    Host,        \* the worker whose timer starts a given tick
    Events,      \* OutboxEvent rows, numbered in createdAt order
    Types,       \* TaskActivity event types
    TypeOf,      \* the type of each event
    Endpoints,   \* webhook endpoints of the organization
    BatchSize,   \* rows one tick may claim
    NoEvent, NoTick, NoEndpoint,
    Failing,     \* stores whose commands can fail in a run
    \* bounds of a run, not of the program
    MaxFaults,   \* failed Postgres or Redis commands
    MaxRestarts, \* crashes and shutdowns
    MaxChanges   \* subscription changes

ASSUME DispatcherConstants ==
    /\ Host \in [Ticks -> Workers]
    /\ Events \subseteq Nat
    /\ TypeOf \in [Events -> Types]
    /\ BatchSize \in Nat \ {0}
    /\ NoEvent \notin Events
    /\ NoTick \notin Ticks
    /\ NoEndpoint \notin Endpoints
    /\ Failing \subseteq {"postgres", "redis"}
    /\ MaxFaults \in Nat /\ MaxRestarts \in Nat /\ MaxChanges \in Nat

VARIABLES
    recorded,    \* events whose row is committed
    dispatched,  \* events whose dispatchedAt is not null
    attempts,    \* OutboxEvent.attempts
    listening,   \* enabled endpoints: the event types each is subscribed to
    jobs,        \* jobs added to the queue so far, per event and endpoint
    testing,     \* sendTestEvent requests that still have to add their job
    worker,      \* state of each worker process
    inFlight,    \* the tick whose promise startOutboxDispatcher remembers
    phase,       \* where each tick is
    batch,       \* claimed events the tick has not started on
    event,       \* the event the tick is fanning out
    targets,     \* endpoints of that event still to be enqueued
    faults, restarts, changes,
    \* history, read by no action
    steady,      \* endpoints subscribed ever since the event was recorded
    abandoned    \* claimed events a fault, a crash or an exit dropped

rows    == <<recorded, dispatched, attempts>>
ticking == <<phase, batch, event, targets>>
bounds  == <<faults, restarts, changes>>
history == <<steady, abandoned>>
vars == <<rows, listening, jobs, testing, worker, inFlight, ticking, bounds,
          history>>

Phases == {"idle", "claiming", "reading", "adding"}
WorkerStates == {"up", "stopping", "closing", "down"}

TypeOK ==
    /\ recorded \in SUBSET Events
    /\ dispatched \in SUBSET recorded
    /\ attempts \in [Events -> Nat]
    /\ listening \in [Endpoints -> SUBSET Types]
    /\ jobs \in [Events -> [Endpoints -> Nat]]
    /\ testing \in [Events -> Endpoints \cup {NoEndpoint}]
    /\ worker \in [Workers -> WorkerStates]
    /\ inFlight \in [Workers -> Ticks \cup {NoTick}]
    /\ phase \in [Ticks -> Phases]
    /\ batch \in [Ticks -> SUBSET recorded]
    /\ event \in [Ticks -> Events \cup {NoEvent}]
    /\ targets \in [Ticks -> SUBSET Endpoints]
    /\ faults \in Nat /\ restarts \in Nat /\ changes \in Nat
    /\ steady \in [Events -> SUBSET Endpoints]
    /\ abandoned \in SUBSET Events

Init ==
    /\ recorded = {} /\ dispatched = {}
    /\ attempts = [e \in Events |-> 0]
    /\ listening \in [Endpoints -> SUBSET Types]
    /\ jobs = [e \in Events |-> [p \in Endpoints |-> 0]]
    /\ testing = [e \in Events |-> NoEndpoint]
    /\ worker = [w \in Workers |-> "up"]
    /\ inFlight = [w \in Workers |-> NoTick]
    /\ phase = [t \in Ticks |-> "idle"]
    /\ batch = [t \in Ticks |-> {}]
    /\ event = [t \in Ticks |-> NoEvent]
    /\ targets = [t \in Ticks |-> {}]
    /\ faults = 0 /\ restarts = 0 /\ changes = 0
    /\ steady = [e \in Events |-> {}]
    /\ abandoned = {}

-----------------------------------------------------------------------------
(* The rows a claim sees.  Here and below, a definition marked FAULTY is a *)
(* wrong version of the next one.  No action uses it: it shows that some    *)
(* property notices the mistake, and the README says which one.             *)

Subscribed(e) == {p \in Endpoints : TypeOf[e] \in listening[p]}

\* Rows some open claim transaction holds a row lock on.
Locked == UNION {batch[t] : t \in {u \in Ticks : phase[u] = "claiming"}}

\* WHERE dispatchedAt IS NULL ... SKIP LOCKED.
\* FAULTY: without SKIP LOCKED; without the dispatchedAt condition; reading rows
\* of transactions that have not committed.
ClaimableLockedToo == recorded \ dispatched
ClaimableDispatchedToo == recorded \ Locked
ClaimableUncommitted == (Events \ dispatched) \ Locked
Claimable == (recorded \ dispatched) \ Locked

\* ORDER BY createdAt LIMIT BatchSize: as many rows as there are, the oldest.
\* FAULTY: waits until a whole batch is there.
OldestFullBatch(rs) == {{}} \cup {s \in SUBSET rs : Cardinality(s) = BatchSize}
Oldest(rs) ==
    {s \in SUBSET rs :
        /\ \A e \in s, f \in rs \ s : e < f
        /\ Cardinality(s) <= BatchSize
        /\ s = rs \/ Cardinality(s) = BatchSize}

\* The queue after one more add('deliver', {outboxEventId, webhookEndpointId}).
WithJob(e, p) == [jobs EXCEPT ![e][p] = @ + 1]

-----------------------------------------------------------------------------
(* The API: domain changes, subscriptions, test events.                    *)

\* activityService.record inside the caller's transaction, which commits.
RecordEvent(e) ==
    /\ e \notin recorded
    /\ recorded' = recorded \cup {e}
    /\ steady' = [steady EXCEPT ![e] = Subscribed(e)]
    /\ UNCHANGED <<dispatched, attempts, listening, jobs, testing, worker,
                   inFlight, ticking, bounds, abandoned>>

\* sendTestEvent writes a row that is already dispatched ...
CreateTestEvent(e, p) ==
    /\ e \notin recorded
    /\ recorded' = recorded \cup {e}
    /\ dispatched' = dispatched \cup {e}
    /\ testing' = [testing EXCEPT ![e] = p]
    /\ UNCHANGED <<attempts, listening, jobs, worker, inFlight, ticking,
                   bounds, history>>

\* ... and adds its one job itself, whatever the endpoint subscribes to.
EnqueueTestEvent(e) ==
    /\ testing[e] # NoEndpoint
    /\ jobs' = WithJob(e, testing[e])
    /\ testing' = [testing EXCEPT ![e] = NoEndpoint]
    /\ UNCHANGED <<rows, listening, worker, inFlight, ticking, bounds, history>>

\* Creating, updating, disabling or deleting an endpoint, as far as the
\* dispatcher's findMany tells: which types an enabled endpoint wants.
ChangeSubscription(p, types) ==
    /\ changes < MaxChanges
    /\ types # listening[p]
    /\ listening' = [listening EXCEPT ![p] = types]
    /\ steady' = [e \in Events |-> IF TypeOf[e] \in types
                                   THEN steady[e] ELSE steady[e] \ {p}]
    /\ changes' = changes + 1
    /\ UNCHANGED <<rows, jobs, testing, worker, inFlight, ticking, faults,
                   restarts, abandoned>>

-----------------------------------------------------------------------------
(* One dispatch cycle.                                                     *)

\* The promise of the tick resolves: nothing of it is left.
Finished(t) ==
    /\ phase' = [phase EXCEPT ![t] = "idle"]
    /\ batch' = [batch EXCEPT ![t] = {}]
    /\ event' = [event EXCEPT ![t] = NoEvent]
    /\ targets' = [targets EXCEPT ![t] = {}]

\* The timer fires: the claim transaction selects and locks its rows.  With
\* nothing to claim the cycle returns at once.
Claim(t) ==
    /\ worker[Host[t]] = "up"
    /\ phase[t] = "idle"
    /\ inFlight' = [inFlight EXCEPT ![Host[t]] = t]
    /\ \E s \in Oldest(Claimable) :
          IF s = {} THEN UNCHANGED ticking
          ELSE /\ phase' = [phase EXCEPT ![t] = "claiming"]
               /\ batch' = [batch EXCEPT ![t] = s]
               /\ UNCHANGED <<event, targets>>
    /\ UNCHANGED <<rows, listening, jobs, testing, worker, bounds, history>>

\* updateMany stamps the rows and the transaction commits.
CommitClaim(t) ==
    /\ phase[t] = "claiming"
    /\ dispatched' = dispatched \cup batch[t]
    /\ attempts' = [e \in Events |-> IF e \in batch[t] THEN attempts[e] + 1
                                     ELSE attempts[e]]
    /\ phase' = [phase EXCEPT ![t] = "reading"]
    /\ UNCHANGED <<recorded, listening, jobs, testing, worker, inFlight, batch,
                   event, targets, bounds, history>>

\* After an event is fanned out the loop goes on to the next, or ends.
Continue(t) ==
    /\ phase' = [phase EXCEPT ![t] = IF batch'[t] = {} THEN "idle" ELSE "reading"]
    /\ event' = [event EXCEPT ![t] = NoEvent]
    /\ targets' = [targets EXCEPT ![t] = {}]

\* findMany: the enabled endpoints subscribed to the next event of the batch.
ReadEndpoints(t) ==
    /\ phase[t] = "reading"
    /\ \E e \in batch[t] :
        /\ \A f \in batch[t] : e <= f
        /\ batch' = [batch EXCEPT ![t] = @ \ {e}]
        /\ IF Subscribed(e) = {} THEN Continue(t)
           ELSE /\ phase' = [phase EXCEPT ![t] = "adding"]
                /\ event' = [event EXCEPT ![t] = e]
                /\ targets' = [targets EXCEPT ![t] = Subscribed(e)]
    /\ UNCHANGED <<rows, listening, jobs, testing, worker, inFlight, bounds,
                   history>>

\* FAULTY: the endpoint is not crossed off; the loop stops after one endpoint.
AddJobAgain(t) ==
    /\ phase[t] = "adding"
    /\ \E p \in targets[t] : jobs' = WithJob(event[t], p)
    /\ UNCHANGED <<rows, listening, testing, worker, inFlight, ticking, bounds,
                   history>>
AddJobFirstOnly(t) ==
    /\ phase[t] = "adding"
    /\ \E p \in targets[t] : jobs' = WithJob(event[t], p)
    /\ batch' = batch
    /\ Continue(t)
    /\ UNCHANGED <<rows, listening, testing, worker, inFlight, bounds, history>>

\* queue.add for one endpoint; findMany gives them in no particular order.
AddJob(t) ==
    /\ phase[t] = "adding"
    /\ \E p \in targets[t] :
        /\ jobs' = WithJob(event[t], p)
        /\ batch' = batch
        /\ IF targets[t] = {p} THEN Continue(t)
           ELSE /\ targets' = [targets EXCEPT ![t] = @ \ {p}]
                /\ UNCHANGED <<phase, event>>
    /\ UNCHANGED <<rows, listening, testing, worker, inFlight, bounds, history>>

-----------------------------------------------------------------------------
(* What goes wrong.                                                        *)

\* Claimed events a tick still holds when it is cut short.
Held(t) == IF phase[t] \in {"reading", "adding"}
           THEN batch[t] \cup ({event[t]} \cap Events) ELSE {}

\* A Postgres command of the tick rejects.  In the claim transaction that is a
\* rollback: the rows are pending again.  Later it is findMany, and the catch
\* of the timer drops the rest of the batch.
DatabaseFault(t) ==
    /\ "postgres" \in Failing /\ faults < MaxFaults
    /\ phase[t] \in {"claiming", "reading"}
    /\ faults' = faults + 1
    /\ abandoned' = abandoned \cup Held(t)
    /\ Finished(t)
    /\ UNCHANGED <<rows, listening, jobs, testing, worker, inFlight, restarts,
                   changes, steady>>

\* The claim commits and its answer is lost: the rows are stamped, and the tick
\* ends as if they were not.
CommitAnswerLost(t) ==
    /\ "postgres" \in Failing /\ faults < MaxFaults
    /\ phase[t] = "claiming"
    /\ faults' = faults + 1
    /\ dispatched' = dispatched \cup batch[t]
    /\ attempts' = [e \in Events |-> IF e \in batch[t] THEN attempts[e] + 1
                                     ELSE attempts[e]]
    /\ abandoned' = abandoned \cup batch[t]
    /\ Finished(t)
    /\ UNCHANGED <<recorded, listening, jobs, testing, worker, inFlight,
                   restarts, changes, steady>>

\* queue.add rejects (commandTimeout).  The command may still reach Redis: a
\* timed-out EVALSHA stays in ioredis's queue and its job may be added.
QueueFault(t) ==
    /\ "redis" \in Failing /\ faults < MaxFaults
    /\ phase[t] = "adding"
    /\ faults' = faults + 1
    /\ abandoned' = abandoned \cup Held(t)
    /\ \/ UNCHANGED jobs
       \/ \E p \in targets[t] : jobs' = WithJob(event[t], p)
    /\ Finished(t)
    /\ UNCHANGED <<rows, listening, testing, worker, inFlight, restarts,
                   changes, steady>>

\* The queue.add of a test event rejects: the request answers 500.
TestQueueFault(e) ==
    /\ "redis" \in Failing /\ faults < MaxFaults
    /\ testing[e] # NoEndpoint
    /\ faults' = faults + 1
    /\ \/ UNCHANGED jobs
       \/ jobs' = WithJob(e, testing[e])
    /\ testing' = [testing EXCEPT ![e] = NoEndpoint]
    /\ UNCHANGED <<rows, listening, worker, inFlight, ticking, restarts,
                   changes, history>>

\* The process of w is gone: its ticks stop where they are.
Gone(w) ==
    LET mine == {t \in Ticks : Host[t] = w} IN
    /\ worker' = [worker EXCEPT ![w] = "down"]
    /\ inFlight' = [inFlight EXCEPT ![w] = NoTick]
    /\ abandoned' = abandoned \cup UNION {Held(t) : t \in mine}
    /\ phase' = [t \in Ticks |-> IF t \in mine THEN "idle" ELSE phase[t]]
    /\ batch' = [t \in Ticks |-> IF t \in mine THEN {} ELSE batch[t]]
    /\ event' = [t \in Ticks |-> IF t \in mine THEN NoEvent ELSE event[t]]
    /\ targets' = [t \in Ticks |-> IF t \in mine THEN {} ELSE targets[t]]

Crash(w) ==
    /\ restarts < MaxRestarts
    /\ worker[w] # "down"
    /\ restarts' = restarts + 1
    /\ Gone(w)
    /\ UNCHANGED <<rows, listening, jobs, testing, faults, changes, steady>>

\* SIGTERM: dispatcher.stop() clears the timer and awaits inFlight.
Stop(w) ==
    /\ restarts < MaxRestarts
    /\ worker[w] = "up"
    /\ restarts' = restarts + 1
    /\ worker' = [worker EXCEPT ![w] = "stopping"]
    /\ UNCHANGED <<rows, listening, jobs, testing, inFlight, ticking, faults,
                   changes, history>>

\* The awaited promise has resolved; shutdown goes on to close the queues'
\* workers and the connections.
StopResolves(w) ==
    /\ worker[w] = "stopping"
    /\ inFlight[w] \in Ticks => phase[inFlight[w]] = "idle"
    /\ worker' = [worker EXCEPT ![w] = "closing"]
    /\ UNCHANGED <<rows, listening, jobs, testing, inFlight, ticking, bounds,
                   history>>

Exit(w) ==
    /\ worker[w] = "closing"
    /\ Gone(w)
    /\ UNCHANGED <<rows, listening, jobs, testing, bounds, steady>>

\* Whoever runs the process starts it again.
Start(w) ==
    /\ worker[w] = "down"
    /\ worker' = [worker EXCEPT ![w] = "up"]
    /\ UNCHANGED <<rows, listening, jobs, testing, inFlight, ticking, bounds,
                   history>>

-----------------------------------------------------------------------------
Step(t) == Claim(t) \/ CommitClaim(t) \/ ReadEndpoints(t) \/ AddJob(t)

Next ==
    \/ \E e \in Events :
        \/ RecordEvent(e)
        \/ \E p \in Endpoints : CreateTestEvent(e, p)
        \/ EnqueueTestEvent(e)
        \/ TestQueueFault(e)
    \/ \E p \in Endpoints, types \in SUBSET Types : ChangeSubscription(p, types)
    \/ \E t \in Ticks :
        Step(t) \/ DatabaseFault(t) \/ CommitAnswerLost(t) \/ QueueFault(t)
    \/ \E w \in Workers :
        Crash(w) \/ Stop(w) \/ StopResolves(w) \/ Exit(w) \/ Start(w)

\* A promise that can go on goes on, timers keep firing, a shutdown finishes
\* and a stopped process is started again.  Nothing makes a client act, and
\* nothing makes a fault happen.
Fairness ==
    /\ \A t \in Ticks : WF_vars(Step(t))
    /\ \A w \in Workers : WF_vars(StopResolves(w) \/ Exit(w) \/ Start(w))

Spec == Init /\ [][Next]_vars
FairSpec == Spec /\ Fairness

-----------------------------------------------------------------------------
(* Properties.                                                             *)

\* FOR UPDATE SKIP LOCKED with dispatchedAt stamped in the same transaction: an
\* event is claimed by one tick and, however many replicas and overlapping
\* ticks poll the table, it is claimed once.
ClaimedOnce ==
    /\ \A e \in Events : attempts[e] <= 1
    /\ \A t, u \in Ticks : t # u => batch[t] \cap batch[u] = {}

\* The queue gets at most one delivery job for each event and endpoint: from
\* the dispatcher or from a test send, across faults, crashes and restarts.
AtMostOneJob == \A e \in Events, p \in Endpoints : jobs[e][p] <= 1

\* No tick has the event any more, and an endpoint that wanted it ever since it
\* was recorded has no job for it.
Lost(e) ==
    /\ e \in dispatched
    /\ \A t \in Ticks : e \notin Held(t)
    /\ \E p \in steady[e] : jobs[e][p] = 0

\* A dispatched event is lost to a subscribed endpoint only if a command of its
\* tick failed or its process went away after the claim: nothing else in the
\* dispatch cycle (other ticks, changing subscriptions) drops a job.
LostOnlyIfCutShort == \A e \in Events : Lost(e) => e \in abandoned

\* The comment on startOutboxDispatcher (outbox-dispatcher.ts:78): stop() resolves once any
\* in-flight tick has finished, "so shutdown never cuts a dispatch cycle in half".  Once
\* shutdown goes on, no tick of the process holds events that it has claimed.
ShutdownCutsNoTick ==
    \A t \in Ticks : worker[Host[t]] = "closing" => Held(t) = {}

\* docs/DEBT.md on the window between claim and enqueue: it "requires a crash
\* exactly there, not a common network failure".
LossNeedsCrash == (\E e \in Events : Lost(e)) => restarts > 0

\* No event stays pending for ever: again and again the outbox catches up, with
\* every recorded event handed over to every endpoint that kept wanting it,
\* except where the tick that had claimed the event was cut short.
CaughtUp ==
    \A e \in recorded : \A p \in steady[e] : jobs[e][p] > 0 \/ e \in abandoned

EventuallyHandedOver == []<>CaughtUp

\* The abstract outbox: every event is claimed at most once, and only after its
\* commit; each endpoint gets it at most once, and only after the claim.
Promise == INSTANCE OutboxPromise
ImplementsPromise == Promise!Spec
=============================================================================
