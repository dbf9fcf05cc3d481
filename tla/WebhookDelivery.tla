--------------------------- MODULE WebhookDelivery ---------------------------
(***************************************************************************)
(* Delivery of webhook jobs: from a job waiting in the BullMQ queue to a   *)
(* 2xx answer of the receiver, a skip, or an exhausted chain of attempts,  *)
(* with the failure counter that disables an endpoint by itself and the    *)
(* administrators who enable, disable and remove endpoints meanwhile.      *)
(*                                                                         *)
(* The worker runs up to ten handlers at once.  A handler reads the        *)
(* endpoint row, POSTs for seconds, writes a WebhookDelivery row, and may  *)
(* reset the counter on what it READ at the start.  The 'failed' listener  *)
(* increments the counter and disables the endpoint in two statements.     *)
(* Every await is a step here, so that anything can happen in between.     *)
(*                                                                         *)
(* BullMQ (attemptsMade, waiting/active/completed/failed, stalled jobs) is *)
(* external, modelled from how the worker uses it.                         *)
(***************************************************************************)
EXTENDS Integers, FiniteSets

CONSTANTS
    Jobs,           \* delivery jobs, one per (event, endpoint)
    Endpoints,      \* webhook endpoints
    Target,         \* the endpoint of each job
    MaxAttempts,    \* WEBHOOK_DELIVERY_JOB_OPTIONS.attempts
    MaxFailures,    \* WEBHOOK_MAX_CONSECUTIVE_FAILURES
    \* bounds of a run, not of the program
    MaxFaults,      \* failed Postgres commands
    MaxCrashes,     \* crashes and shutdowns of the worker: at most one, since
                    \* BullMQ gives up on a job found stalled twice
    MaxChanges      \* administrators' requests

ASSUME DeliveryConstants ==
    /\ Target \in [Jobs -> Endpoints]
    /\ MaxAttempts \in Nat \ {0} /\ MaxFailures \in Nat \ {0}
    /\ MaxFaults \in Nat /\ MaxCrashes \in {0, 1} /\ MaxChanges \in Nat

VARIABLES
    \* the WebhookEndpoint rows
    present, enabled, reason, failures,
    deliveries,  \* WebhookDelivery rows, per job and attempt number
    \* the queue
    queue, attemptsMade,
    stalls,      \* times the job was found stalled, its worker gone
    \* the handler of an active job
    step, seen, outcome,
    chain,       \* recordChainExhausted, run by the 'failed' listener
    accepted,    \* jobs whose event the receiver has taken in
    faults, crashes, changes,
    \* history, read by no action
    streak,      \* exhausted chains counted since the last successful delivery
    chances,     \* exhausted chains counted since an administrator re-enabled it
    undisabled   \* a chain that should have disabled the endpoint was cut short

row     == <<present, enabled, reason, failures>>
handler == <<step, seen, outcome>>
bounds  == <<faults, crashes, changes>>
history == <<streak, chances, undisabled>>
job     == <<queue, attemptsMade, stalls>>
vars == <<row, deliveries, job, handler, chain, accepted,
          bounds, history>>

QueueStates == {"waiting", "active", "completed", "failed"}
Steps == {"idle", "posting", "recording", "resetting", "returning"}
Outcomes == {"none", "ok", "error", "skipped"}
Attempts == 1..MaxAttempts

EndpointRows ==
    /\ present \in [Endpoints -> BOOLEAN]
    /\ enabled \in [Endpoints -> BOOLEAN]
    /\ reason \in [Endpoints -> {"none", "auto"}]
    /\ failures \in [Endpoints -> Nat]

DeliveryRows == deliveries \in [Jobs -> [Attempts -> Nat]]

TypeOK ==
    /\ EndpointRows /\ DeliveryRows
    /\ queue \in [Jobs -> QueueStates]
    /\ attemptsMade \in [Jobs -> 0..MaxAttempts]
    /\ step \in [Jobs -> Steps]
    /\ seen \in [Jobs -> Nat]
    /\ outcome \in [Jobs -> Outcomes]
    /\ chain \in [Jobs -> {"none", "counting", "disabling"}]
    /\ accepted \in SUBSET Jobs
    /\ faults \in Nat /\ crashes \in Nat /\ changes \in Nat
    /\ stalls \in [Jobs -> Nat]
    /\ streak \in [Endpoints -> Nat]
    /\ chances \in [Endpoints -> Nat]
    /\ undisabled \in SUBSET Endpoints

Init ==
    /\ present = [p \in Endpoints |-> TRUE]
    /\ enabled = [p \in Endpoints |-> TRUE]
    /\ reason = [p \in Endpoints |-> "none"]
    /\ failures = [p \in Endpoints |-> 0]
    /\ deliveries = [j \in Jobs |-> [n \in Attempts |-> 0]]
    /\ queue = [j \in Jobs |-> "waiting"]
    /\ attemptsMade = [j \in Jobs |-> 0]
    /\ step = [j \in Jobs |-> "idle"]
    /\ seen = [j \in Jobs |-> 0]
    /\ outcome = [j \in Jobs |-> "none"]
    /\ chain = [j \in Jobs |-> "none"]
    /\ accepted = {}
    /\ faults = 0 /\ crashes = 0 /\ changes = 0
    /\ stalls = [j \in Jobs |-> 0]
    /\ streak = [p \in Endpoints |-> 0]
    /\ chances = [p \in Endpoints |-> 0]
    /\ undisabled = {}

-----------------------------------------------------------------------------
(* deliverWebhookAttempt, from the queue taking the job to its return.  A   *)
(* definition marked FAULTY is a wrong version of the next one; no action   *)
(* uses it.                                                                 *)

\* The handler is done, with the given result or with a thrown error.
Result(j, o) ==
    /\ step' = [step EXCEPT ![j] = "returning"]
    /\ outcome' = [outcome EXCEPT ![j] = o]
    /\ seen' = [seen EXCEPT ![j] = 0]

\* The job becomes active and its handler reads the event (never deleted) and
\* the endpoint.  A removed or disabled endpoint is a vacuous success.
StartAttempt(j) ==
    LET p == Target[j] IN
    /\ queue[j] = "waiting"
    /\ queue' = [queue EXCEPT ![j] = "active"]
    /\ IF ~present[p] \/ ~enabled[p]
       THEN Result(j, "skipped")
       ELSE /\ step' = [step EXCEPT ![j] = "posting"]
            /\ seen' = [seen EXCEPT ![j] = failures[p]]
            /\ outcome' = [outcome EXCEPT ![j] = "none"]
    /\ UNCHANGED <<row, deliveries, attemptsMade, stalls, chain, accepted, bounds, history>>

\* FAULTY: a refused POST is taken for a success.
PostIgnoringStatus(j) ==
    /\ step[j] = "posting"
    /\ \E taken \in BOOLEAN :
          accepted' = IF taken THEN accepted \cup {j} ELSE accepted
    /\ outcome' = [outcome EXCEPT ![j] = "ok"]
    /\ step' = [step EXCEPT ![j] = "recording"]
    /\ UNCHANGED <<row, deliveries, job, seen, chain, bounds, history>>

\* fetch and the reading of the answer.  An error answer, a redirect, a timeout
\* or a broken connection is an error, whether or not the receiver took the
\* event in.
Post(j) ==
    /\ step[j] = "posting"
    /\ \E ok, taken \in BOOLEAN :
        /\ ok => taken
        /\ accepted' = IF taken THEN accepted \cup {j} ELSE accepted
        /\ outcome' = [outcome EXCEPT ![j] = IF ok THEN "ok" ELSE "error"]
    /\ step' = [step EXCEPT ![j] = "recording"]
    /\ UNCHANGED <<row, deliveries, job, seen, chain, bounds, history>>

WithDelivery(j) == [deliveries EXCEPT ![j][attemptsMade[j] + 1] = @ + 1]

\* FAULTY: only failed attempts are logged.
RecordDeliveryOfFailure(j) ==
    /\ step[j] = "recording"
    /\ deliveries' = IF outcome[j] = "error" THEN WithDelivery(j) ELSE deliveries
    /\ Result(j, outcome[j])
    /\ UNCHANGED <<row, job, chain, accepted, bounds, history>>

\* webhookDelivery.create.  With the endpoint removed meanwhile the foreign key
\* rejects the row and the handler throws.
RecordDelivery(j) ==
    LET logged == present[Target[j]]
        ok == logged /\ outcome[j] = "ok" IN
    /\ step[j] = "recording"
    /\ deliveries' = IF logged THEN WithDelivery(j) ELSE deliveries
    /\ IF ok /\ seen[j] # 0
       THEN /\ step' = [step EXCEPT ![j] = "resetting"]
            /\ UNCHANGED <<seen, outcome, streak>>
       ELSE /\ Result(j, IF logged THEN outcome[j] ELSE "error")
            /\ streak' = [streak EXCEPT ![Target[j]] = IF ok THEN 0 ELSE @]
    /\ UNCHANGED <<row, job, chain, accepted, bounds, chances, undisabled>>

\* A success resets the counter it read as not zero; the update of a removed
\* endpoint throws.
ResetFailures(j) ==
    LET p == Target[j] IN
    /\ step[j] = "resetting"
    /\ failures' = [failures EXCEPT ![p] = IF present[p] THEN 0 ELSE @]
    /\ streak' = [streak EXCEPT ![p] = IF present[p] THEN 0 ELSE @]
    /\ Result(j, IF present[p] THEN outcome[j] ELSE "error")
    /\ UNCHANGED <<present, enabled, reason, deliveries, job, chain, accepted, bounds,
                   chances, undisabled>>

\* A Postgres command of the handler rejects, done or not: one of the two reads
\* (before the POST), the create or the update.  The handler throws.
DatabaseFault(j) ==
    /\ faults < MaxFaults
    /\ faults' = faults + 1
    /\ \/ step[j] \in {"posting", "recording", "resetting"} /\ UNCHANGED <<deliveries, failures>>
       \/ step[j] = "recording" /\ present[Target[j]]
          /\ deliveries' = WithDelivery(j) /\ UNCHANGED failures
       \/ step[j] = "resetting" /\ present[Target[j]]
          /\ failures' = [failures EXCEPT ![Target[j]] = 0] /\ UNCHANGED deliveries
    /\ Result(j, "error")
    /\ UNCHANGED <<present, enabled, reason, job, chain, accepted, crashes, changes,
                   history>>

\* FAULTY: a failed attempt is not counted; the last attempt is retried too; any
\* failed attempt counts as an exhausted chain; a failed job is not put back.
ReturnWithoutCounting(j) ==
    /\ step[j] = "returning"
    /\ queue' = [queue EXCEPT ![j] = IF outcome[j] = "error" THEN "waiting" ELSE "completed"]
    /\ step' = [step EXCEPT ![j] = "idle"]
    /\ UNCHANGED <<row, deliveries, attemptsMade, stalls, seen, outcome, chain, accepted,
                   bounds, history>>
ReturnRetryingAlways(j) ==
    /\ step[j] = "returning"
    /\ queue' = [queue EXCEPT ![j] = IF outcome[j] = "error" THEN "waiting" ELSE "completed"]
    /\ attemptsMade' = [attemptsMade EXCEPT ![j] = @ + 1]
    /\ step' = [step EXCEPT ![j] = "idle"]
    /\ UNCHANGED <<row, deliveries, stalls, seen, outcome, chain, accepted, bounds, history>>
ReturnCountingAttempts(j) ==
    LET n == attemptsMade[j] + 1
        error == outcome[j] = "error" IN
    /\ step[j] = "returning"
    /\ queue' = [queue EXCEPT ![j] = IF ~error THEN "completed"
                                     ELSE IF n < MaxAttempts THEN "waiting" ELSE "failed"]
    /\ attemptsMade' = [attemptsMade EXCEPT ![j] = n]
    /\ chain' = [chain EXCEPT ![j] = IF error THEN "counting" ELSE @]
    /\ step' = [step EXCEPT ![j] = "idle"]
    /\ UNCHANGED <<row, deliveries, stalls, seen, outcome, accepted, bounds, history>>

ReturnLeavingActive(j) ==
    /\ step[j] = "returning"
    /\ queue' = [queue EXCEPT ![j] = IF outcome[j] = "error" THEN "active" ELSE "completed"]
    /\ attemptsMade' = [attemptsMade EXCEPT ![j] = @ + 1]
    /\ step' = [step EXCEPT ![j] = "idle"]
    /\ UNCHANGED <<row, deliveries, stalls, seen, outcome, chain, accepted, bounds, history>>

\* processWebhookDelivery returns or throws and the queue notes it.  After the
\* last attempt the job has failed and the 'failed' listener starts counting.
Return(j) ==
    LET n == attemptsMade[j] + 1
        error == outcome[j] = "error"
        exhausted == error /\ n >= MaxAttempts IN
    /\ step[j] = "returning"
    /\ queue' = [queue EXCEPT ![j] = IF ~error THEN "completed"
                                     ELSE IF exhausted THEN "failed" ELSE "waiting"]
    /\ attemptsMade' = [attemptsMade EXCEPT ![j] = n]
    /\ chain' = [chain EXCEPT ![j] = IF exhausted THEN "counting" ELSE @]
    /\ step' = [step EXCEPT ![j] = "idle"]
    /\ UNCHANGED <<row, deliveries, stalls, seen, outcome, accepted, bounds, history>>

-----------------------------------------------------------------------------
(* recordChainExhausted, two statements the listener does not wait for.     *)

ChainEnds(j) == chain' = [chain EXCEPT ![j] = "none"]

\* FAULTY: one chain too many.
CountExhaustedLate(j) ==
    LET p == Target[j] IN
    /\ chain[j] = "counting" /\ present[p]
    /\ failures' = [failures EXCEPT ![p] = @ + 1]
    /\ streak' = [streak EXCEPT ![p] = @ + 1]
    /\ chances' = [chances EXCEPT ![p] = @ + 1]
    /\ IF enabled[p] /\ failures[p] + 1 > MaxFailures
       THEN chain' = [chain EXCEPT ![j] = "disabling"] ELSE ChainEnds(j)
    /\ UNCHANGED <<present, enabled, reason, deliveries, job, handler, accepted, bounds,
                   undisabled>>

\* The atomic increment, and the check of the row it returned.
CountExhausted(j) ==
    LET p == Target[j] IN
    /\ chain[j] = "counting" /\ present[p]
    /\ failures' = [failures EXCEPT ![p] = @ + 1]
    /\ streak' = [streak EXCEPT ![p] = @ + 1]
    /\ chances' = [chances EXCEPT ![p] = @ + 1]
    /\ IF enabled[p] /\ failures[p] + 1 >= MaxFailures
       THEN chain' = [chain EXCEPT ![j] = "disabling"] ELSE ChainEnds(j)
    /\ UNCHANGED <<present, enabled, reason, deliveries, job, handler, accepted, bounds,
                   undisabled>>

\* The second update, by id alone.
DisableEndpoint(j) ==
    LET p == Target[j] IN
    /\ chain[j] = "disabling" /\ present[p]
    /\ enabled' = [enabled EXCEPT ![p] = FALSE]
    /\ reason' = [reason EXCEPT ![p] = "auto"]
    /\ undisabled' = undisabled \ {p}
    /\ ChainEnds(j)
    /\ UNCHANGED <<present, failures, deliveries, job, handler, accepted, bounds, streak,
                   chances>>

\* The endpoint is gone: the update throws and the listener only logs it.
ChainWithoutEndpoint(j) ==
    /\ chain[j] # "none" /\ ~present[Target[j]]
    /\ ChainEnds(j)
    /\ UNCHANGED <<row, deliveries, job, handler, accepted, bounds, history>>

CutShort(js) == undisabled' = undisabled \cup {Target[j] : j \in {i \in js : chain[i] = "disabling"}}

\* One of the two updates rejects; the listener logs it and the chain is over.
ChainFault(j) ==
    /\ faults < MaxFaults
    /\ chain[j] # "none"
    /\ faults' = faults + 1
    /\ CutShort({j})
    /\ ChainEnds(j)
    /\ UNCHANGED <<row, deliveries, job, handler, accepted, crashes, changes, streak,
                   chances>>

-----------------------------------------------------------------------------
(* The worker process and the administrators.                              *)

\* The process dies and is started again.  Its active jobs are found stalled and
\* go back to the queue; an attempt under way was never counted.
Crash ==
    /\ crashes < MaxCrashes
    /\ crashes' = crashes + 1
    /\ queue' = [j \in Jobs |-> IF queue[j] = "active" THEN "waiting" ELSE queue[j]]
    /\ stalls' = [j \in Jobs |-> stalls[j] + IF queue[j] = "active" THEN 1 ELSE 0]
    /\ step' = [j \in Jobs |-> "idle"]
    /\ seen' = [j \in Jobs |-> 0]
    /\ chain' = [j \in Jobs |-> "none"]
    /\ CutShort(Jobs)
    /\ UNCHANGED <<row, deliveries, attemptsMade, outcome, accepted, faults,
                   changes, streak, chances>>

\* close() waits for the running handlers, and nothing waits for the listener's
\* promises: the connection goes away under them.
Shutdown ==
    /\ crashes < MaxCrashes
    /\ crashes' = crashes + 1
    /\ \A j \in Jobs : queue[j] # "active"
    /\ chain' = [j \in Jobs |-> "none"]
    /\ CutShort(Jobs)
    /\ UNCHANGED <<row, deliveries, job, handler, accepted, faults, changes, streak,
                   chances>>

Change == changes < MaxChanges /\ changes' = changes + 1

\* PATCH with enabled: true, whatever the endpoint's state.
Enable(p) ==
    /\ Change
    /\ present[p]
    /\ enabled' = [enabled EXCEPT ![p] = TRUE]
    /\ failures' = [failures EXCEPT ![p] = 0]
    /\ reason' = [reason EXCEPT ![p] = "none"]
    /\ chances' = [chances EXCEPT ![p] = IF enabled[p] THEN @ ELSE 0]
    /\ undisabled' = undisabled \ {p}
    /\ UNCHANGED <<present, deliveries, job, handler, chain, accepted, faults, crashes,
                   streak>>

\* PATCH with enabled: false: the counter and the reason stay.
Disable(p) ==
    /\ Change
    /\ present[p] /\ enabled[p]
    /\ enabled' = [enabled EXCEPT ![p] = FALSE]
    /\ UNCHANGED <<present, reason, failures, deliveries, job, handler, chain, accepted,
                   faults, crashes, history>>

\* DELETE, and the cascade to the endpoint's delivery rows.
Remove(p) ==
    /\ Change
    /\ present[p]
    /\ present' = [present EXCEPT ![p] = FALSE]
    /\ deliveries' = [j \in Jobs |-> IF Target[j] = p THEN [n \in Attempts |-> 0]
                                     ELSE deliveries[j]]
    /\ UNCHANGED <<enabled, reason, failures, job, handler, chain, accepted, faults,
                   crashes, history>>

-----------------------------------------------------------------------------
Administer(p) == Enable(p) \/ Disable(p) \/ Remove(p)

Attempt(j) == StartAttempt(j) \/ Post(j) \/ RecordDelivery(j) \/ ResetFailures(j) \/ Return(j)
Exhausted(j) == CountExhausted(j) \/ DisableEndpoint(j) \/ ChainWithoutEndpoint(j)

Next ==
    \/ \E j \in Jobs : Attempt(j) \/ Exhausted(j) \/ DatabaseFault(j) \/ ChainFault(j)
    \/ Crash \/ Shutdown
    \/ \E p \in Endpoints : Administer(p)

\* A handler that can go on goes on (fetch has a timeout), a waiting job is
\* taken when its backoff is over, and a listener's promise goes on.
Fairness == \A j \in Jobs : WF_vars(Attempt(j)) /\ WF_vars(Exhausted(j))

Spec == Init /\ [][Next]_vars
FairSpec == Spec /\ Fairness

-----------------------------------------------------------------------------
(* Properties.                                                             *)

JobsOf(p) == {j \in Jobs : Target[j] = p}

\* schema.prisma: "one row per delivery attempt", "one per attempt number".  An
\* attempt number has a second row only if the worker went away during it.
AttemptRowOnce ==
    \A j \in Jobs, n \in Attempts : deliveries[j][n] <= 1 + stalls[j]

\* A job that completed without being skipped was accepted by the receiver, and
\* the log of its endpoint, while that exists, has an attempt of it: no fault,
\* crash or retry turns an undelivered event into a completed job.
CompletedMeansDelivered ==
    \A j \in Jobs : queue[j] = "completed" /\ outcome[j] = "ok" =>
        /\ j \in accepted
        /\ present[Target[j]] => \E n \in Attempts : deliveries[j][n] > 0

\* consecutiveFailures never runs ahead of the chains that exhausted, and an
\* endpoint that disabled itself had enough of them: one failed attempt, a retry
\* or a rerun is never taken for a failed delivery.
FailuresAreExhaustedChains ==
    \A p \in Endpoints :
        LET failed == Cardinality({j \in JobsOf(p) : queue[j] = "failed"}) IN
        /\ failures[p] <= failed
        /\ reason[p] = "auto" => failed >= MaxFailures

\* Every chain of attempts ends, delivered, skipped or exhausted, whatever fails.
EveryChainEnds == <>(\A j \in Jobs : queue[j] \in {"completed", "failed"})

\* An endpoint whose counter has reached the limit does not stay enabled, unless
\* the very update that disables it failed or was cut short.
EventuallyDisabled ==
    []<>(\A p \in Endpoints : present[p] /\ enabled[p] /\ failures[p] >= MaxFailures
                                => p \in undisabled)

\* The comment in webhooks.repository.ts: an endpoint an administrator re-enabled
\* has "a fresh chance to prove itself, not 20 failures away from being disabled
\* again instantly": it disables itself after as many chains again.
FreshChance == \A p \in Endpoints : reason[p] = "auto" => chances[p] >= MaxFailures

\* The comment on recordChainExhausted: "WEBHOOK_MAX_CONSECUTIVE_FAILURES such
\* chains in a row and the endpoint disables itself": when a chain sets out to
\* disable the endpoint, so many were counted since the last successful delivery
\* (one that has been logged and has reset the counter, where it does).
InARow ==
    [][\A j \in Jobs : chain[j] = "counting" /\ chain'[j] = "disabling"
                         => streak'[Target[j]] >= MaxFailures]_vars
=============================================================================
