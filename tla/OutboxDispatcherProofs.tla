----------------------- MODULE OutboxDispatcherProofs -----------------------
(***************************************************************************)
(* Theorems about OutboxDispatcher, for any number of workers, ticks,      *)
(* events and endpoints, any batch size, and any number of faults,         *)
(* restarts and subscription changes.                                      *)
(***************************************************************************)
EXTENDS OutboxDispatcher, TLAPS

-----------------------------------------------------------------------------
(* Type correctness.                                                       *)

LEMMA TypeInit == Init => TypeOK
  BY DEF Init, TypeOK, Phases, WorkerStates

\* Adding a job keeps the queue well typed, whatever is added.
LEMMA WithJobTyped ==
  ASSUME jobs \in [Events -> [Endpoints -> Nat]], NEW e, NEW p
  PROVE  WithJob(e, p) \in [Events -> [Endpoints -> Nat]]
  <1>1. CASE e \in Events /\ p \in Endpoints
    <2>1. [jobs[e] EXCEPT ![p] = jobs[e][p] + 1] \in [Endpoints -> Nat]
      BY <1>1
    <2>2. QED
      BY <1>1, <2>1 DEF WithJob
  <1>2. CASE e \in Events /\ p \notin Endpoints
    <2>1. [jobs[e] EXCEPT ![p] = jobs[e][p] + 1] = jobs[e]
      BY <1>2
    <2>2. QED
      BY <1>2, <2>1 DEF WithJob
  <1>3. CASE e \notin Events
    BY <1>3 DEF WithJob
  <1>4. QED
    BY <1>1, <1>2, <1>3

LEMMA TypeStep == TypeOK /\ [Next]_vars => TypeOK'
  <1> SUFFICES ASSUME TypeOK, [Next]_vars PROVE TypeOK'
    OBVIOUS
  <1>1. ASSUME NEW e \in Events, RecordEvent(e) PROVE TypeOK'
    BY <1>1 DEF TypeOK, RecordEvent, Subscribed, rows, ticking, bounds, history
  <1>2. ASSUME NEW e \in Events, NEW p \in Endpoints, CreateTestEvent(e, p)
        PROVE TypeOK'
    BY <1>2 DEF TypeOK, CreateTestEvent, rows, ticking, bounds, history
  <1>3. ASSUME NEW e \in Events, EnqueueTestEvent(e) PROVE TypeOK'
    BY <1>3, WithJobTyped DEF TypeOK, EnqueueTestEvent, rows, ticking, bounds,
                              history
  <1>4. ASSUME NEW e \in Events, TestQueueFault(e) PROVE TypeOK'
    <2>1. jobs' \in [Events -> [Endpoints -> Nat]]
      BY <1>4, WithJobTyped DEF TypeOK, TestQueueFault
    <2>2. /\ testing' \in [Events -> Endpoints \cup {NoEndpoint}]
          /\ faults' \in Nat
      BY <1>4 DEF TypeOK, TestQueueFault
    <2>3. UNCHANGED <<rows, listening, worker, inFlight, ticking, restarts,
                      changes, history>>
      BY <1>4 DEF TestQueueFault
    <2>4. QED
      BY <2>1, <2>2, <2>3 DEF TypeOK, rows, ticking, history
  <1>5. ASSUME NEW p \in Endpoints, NEW types \in SUBSET Types,
               ChangeSubscription(p, types)
        PROVE TypeOK'
    BY <1>5 DEF TypeOK, ChangeSubscription, rows, ticking, bounds, history
  <1>6. ASSUME NEW t \in Ticks, Claim(t) PROVE TypeOK'
    <2>1. Claimable \subseteq recorded
      BY DEF Claimable
    <2>2. PICK s \in Oldest(Claimable) :
            IF s = {} THEN UNCHANGED ticking
            ELSE /\ phase' = [phase EXCEPT ![t] = "claiming"]
                 /\ batch' = [batch EXCEPT ![t] = s]
                 /\ UNCHANGED <<event, targets>>
      BY <1>6 DEF Claim
    <2>3. s \subseteq recorded
      BY <2>1, <2>2 DEF Oldest
    <2>4. QED
      BY <1>6, <2>2, <2>3 DEF TypeOK, Claim, Phases, rows, ticking, bounds, history
  <1>7. ASSUME NEW t \in Ticks, CommitClaim(t) PROVE TypeOK'
    BY <1>7 DEF TypeOK, CommitClaim, Phases, rows, ticking, bounds, history
  <1>8. ASSUME NEW t \in Ticks, ReadEndpoints(t) PROVE TypeOK'
    <2>1. PICK e \in batch[t] :
            /\ batch' = [batch EXCEPT ![t] = @ \ {e}]
            /\ IF Subscribed(e) = {} THEN Continue(t)
               ELSE /\ phase' = [phase EXCEPT ![t] = "adding"]
                    /\ event' = [event EXCEPT ![t] = e]
                    /\ targets' = [targets EXCEPT ![t] = Subscribed(e)]
      BY <1>8 DEF ReadEndpoints
    <2>2. e \in Events /\ Subscribed(e) \in SUBSET Endpoints
      BY <2>1 DEF TypeOK, Subscribed
    <2>3. batch' \in [Ticks -> SUBSET recorded]
      BY <2>1 DEF TypeOK
    <2>4. /\ phase' \in [Ticks -> Phases]
          /\ event' \in [Ticks -> Events \cup {NoEvent}]
          /\ targets' \in [Ticks -> SUBSET Endpoints]
      BY <2>1, <2>2 DEF TypeOK, Continue, Phases
    <2>5. QED
      BY <1>8, <2>3, <2>4 DEF TypeOK, ReadEndpoints, rows, bounds, history
  <1>9. ASSUME NEW t \in Ticks, AddJob(t) PROVE TypeOK'
    <2>1. PICK p \in targets[t] :
            /\ jobs' = WithJob(event[t], p)
            /\ IF targets[t] = {p} THEN Continue(t)
               ELSE /\ targets' = [targets EXCEPT ![t] = @ \ {p}]
                    /\ UNCHANGED <<phase, event>>
      BY <1>9 DEF AddJob
    <2>2. jobs' \in [Events -> [Endpoints -> Nat]]
      BY <2>1, WithJobTyped DEF TypeOK
    <2>3. /\ phase' \in [Ticks -> Phases]
          /\ event' \in [Ticks -> Events \cup {NoEvent}]
          /\ targets' \in [Ticks -> SUBSET Endpoints]
      <3>1. CASE targets[t] = {p}
        BY <2>1, <3>1 DEF TypeOK, Continue, Phases
      <3>2. CASE targets[t] # {p}
        BY <2>1, <3>2 DEF TypeOK
      <3>3. QED
        BY <3>1, <3>2
    <2>4. UNCHANGED <<rows, batch, listening, testing, worker, inFlight, bounds,
                      history>>
      BY <1>9 DEF AddJob
    <2>5. QED
      BY <2>2, <2>3, <2>4 DEF TypeOK, rows, bounds, history
  <1>10. ASSUME NEW t \in Ticks, DatabaseFault(t) PROVE TypeOK'
    BY <1>10 DEF TypeOK, DatabaseFault, Finished, Held, Phases, rows, ticking,
                 bounds, history
  <1>11. ASSUME NEW t \in Ticks, CommitAnswerLost(t) PROVE TypeOK'
    BY <1>11 DEF TypeOK, CommitAnswerLost, Finished, Phases, rows, ticking,
                 bounds, history
  <1>12. ASSUME NEW t \in Ticks, QueueFault(t) PROVE TypeOK'
    <2>1. jobs' \in [Events -> [Endpoints -> Nat]]
      BY <1>12, WithJobTyped DEF TypeOK, QueueFault
    <2>2. abandoned' \in SUBSET Events /\ faults' \in Nat
      BY <1>12 DEF TypeOK, QueueFault, Held
    <2>3. UNCHANGED <<rows, listening, testing, worker, inFlight, restarts,
                      changes, steady>> /\ Finished(t)
      BY <1>12 DEF QueueFault
    <2>4. QED
      BY <2>1, <2>2, <2>3 DEF TypeOK, Finished, Phases, rows
  <1>13. ASSUME NEW w \in Workers, Gone(w), UNCHANGED <<rows, listening, jobs,
                testing, faults, changes, steady>>, restarts' \in Nat
         PROVE TypeOK'
    BY <1>13 DEF TypeOK, Gone, Held, Phases, WorkerStates, rows
  <1>14. ASSUME NEW w \in Workers, Crash(w) PROVE TypeOK'
    BY <1>13, <1>14 DEF Crash, TypeOK
  <1>15. ASSUME NEW w \in Workers, Exit(w) PROVE TypeOK'
    BY <1>13, <1>15 DEF Exit, TypeOK, bounds
  <1>16. ASSUME NEW w \in Workers, Stop(w) \/ StopResolves(w) \/ Start(w)
         PROVE TypeOK'
    BY <1>16 DEF TypeOK, Stop, StopResolves, Start, WorkerStates, rows, ticking,
                 bounds, history
  <1>17. CASE UNCHANGED vars
    BY <1>17 DEF TypeOK, vars, rows, ticking, bounds, history
  <1>18. QED
    BY <1>1, <1>2, <1>3, <1>4, <1>5, <1>6, <1>7, <1>8, <1>9, <1>10, <1>11, <1>12,
       <1>14, <1>15, <1>16, <1>17 DEF Next, Step

\* Every reachable state of the dispatcher is well typed.
THEOREM TypeCorrect == Spec => []TypeOK
  BY TypeInit, TypeStep, PTL DEF Spec

-----------------------------------------------------------------------------
(* The inductive invariant.  That no pair is enqueued twice follows from    *)
(* who still owes a job: an event is owed by at most one party (the table,  *)
(* one tick, or one test send), and a pair still owed has no job yet.       *)

Untouched(e) == \A p \in Endpoints : jobs[e][p] = 0

\* What the phase of a tick says of its claim.
PhaseShape ==
    \A t \in Ticks :
        /\ phase[t] = "idle" => batch[t] = {}
        /\ phase[t] = "claiming" => batch[t] \cap dispatched = {}
        /\ phase[t] \in {"reading", "adding"} => batch[t] \subseteq dispatched
        /\ IF phase[t] = "adding" THEN event[t] \in dispatched
           ELSE event[t] = NoEvent

\* No event is worked on in two places.
WorkApart ==
    /\ \A t, u \in Ticks : t # u => batch[t] \cap batch[u] = {}
    /\ \A t, u \in Ticks : event[t] \notin batch[u]
    /\ \A t, u \in Ticks : t # u /\ event[t] # NoEvent => event[t] # event[u]
    /\ \A e \in Events : testing[e] # NoEndpoint =>
          e \in dispatched /\ \A t \in Ticks : e \notin batch[t] /\ e # event[t]

\* What is still owed has no job.
OwedHasNoJob ==
    /\ \A e \in Events : e \notin dispatched => Untouched(e)
    /\ \A t \in Ticks : \A e \in batch[t] : Untouched(e)
    /\ \A t \in Ticks : phase[t] = "adding" =>
          \A p \in targets[t] : jobs[event[t]][p] = 0
    /\ \A e \in Events : testing[e] # NoEndpoint => Untouched(e)

AttemptsCountClaims ==
    \A e \in Events : attempts[e] <= 1 /\ (e \notin dispatched => attempts[e] = 0)

Inv == PhaseShape /\ WorkApart /\ OwedHasNoJob /\ AttemptsCountClaims /\ AtMostOneJob

LEMMA InvInit == Init => Inv
  BY DEF Init, Inv, PhaseShape, WorkApart, OwedHasNoJob, AttemptsCountClaims,
         AtMostOneJob, Untouched

\* Ticks that stop working, for whatever reason, leave nothing owed.
LEMMA DropWork ==
  ASSUME TypeOK, Inv, NEW S \in SUBSET Ticks,
         UNCHANGED <<dispatched, attempts, jobs, testing>>,
         phase' = [t \in Ticks |-> IF t \in S THEN "idle" ELSE phase[t]],
         batch' = [t \in Ticks |-> IF t \in S THEN {} ELSE batch[t]],
         event' = [t \in Ticks |-> IF t \in S THEN NoEvent ELSE event[t]],
         targets' = [t \in Ticks |-> IF t \in S THEN {} ELSE targets[t]]
  PROVE  Inv'
  <1>1. PhaseShape'
    BY DEF Inv, TypeOK, PhaseShape, Phases
  <1>2. WorkApart'
    BY DispatcherConstants DEF Inv, TypeOK, WorkApart
  <1>3. OwedHasNoJob'
    BY DEF Inv, TypeOK, OwedHasNoJob, Untouched
  <1>4. AttemptsCountClaims' /\ AtMostOneJob'
    BY DEF Inv, AttemptsCountClaims, AtMostOneJob
  <1>5. QED
    BY <1>1, <1>2, <1>3, <1>4 DEF Inv

LEMMA FinishedDropsWork ==
  ASSUME TypeOK, Inv, NEW t \in Ticks, Finished(t),
         UNCHANGED <<dispatched, attempts, jobs, testing>>
  PROVE  Inv'
  <1> DEFINE S == {t}
  <1>1. /\ phase' = [u \in Ticks |-> IF u \in S THEN "idle" ELSE phase[u]]
        /\ batch' = [u \in Ticks |-> IF u \in S THEN {} ELSE batch[u]]
        /\ event' = [u \in Ticks |-> IF u \in S THEN NoEvent ELSE event[u]]
        /\ targets' = [u \in Ticks |-> IF u \in S THEN {} ELSE targets[u]]
    BY DEF Finished, TypeOK
  <1>2. S \in SUBSET Ticks
    OBVIOUS
  <1> HIDE DEF S
  <1>3. QED
    BY <1>1, <1>2, DropWork

\* What adding one job changes.
LEMMA WithJobValue ==
  ASSUME TypeOK, NEW e \in Events, NEW p \in Endpoints, jobs' = WithJob(e, p),
         NEW f \in Events, NEW q \in Endpoints
  PROVE  jobs'[f][q] = IF f = e /\ q = p THEN jobs[e][p] + 1 ELSE jobs[f][q]
  BY DEF TypeOK, WithJob

LEMMA TestStep ==
  ASSUME TypeOK, Inv, NEW e \in Events, testing[e] # NoEndpoint,
         testing' = [testing EXCEPT ![e] = NoEndpoint],
         UNCHANGED <<dispatched, attempts, ticking>>,
         jobs' = jobs \/ jobs' = WithJob(e, testing[e])
  PROVE  Inv'
  <1>1. testing[e] \in Endpoints
    BY DEF TypeOK
  <1>2. /\ Untouched(e) /\ e \in dispatched
        /\ \A t \in Ticks : e \notin batch[t] /\ e # event[t]
    BY DEF Inv, OwedHasNoJob, WorkApart
  <1>3. \A f \in Events, q \in Endpoints :
           jobs'[f][q] = jobs[f][q] \/ (f = e /\ jobs'[f][q] \in {0, 1})
    BY <1>1, <1>2, WithJobValue DEF Untouched
  <1>4. \A f \in Events : testing'[f] = IF f = e THEN NoEndpoint ELSE testing[f]
    BY DEF TypeOK
  <1>5. PhaseShape' /\ WorkApart' /\ AttemptsCountClaims'
    BY <1>4 DEF Inv, PhaseShape, WorkApart, AttemptsCountClaims, ticking
  <1>6. OwedHasNoJob'
    <2>1. \A f \in Events : f # e /\ Untouched(f) => Untouched(f)'
      BY <1>3 DEF Untouched
    <2>2. \A t \in Ticks : phase[t] = "adding" => event[t] \in Events /\ event[t] # e
      BY <1>2 DEF Inv, PhaseShape, TypeOK
    <2>3. \A t \in Ticks : phase'[t] = "adding" =>
             \A q \in targets'[t] : jobs'[event'[t]][q] = 0
      BY <1>3, <2>2 DEF Inv, OwedHasNoJob, ticking, TypeOK
    <2>4. QED
      BY <1>2, <1>4, <2>1, <2>3 DEF Inv, OwedHasNoJob, ticking, TypeOK
  <1>7. AtMostOneJob'
    BY <1>3 DEF Inv, AtMostOneJob
  <1>8. QED
    BY <1>5, <1>6, <1>7 DEF Inv

LEMMA ClaimStep ==
  ASSUME TypeOK, Inv, NEW t \in Ticks, Claim(t)
  PROVE  Inv'
  <1>1. PICK s \in Oldest(Claimable) :
          IF s = {} THEN UNCHANGED ticking
          ELSE /\ phase' = [phase EXCEPT ![t] = "claiming"]
               /\ batch' = [batch EXCEPT ![t] = s]
               /\ UNCHANGED <<event, targets>>
    BY DEF Claim
  <1>2. UNCHANGED <<dispatched, attempts, jobs, testing>> /\ phase[t] = "idle"
    BY DEF Claim, rows
  <1>3. CASE s = {}
    BY <1>1, <1>2, <1>3 DEF Inv, PhaseShape, WorkApart, OwedHasNoJob, Untouched,
                            AttemptsCountClaims, AtMostOneJob, ticking
  <1>4. CASE s # {}
    <2>1. /\ s \subseteq recorded /\ s \cap dispatched = {}
          /\ \A u \in Ticks : phase[u] = "claiming" => s \cap batch[u] = {}
      BY DEF Oldest, Claimable, Locked
    <2>2. \A u \in Ticks : s \cap batch[u] = {} /\ event[u] \notin s
      <3> TAKE u \in Ticks
      <3>1. s \cap batch[u] = {}
        BY <2>1 DEF Inv, PhaseShape, TypeOK, Phases
      <3>2. event[u] = NoEvent \/ event[u] \in dispatched
        BY DEF Inv, PhaseShape
      <3>3. NoEvent \notin s
        BY <2>1, DispatcherConstants DEF TypeOK
      <3>4. QED
        BY <2>1, <3>1, <3>2, <3>3
    <2>3. PhaseShape'
      BY <1>1, <1>2, <1>4, <2>1 DEF Inv, PhaseShape, TypeOK
    <2>4. WorkApart'
      <3>1. /\ \A u \in Ticks : batch'[u] = IF u = t THEN s ELSE batch[u]
            /\ UNCHANGED <<event, testing, dispatched>>
        BY <1>1, <1>2, <1>4 DEF TypeOK
      <3>2. \A e \in Events : testing[e] # NoEndpoint => e \notin s
        BY <2>1 DEF Inv, WorkApart
      <3>3. QED
        BY <2>2, <3>1, <3>2 DEF Inv, WorkApart
    <2>5. OwedHasNoJob'
      BY <1>1, <1>2, <1>4, <2>1 DEF Inv, OwedHasNoJob, Untouched, TypeOK
    <2>6. AttemptsCountClaims' /\ AtMostOneJob'
      BY <1>2 DEF Inv, AttemptsCountClaims, AtMostOneJob
    <2>7. QED
      BY <2>3, <2>4, <2>5, <2>6 DEF Inv
  <1>5. QED
    BY <1>3, <1>4

\* Stamping the rows of a claim, before the tick goes on or ends.
LEMMA StampStep ==
  ASSUME TypeOK, Inv, NEW t \in Ticks, phase[t] = "claiming",
         dispatched' = dispatched \cup batch[t],
         attempts' = [e \in Events |-> IF e \in batch[t] THEN attempts[e] + 1
                                       ELSE attempts[e]],
         UNCHANGED <<jobs, testing>>,
         \/ phase' = [phase EXCEPT ![t] = "reading"] /\ UNCHANGED <<batch, event, targets>>
         \/ Finished(t)
  PROVE  Inv'
  <1>1. \A e \in batch[t] : e \notin dispatched /\ attempts[e] = 0
    BY DEF Inv, PhaseShape, AttemptsCountClaims, TypeOK
  <1>2. \A u \in Ticks : u # t => batch[u] \cap batch[t] = {}
    BY DEF Inv, WorkApart
  <1>3. \A u \in Ticks : /\ batch'[u] \in {{}, batch[u]}
                         /\ u # t => phase'[u] = phase[u] /\ batch'[u] = batch[u]
                                     /\ event'[u] = event[u] /\ targets'[u] = targets[u]
                         /\ event'[u] = event[u]
    BY DEF Finished, TypeOK, Inv, PhaseShape
  <1>4. /\ phase'[t] \in {"reading", "idle"} /\ event'[t] = NoEvent
        /\ phase'[t] = "idle" => batch'[t] = {}
    BY DEF Finished, TypeOK, Inv, PhaseShape
  <1>5. PhaseShape'
    BY <1>2, <1>3, <1>4 DEF Inv, PhaseShape
  <1>6. WorkApart'
    <2>1. \A e \in Events : testing[e] # NoEndpoint => e \in dispatched'
      BY DEF Inv, WorkApart
    <2>2. QED
      BY <1>3, <2>1 DEF Inv, WorkApart
  <1>7. OwedHasNoJob'
    BY <1>3, <1>4 DEF Inv, OwedHasNoJob, Untouched
  <1>8. AttemptsCountClaims' /\ AtMostOneJob'
    BY <1>1 DEF Inv, AttemptsCountClaims, AtMostOneJob, TypeOK
  <1>9. QED
    BY <1>5, <1>6, <1>7, <1>8 DEF Inv

LEMMA ReadEndpointsStep ==
  ASSUME TypeOK, Inv, NEW t \in Ticks, ReadEndpoints(t)
  PROVE  Inv'
  <1>1. PICK e \in batch[t] :
          /\ batch' = [batch EXCEPT ![t] = @ \ {e}]
          /\ IF Subscribed(e) = {} THEN Continue(t)
             ELSE /\ phase' = [phase EXCEPT ![t] = "adding"]
                  /\ event' = [event EXCEPT ![t] = e]
                  /\ targets' = [targets EXCEPT ![t] = Subscribed(e)]
    BY DEF ReadEndpoints
  <1>2. /\ e \in Events /\ e \in dispatched /\ Untouched(e) /\ testing[e] = NoEndpoint
        /\ batch[t] \subseteq dispatched /\ e # NoEvent /\ Subscribed(e) \subseteq Endpoints
    BY DispatcherConstants
       DEF ReadEndpoints, TypeOK, Inv, PhaseShape, OwedHasNoJob, WorkApart, Subscribed
  <1>3. UNCHANGED <<dispatched, attempts, jobs, testing>>
    BY DEF ReadEndpoints, rows
  <1>4. \A u \in Ticks :
          /\ batch'[u] = IF u = t THEN batch[t] \ {e} ELSE batch[u]
          /\ u # t => phase'[u] = phase[u] /\ event'[u] = event[u]
                      /\ targets'[u] = targets[u]
    BY <1>1 DEF TypeOK, Continue
  <1>5. \/ phase'[t] = "adding" /\ event'[t] = e /\ targets'[t] \subseteq Endpoints
        \/ phase'[t] = "reading" /\ event'[t] = NoEvent
        \/ phase'[t] = "idle" /\ event'[t] = NoEvent /\ batch'[t] = {}
    BY <1>1, <1>2 DEF TypeOK, Continue
  <1>6. PhaseShape'
    BY <1>2, <1>3, <1>4, <1>5 DEF Inv, PhaseShape
  <1>7. WorkApart'
    <2>1. \A u \in Ticks : e # event[u] /\ (u # t => e \notin batch[u])
      BY DEF Inv, WorkApart
    <2>2. \A u \in Ticks : event'[u] = event[u] \/ (u = t /\ event'[u] \in {e, NoEvent})
      BY <1>4, <1>5
    <2>3. \A u, v \in Ticks : event'[u] \notin batch'[v]
      <3> TAKE u, v \in Ticks
      <3>1. batch'[v] \subseteq batch[v] /\ e \notin batch'[v] /\ NoEvent \notin batch[v]
        BY <1>4, <2>1, DispatcherConstants DEF TypeOK
      <3>2. event[u] \notin batch[v]
        BY DEF Inv, WorkApart
      <3>3. QED
        BY <2>2, <3>1, <3>2
    <2>4. \A u, v \in Ticks : u # v /\ event'[u] # NoEvent => event'[u] # event'[v]
      BY <1>2, <2>1, <2>2 DEF Inv, WorkApart
    <2>5. \A u, v \in Ticks : u # v => batch'[u] \cap batch'[v] = {}
      BY <1>4 DEF Inv, WorkApart
    <2>6. \A f \in Events : testing'[f] # NoEndpoint =>
            f \in dispatched' /\ \A u \in Ticks : f \notin batch'[u] /\ f # event'[u]
      BY <1>2, <1>3, <1>4, <2>2, DispatcherConstants DEF Inv, WorkApart
    <2>7. QED
      BY <2>3, <2>4, <2>5, <2>6 DEF WorkApart
  <1>8. OwedHasNoJob'
    <2>1. \A u \in Ticks : phase'[u] = "adding" =>
             \A p \in targets'[u] : jobs'[event'[u]][p] = 0
      BY <1>2, <1>3, <1>4, <1>5 DEF Inv, OwedHasNoJob, Untouched
    <2>2. QED
      BY <1>3, <1>4, <2>1 DEF Inv, OwedHasNoJob, Untouched
  <1>9. AttemptsCountClaims' /\ AtMostOneJob'
    BY <1>3 DEF Inv, AttemptsCountClaims, AtMostOneJob
  <1>10. QED
    BY <1>6, <1>7, <1>8, <1>9 DEF Inv

\* A job of the event a tick is fanning out is added, and the tick goes on with
\* fewer targets, with its next event, or not at all.
LEMMA AddStep ==
  ASSUME TypeOK, Inv, NEW t \in Ticks, phase[t] = "adding", NEW p \in targets[t],
         jobs' = WithJob(event[t], p),
         UNCHANGED <<dispatched, attempts, testing>>,
         \A u \in Ticks :
            /\ batch'[u] = batch[u] \/ (u = t /\ batch'[u] = {})
            /\ u # t => phase'[u] = phase[u] /\ event'[u] = event[u]
                        /\ targets'[u] = targets[u],
         \/ phase'[t] = "adding" /\ event'[t] = event[t] /\ targets'[t] = targets[t] \ {p}
         \/ phase'[t] = "reading" /\ event'[t] = NoEvent
         \/ phase'[t] = "idle" /\ event'[t] = NoEvent /\ batch'[t] = {}
  PROVE  Inv'
  <1>1. /\ event[t] \in dispatched /\ event[t] \in Events /\ p \in Endpoints
        /\ event[t] # NoEvent /\ jobs[event[t]][p] = 0 /\ testing[event[t]] = NoEndpoint
    <2>1. event[t] \in dispatched /\ jobs[event[t]][p] = 0
      BY DEF Inv, PhaseShape, OwedHasNoJob
    <2>2. event[t] \in Events /\ event[t] # NoEvent /\ p \in Endpoints
      BY <2>1, DispatcherConstants DEF TypeOK
    <2>3. testing[event[t]] = NoEndpoint
      BY <2>2 DEF Inv, WorkApart
    <2>4. QED
      BY <2>1, <2>2, <2>3
  <1>2. \A f \in Events, q \in Endpoints :
           jobs'[f][q] = IF f = event[t] /\ q = p THEN 1 ELSE jobs[f][q]
    BY <1>1, WithJobValue
  <1>3. \A f \in Events : f # event[t] /\ Untouched(f) => Untouched(f)'
    BY <1>2 DEF Untouched
  <1>4. PhaseShape'
    BY DEF Inv, PhaseShape
  <1>5. WorkApart'
    <2>1. \A u \in Ticks : event'[u] \in {event[u], NoEvent} /\ batch'[u] \subseteq batch[u]
      OBVIOUS
    <2>2. \A u \in Ticks : NoEvent \notin batch[u]
      BY DispatcherConstants DEF TypeOK
    <2>3. \A e \in Events : e # NoEvent
      BY DispatcherConstants
    <2>4. QED
      BY <2>1, <2>2, <2>3 DEF Inv, WorkApart
  <1>6. OwedHasNoJob'
    <2>1. \A e \in Events : e \notin dispatched' => Untouched(e)'
      BY <1>1, <1>3 DEF Inv, OwedHasNoJob
    <2>2. \A u \in Ticks : \A e \in batch'[u] : Untouched(e)'
      BY <1>3 DEF Inv, OwedHasNoJob, WorkApart, TypeOK
    <2>3. ASSUME NEW u \in Ticks, phase'[u] = "adding", NEW q \in targets'[u]
          PROVE  jobs'[event'[u]][q] = 0
      <3>1. event[u] \in Events /\ q \in Endpoints /\ q \in targets[u]
            /\ event'[u] = event[u] /\ phase[u] = "adding"
        BY <1>1, <2>3 DEF TypeOK, Inv, PhaseShape
      <3>2. jobs[event[u]][q] = 0
        BY <3>1 DEF Inv, OwedHasNoJob
      <3>3. ~(event[u] = event[t] /\ q = p)
        BY <1>1, <2>3 DEF Inv, WorkApart
      <3>4. QED
        BY <1>2, <3>1, <3>2, <3>3
    <2>4. \A e \in Events : testing'[e] # NoEndpoint => Untouched(e)'
      BY <1>1, <1>3 DEF Inv, OwedHasNoJob
    <2>5. QED
      BY <2>1, <2>2, <2>3, <2>4 DEF OwedHasNoJob
  <1>7. AttemptsCountClaims' /\ AtMostOneJob'
    BY <1>2 DEF Inv, AttemptsCountClaims, AtMostOneJob
  <1>8. QED
    BY <1>4, <1>5, <1>6, <1>7 DEF Inv

LEMMA AddJobStep ==
  ASSUME TypeOK, Inv, NEW t \in Ticks, AddJob(t)
  PROVE  Inv'
  <1>1. PICK p \in targets[t] :
          /\ jobs' = WithJob(event[t], p)
          /\ IF targets[t] = {p} THEN Continue(t)
             ELSE /\ targets' = [targets EXCEPT ![t] = @ \ {p}]
                  /\ UNCHANGED <<phase, event>>
    BY DEF AddJob
  <1>2. phase[t] = "adding" /\ UNCHANGED <<dispatched, attempts, testing, batch>>
    BY DEF AddJob, rows
  <1>3. \A u \in Ticks : u # t => phase'[u] = phase[u] /\ event'[u] = event[u]
                                  /\ targets'[u] = targets[u]
    BY <1>1 DEF TypeOK, Continue
  <1>4. \/ phase'[t] = "adding" /\ event'[t] = event[t] /\ targets'[t] = targets[t] \ {p}
        \/ phase'[t] = "reading" /\ event'[t] = NoEvent
        \/ phase'[t] = "idle" /\ event'[t] = NoEvent /\ batch'[t] = {}
    BY <1>1, <1>2 DEF TypeOK, Continue
  <1>5. QED
    BY <1>1, <1>2, <1>3, <1>4, AddStep

LEMMA QueueFaultStep ==
  ASSUME TypeOK, Inv, NEW t \in Ticks, QueueFault(t)
  PROVE  Inv'
  <1>1. /\ phase[t] = "adding" /\ Finished(t)
        /\ UNCHANGED <<dispatched, attempts, testing>>
    BY DEF QueueFault, rows
  <1>2. CASE UNCHANGED jobs
    BY <1>1, <1>2, FinishedDropsWork
  <1>3. CASE \E p \in targets[t] : jobs' = WithJob(event[t], p)
    <2>1. PICK p \in targets[t] : jobs' = WithJob(event[t], p)
      BY <1>3
    <2>2. \A u \in Ticks : u # t => phase'[u] = phase[u] /\ event'[u] = event[u]
                             /\ targets'[u] = targets[u] /\ batch'[u] = batch[u]
      BY <1>1 DEF TypeOK, Finished
    <2>3. phase'[t] = "idle" /\ event'[t] = NoEvent /\ batch'[t] = {}
      BY <1>1 DEF TypeOK, Finished
    <2>4. QED
      BY <1>1, <2>1, <2>2, <2>3, AddStep
  <1>4. QED
    BY <1>2, <1>3 DEF QueueFault

LEMMA GoneStep ==
  ASSUME TypeOK, Inv, NEW w \in Workers, Gone(w), UNCHANGED <<rows, jobs, testing>>
  PROVE  Inv'
  <1> DEFINE S == {t \in Ticks : Host[t] = w}
  <1>1. /\ phase' = [t \in Ticks |-> IF t \in S THEN "idle" ELSE phase[t]]
        /\ batch' = [t \in Ticks |-> IF t \in S THEN {} ELSE batch[t]]
        /\ event' = [t \in Ticks |-> IF t \in S THEN NoEvent ELSE event[t]]
        /\ targets' = [t \in Ticks |-> IF t \in S THEN {} ELSE targets[t]]
    BY DEF Gone
  <1>2. S \in SUBSET Ticks /\ UNCHANGED <<dispatched, attempts, jobs, testing>>
    BY DEF rows
  <1> HIDE DEF S
  <1>3. QED
    BY <1>1, <1>2, DropWork

LEMMA InvStep == TypeOK /\ Inv /\ [Next]_vars => Inv'
  <1> SUFFICES ASSUME TypeOK, Inv, [Next]_vars PROVE Inv'
    OBVIOUS
  <1>1. ASSUME NEW e \in Events, RecordEvent(e) PROVE Inv'
    BY <1>1 DEF RecordEvent, Inv, PhaseShape, WorkApart, OwedHasNoJob, Untouched,
                AttemptsCountClaims, AtMostOneJob, ticking
  <1>2. ASSUME NEW e \in Events, NEW p \in Endpoints, CreateTestEvent(e, p)
        PROVE  Inv'
    <2>1. /\ e \notin recorded /\ e \notin dispatched /\ dispatched' = dispatched \cup {e}
          /\ UNCHANGED <<attempts, jobs, ticking>>
          /\ \A f \in Events : testing'[f] = IF f = e THEN p ELSE testing[f]
      BY <1>2 DEF CreateTestEvent, TypeOK
    <2>2. \A t \in Ticks : e \notin batch[t] /\ e # event[t]
      BY <2>1, DispatcherConstants DEF TypeOK, Inv, PhaseShape
    <2>3. PhaseShape'
      BY <2>1, <2>2 DEF Inv, PhaseShape, ticking
    <2>4. WorkApart'
      BY <2>1, <2>2 DEF Inv, WorkApart, ticking
    <2>5. OwedHasNoJob'
      BY <2>1 DEF Inv, OwedHasNoJob, Untouched, ticking
    <2>6. AttemptsCountClaims' /\ AtMostOneJob'
      BY <2>1 DEF Inv, AttemptsCountClaims, AtMostOneJob
    <2>7. QED
      BY <2>3, <2>4, <2>5, <2>6 DEF Inv
  <1>3. ASSUME NEW e \in Events, EnqueueTestEvent(e) \/ TestQueueFault(e) PROVE Inv'
    BY <1>3, TestStep DEF EnqueueTestEvent, TestQueueFault, rows
  <1>4. ASSUME NEW t \in Ticks, CommitClaim(t) PROVE Inv'
    BY <1>4, StampStep DEF CommitClaim
  <1>5. ASSUME NEW t \in Ticks, CommitAnswerLost(t) PROVE Inv'
    BY <1>5, StampStep DEF CommitAnswerLost
  <1>6. ASSUME NEW t \in Ticks, DatabaseFault(t) PROVE Inv'
    BY <1>6, FinishedDropsWork DEF DatabaseFault, rows
  <1>7. ASSUME NEW w \in Workers, Crash(w) \/ Exit(w) PROVE Inv'
    BY <1>7, GoneStep DEF Crash, Exit
  <1>8. ASSUME UNCHANGED <<rows, jobs, testing, ticking>> PROVE Inv'
    BY <1>8 DEF Inv, PhaseShape, WorkApart, OwedHasNoJob, Untouched,
                AttemptsCountClaims, AtMostOneJob, ticking, rows
  <1>9. ASSUME NEW p \in Endpoints, NEW types \in SUBSET Types,
               ChangeSubscription(p, types)
        PROVE  Inv'
    BY <1>8, <1>9 DEF ChangeSubscription
  <1>10. ASSUME NEW w \in Workers, Stop(w) \/ StopResolves(w) \/ Start(w) PROVE Inv'
    BY <1>8, <1>10 DEF Stop, StopResolves, Start
  <1>11. CASE UNCHANGED vars
    BY <1>8, <1>11 DEF vars
  <1>12. QED
    BY <1>1, <1>2, <1>3, <1>4, <1>5, <1>6, <1>7, <1>9, <1>10, <1>11, ClaimStep,
       ReadEndpointsStep, AddJobStep, QueueFaultStep DEF Next, Step

THEOREM InvHolds == Spec => []Inv
  BY InvInit, InvStep, TypeCorrect, PTL DEF Spec

-----------------------------------------------------------------------------
(* What follows.                                                           *)

\* FOR UPDATE SKIP LOCKED and the stamp in one transaction: no event is claimed
\* by two ticks or twice, however many replicas and overlapping ticks there are.
THEOREM EventsClaimedOnce == Spec => []ClaimedOnce
  <1>1. Inv => ClaimedOnce
    BY DEF Inv, WorkApart, AttemptsCountClaims, ClaimedOnce
  <1>2. QED
    BY <1>1, InvHolds, PTL

\* No event is enqueued twice for an endpoint, whatever crashes or fails.
THEOREM JobsAddedOnce == Spec => []AtMostOneJob
  <1>1. Inv => AtMostOneJob
    BY DEF Inv
  <1>2. QED
    BY <1>1, InvHolds, PTL

-----------------------------------------------------------------------------
(* Nothing is lost but what is cut short.  LostOnlyIfCutShort says nothing  *)
(* of events a tick still holds; what holds at every step is who still      *)
(* owes a job to whom.                                                      *)

\* Tick t is still to add the job of e for p, or to ask whether p wants it.
Owes(t, e, p) ==
    \/ phase[t] \in {"reading", "adding"} /\ e \in batch[t]
    \/ phase[t] = "adding" /\ e = event[t] /\ p \in targets[t]

HandedOver ==
    \A e \in dispatched \ abandoned : \A p \in steady[e] :
        jobs[e][p] > 0 \/ \E t \in Ticks : Owes(t, e, p)

\* Whoever wanted an event ever since still does, so findMany gives it.
SteadyOnes ==
    \A e \in Events : /\ steady[e] \subseteq Subscribed(e)
                      /\ e \notin recorded => steady[e] = {}

\* stop() of a process awaits a tick of that process.
OwnTicks == \A w \in Workers : inFlight[w] \in Ticks => Host[inFlight[w]] = w

\* The tick that stop() awaits, the newest, is over when shutdown goes on.
NewestIsOver ==
    \A w \in Workers : worker[w] = "closing" /\ inFlight[w] \in Ticks
                         => phase[inFlight[w]] = "idle"

\* A process remembers a tick while any of its own is under way.
TicksAreKnown == \A t \in Ticks : phase[t] # "idle" => inFlight[Host[t]] \in Ticks

Kept == HandedOver /\ SteadyOnes /\ OwnTicks /\ NewestIsOver /\ TicksAreKnown

LEMMA KeptInit == Init => Kept
  <1> SUFFICES ASSUME Init PROVE Kept
    OBVIOUS
  <1>1. HandedOver /\ SteadyOnes
    BY DEF Init, HandedOver, SteadyOnes
  <1>2. OwnTicks /\ NewestIsOver /\ TicksAreKnown
    BY DispatcherConstants DEF Init, OwnTicks, NewestIsOver, TicksAreKnown
  <1> QED
    BY <1>1, <1>2 DEF Kept

\* Jobs are added and never taken away.
LEMMA JobsGrow ==
  ASSUME TypeOK, NEW e \in Events, NEW p \in Endpoints,
         jobs' = jobs \/ jobs' = WithJob(e, p)
  PROVE  /\ \A f \in Events, q \in Endpoints : jobs[f][q] > 0 => jobs'[f][q] > 0
         /\ jobs' = WithJob(e, p) => jobs'[e][p] > 0
  <1>1. CASE jobs' = jobs /\ jobs' # WithJob(e, p)
    BY <1>1
  <1>2. CASE jobs' = WithJob(e, p)
    <2>1. \A f \in Events, q \in Endpoints :
             jobs'[f][q] = IF f = e /\ q = p THEN jobs[e][p] + 1 ELSE jobs[f][q]
      BY <1>2, WithJobValue
    <2>2. jobs[e][p] \in Nat
      BY DEF TypeOK
    <2> QED
      BY <2>1, <2>2
  <1> QED
    BY <1>1, <1>2

\* What is newly dispatched is owed, and what was owed still is, has been added or is
\* known to be cut short.
LEMMA HandedOverKept ==
  ASSUME TypeOK, HandedOver, abandoned \subseteq abandoned',
         \A e \in Events, p \in Endpoints : jobs[e][p] > 0 => jobs'[e][p] > 0,
         \A e \in dispatched : steady'[e] \subseteq steady[e],
         \A e \in dispatched' \ dispatched : e \notin abandoned' =>
             \A p \in steady'[e] : \E t \in Ticks : Owes(t, e, p)',
         \A t \in Ticks, e \in dispatched, p \in Endpoints :
             e \notin abandoned' /\ p \in steady[e] /\ Owes(t, e, p) =>
                 Owes(t, e, p)' \/ jobs'[e][p] > 0
  PROVE  HandedOver'
  <1> SUFFICES ASSUME NEW e \in dispatched' \ abandoned', NEW p \in steady'[e]
               PROVE  jobs'[e][p] > 0 \/ \E t \in Ticks : Owes(t, e, p)'
    BY DEF HandedOver
  <1>1. CASE e \notin dispatched
    BY <1>1
  <1>2. CASE e \in dispatched
    <2>1. p \in steady[e] /\ e \in Events /\ p \in Endpoints /\ e \notin abandoned
      BY <1>2 DEF TypeOK
    <2>2. jobs[e][p] > 0 \/ \E t \in Ticks : Owes(t, e, p)
      BY <1>2, <2>1 DEF HandedOver
    <2>3. ASSUME NEW t \in Ticks, Owes(t, e, p)
          PROVE  Owes(t, e, p)' \/ jobs'[e][p] > 0
      BY <1>2, <2>1, <2>3
    <2> QED
      BY <2>1, <2>2, <2>3
  <1> QED
    BY <1>1, <1>2

LEMMA SteadyStep == TypeOK /\ SteadyOnes /\ [Next]_vars => SteadyOnes'
  <1> SUFFICES ASSUME TypeOK, SteadyOnes, [Next]_vars PROVE SteadyOnes'
    OBVIOUS
  <1>1. ASSUME NEW e \in Events, RecordEvent(e) PROVE SteadyOnes'
    BY <1>1 DEF RecordEvent, SteadyOnes, Subscribed, TypeOK
  <1>2. ASSUME recorded \subseteq recorded', UNCHANGED <<listening, steady>>
        PROVE SteadyOnes'
    BY <1>2 DEF SteadyOnes, Subscribed
  <1>3. ASSUME NEW e \in Events, NEW p \in Endpoints, CreateTestEvent(e, p)
        PROVE  SteadyOnes'
    BY <1>2, <1>3 DEF CreateTestEvent, history
  <1>4. ASSUME NEW e \in Events, EnqueueTestEvent(e) \/ TestQueueFault(e)
        PROVE  SteadyOnes'
    BY <1>2, <1>4 DEF EnqueueTestEvent, TestQueueFault, rows, history
  <1>5. ASSUME NEW p \in Endpoints, NEW types \in SUBSET Types,
               ChangeSubscription(p, types)
        PROVE  SteadyOnes'
    BY <1>5 DEF ChangeSubscription, SteadyOnes, Subscribed, TypeOK, rows
  <1>6. ASSUME NEW t \in Ticks, Step(t) \/ DatabaseFault(t) \/ CommitAnswerLost(t)
                                \/ QueueFault(t)
        PROVE  SteadyOnes'
    BY <1>2, <1>6 DEF Step, Claim, CommitClaim, ReadEndpoints, AddJob, DatabaseFault,
                      CommitAnswerLost, QueueFault, rows, history
  <1>7. ASSUME NEW w \in Workers,
               Crash(w) \/ Stop(w) \/ StopResolves(w) \/ Exit(w) \/ Start(w)
        PROVE  SteadyOnes'
    BY <1>2, <1>7 DEF Crash, Stop, StopResolves, Exit, Start, rows, history
  <1>8. CASE UNCHANGED vars
    BY <1>2, <1>8 DEF vars, rows, history
  <1>9. QED
    BY <1>1, <1>3, <1>4, <1>5, <1>6, <1>7, <1>8 DEF Next

\* No tick of a process that is closing starts again.
Stoppable == OwnTicks /\ NewestIsOver /\ TicksAreKnown

LEMMA StopStep == TypeOK /\ Stoppable /\ [Next]_vars => Stoppable'
  <1> SUFFICES ASSUME TypeOK, Stoppable, [Next]_vars PROVE Stoppable'
    OBVIOUS
  <1>1. ASSUME UNCHANGED <<worker, inFlight>>,
               \A u \in Ticks : phase[u] = "idle" => phase'[u] = "idle"
        PROVE  Stoppable'
    BY <1>1 DEF Stoppable, OwnTicks, NewestIsOver, TicksAreKnown
  <1>2. ASSUME NEW e \in Events,
               \/ RecordEvent(e) \/ \E p \in Endpoints : CreateTestEvent(e, p)
               \/ EnqueueTestEvent(e) \/ TestQueueFault(e)
        PROVE  Stoppable'
    BY <1>1, <1>2 DEF RecordEvent, CreateTestEvent, EnqueueTestEvent, TestQueueFault, ticking
  <1>3. ASSUME NEW p \in Endpoints, NEW types \in SUBSET Types,
               ChangeSubscription(p, types)
        PROVE  Stoppable'
    BY <1>1, <1>3 DEF ChangeSubscription, ticking
  <1>4. ASSUME NEW t \in Ticks, Claim(t)
        PROVE  Stoppable'
    <2>1. /\ worker[Host[t]] = "up" /\ worker' = worker
          /\ inFlight' = [inFlight EXCEPT ![Host[t]] = t]
          /\ \A u \in Ticks : u # t => phase'[u] = phase[u]
      BY <1>4 DEF Claim, ticking, TypeOK
    <2>2. inFlight'[Host[t]] = t /\ \A w \in Workers : w # Host[t] => inFlight'[w] = inFlight[w]
      BY <2>1, DispatcherConstants DEF TypeOK
    <2>3. OwnTicks'
      BY <2>2 DEF Stoppable, OwnTicks
    <2>4. TicksAreKnown'
      BY <2>1, <2>2, DispatcherConstants DEF Stoppable, TicksAreKnown
    <2>5. NewestIsOver'
      <3> SUFFICES ASSUME NEW w \in Workers, worker'[w] = "closing", inFlight'[w] \in Ticks
                   PROVE  phase'[inFlight'[w]] = "idle"
        BY DEF NewestIsOver
      <3>1. w # Host[t] /\ inFlight'[w] = inFlight[w]
        BY <2>1, <2>2
      <3>2. Host[inFlight[w]] = w /\ phase[inFlight[w]] = "idle"
        BY <2>1, <3>1 DEF Stoppable, OwnTicks, NewestIsOver
      <3> QED
        BY <2>1, <3>1, <3>2
    <2> QED
      BY <2>3, <2>4, <2>5 DEF Stoppable
  <1>5. ASSUME NEW t \in Ticks,
               \/ CommitClaim(t) \/ ReadEndpoints(t) \/ AddJob(t)
               \/ DatabaseFault(t) \/ CommitAnswerLost(t) \/ QueueFault(t)
        PROVE  Stoppable'
    <2>1. UNCHANGED <<worker, inFlight>> /\ phase[t] # "idle"
      BY <1>5 DEF CommitClaim, ReadEndpoints, AddJob, DatabaseFault, CommitAnswerLost, QueueFault
    <2>2. \A u \in Ticks : u # t => phase'[u] = phase[u]
      BY <1>5 DEF CommitClaim, ReadEndpoints, AddJob, DatabaseFault, CommitAnswerLost,
                  QueueFault, Continue, Finished, TypeOK
    <2> QED
      BY <1>1, <2>1, <2>2
  <1>6. ASSUME NEW w \in Workers, Crash(w) \/ Exit(w)
        PROVE  Stoppable'
    <2>1. Gone(w)
      BY <1>6 DEF Crash, Exit
    <2>2. /\ inFlight'[w] = NoTick /\ worker'[w] = "down"
          /\ \A v \in Workers : v # w => inFlight'[v] = inFlight[v] /\ worker'[v] = worker[v]
          /\ \A u \in Ticks : phase[u] = "idle" \/ Host[u] = w => phase'[u] = "idle"
      BY <2>1 DEF Gone, TypeOK
    <2>3. OwnTicks' /\ NewestIsOver'
      BY <2>2, DispatcherConstants DEF Stoppable, OwnTicks, NewestIsOver
    <2>4. TicksAreKnown'
      BY <2>2, DispatcherConstants DEF Stoppable, TicksAreKnown
    <2> QED
      BY <2>3, <2>4 DEF Stoppable
  <1>7. ASSUME NEW w \in Workers, Stop(w) \/ StopResolves(w) \/ Start(w)
        PROVE  Stoppable'
    BY <1>7 DEF Stop, StopResolves, Start, ticking, TypeOK, Stoppable, OwnTicks, NewestIsOver,
                TicksAreKnown
  <1>8. CASE UNCHANGED vars
    BY <1>1, <1>8 DEF vars, ticking
  <1>9. QED
    BY <1>2, <1>3, <1>4, <1>5, <1>6, <1>7, <1>8 DEF Next, Step

\* Whatever a tick of T owed is abandoned when the ticks of T stop where they are.
LEMMA HeldIsAbandoned ==
  ASSUME TypeOK, HandedOver, NEW T \in SUBSET Ticks,
         UNCHANGED <<dispatched, steady>>,
         abandoned \subseteq abandoned', \A t \in T : Held(t) \subseteq abandoned',
         \A e \in Events, p \in Endpoints : jobs[e][p] > 0 => jobs'[e][p] > 0,
         \A t \in Ticks \ T : /\ phase'[t] = phase[t] /\ batch'[t] = batch[t]
                              /\ event'[t] = event[t] /\ targets'[t] = targets[t]
  PROVE  HandedOver'
  <1>1. ASSUME NEW t \in Ticks, NEW e \in dispatched, NEW p \in Endpoints,
               e \notin abandoned', Owes(t, e, p)
        PROVE  Owes(t, e, p)'
    <2>1. e \in Held(t)
      BY <1>1 DEF Owes, Held, TypeOK
    <2>2. t \notin T
      BY <1>1, <2>1
    <2> QED
      BY <1>1, <2>2 DEF Owes
  <1> QED
    BY <1>1, HandedOverKept

LEMMA OneHeldIsAbandoned ==
  ASSUME TypeOK, HandedOver, NEW t \in Ticks,
         UNCHANGED <<dispatched, steady>>, abandoned' = abandoned \cup Held(t),
         \A e \in Events, p \in Endpoints : jobs[e][p] > 0 => jobs'[e][p] > 0,
         \A u \in Ticks : u # t => /\ phase'[u] = phase[u] /\ batch'[u] = batch[u]
                                   /\ event'[u] = event[u] /\ targets'[u] = targets[u]
  PROVE  HandedOver'
  <1> DEFINE T == {t}
  <1>1. /\ T \in SUBSET Ticks /\ \A u \in T : Held(u) \subseteq abandoned'
        /\ \A u \in Ticks \ T : /\ phase'[u] = phase[u] /\ batch'[u] = batch[u]
                                /\ event'[u] = event[u] /\ targets'[u] = targets[u]
    OBVIOUS
  <1> HIDE DEF T
  <1> QED
    BY <1>1, HeldIsAbandoned

LEMMA ReadHandedOver ==
  ASSUME TypeOK, PhaseShape, SteadyOnes, HandedOver, NEW t \in Ticks, ReadEndpoints(t)
  PROVE  HandedOver'
  <1>1. PICK e \in batch[t] :
          /\ batch' = [batch EXCEPT ![t] = @ \ {e}]
          /\ IF Subscribed(e) = {} THEN Continue(t)
             ELSE /\ phase' = [phase EXCEPT ![t] = "adding"]
                  /\ event' = [event EXCEPT ![t] = e]
                  /\ targets' = [targets EXCEPT ![t] = Subscribed(e)]
    BY DEF ReadEndpoints
  <1>2. phase[t] = "reading" /\ UNCHANGED <<dispatched, jobs, steady, abandoned>>
    BY DEF ReadEndpoints, rows, history
  <1>3. e \in Events
    BY <1>1 DEF TypeOK
  <1>4. \A u \in Ticks : u # t => /\ phase'[u] = phase[u] /\ batch'[u] = batch[u]
                                  /\ event'[u] = event[u] /\ targets'[u] = targets[u]
    BY <1>1 DEF TypeOK, Continue
  <1>5. ASSUME NEW f \in dispatched, NEW p \in Endpoints, p \in steady[f], Owes(t, f, p)
        PROVE  Owes(t, f, p)'
    <2>1. f \in batch[t]
      BY <1>2, <1>5 DEF Owes
    <2>2. CASE f = e
      <3>1. p \in Subscribed(e)
        BY <1>3, <1>5, <2>2 DEF SteadyOnes
      <3> QED
        BY <1>1, <2>2, <3>1 DEF Owes, TypeOK
    <2>3. CASE f # e
      <3>1. f \in batch'[t]
        BY <1>1, <2>1, <2>3 DEF TypeOK
      <3>2. phase'[t] \in {"reading", "adding"}
        BY <1>1, <3>1 DEF TypeOK, Continue
      <3> QED
        BY <3>1, <3>2 DEF Owes
    <2> QED
      BY <2>2, <2>3
  <1>6. ASSUME NEW u \in Ticks, NEW f \in dispatched, NEW p \in Endpoints, p \in steady[f],
               Owes(u, f, p)
        PROVE  Owes(u, f, p)'
    <2>1. u # t => Owes(u, f, p)'
      BY <1>4, <1>6 DEF Owes
    <2> QED
      BY <1>5, <1>6, <2>1
  <1> QED
    BY <1>2, <1>6, HandedOverKept

LEMMA AddHandedOver ==
  ASSUME TypeOK, PhaseShape, HandedOver, NEW t \in Ticks, AddJob(t)
  PROVE  HandedOver'
  <1>1. PICK p \in targets[t] :
          /\ jobs' = WithJob(event[t], p)
          /\ IF targets[t] = {p} THEN Continue(t)
             ELSE /\ targets' = [targets EXCEPT ![t] = @ \ {p}]
                  /\ UNCHANGED <<phase, event>>
    BY DEF AddJob
  <1>2. phase[t] = "adding" /\ UNCHANGED <<dispatched, batch, steady, abandoned>>
    BY DEF AddJob, rows, history
  <1>3. event[t] \in Events /\ p \in Endpoints
    BY <1>1, <1>2 DEF PhaseShape, TypeOK
  <1>4. /\ \A f \in Events, q \in Endpoints : jobs[f][q] > 0 => jobs'[f][q] > 0
        /\ jobs'[event[t]][p] > 0
    <2> PICK e : e = event[t]
      OBVIOUS
    <2> QED
      BY <1>1, <1>3, JobsGrow
  <1>5. \A u \in Ticks : u # t => /\ phase'[u] = phase[u] /\ batch'[u] = batch[u]
                                  /\ event'[u] = event[u] /\ targets'[u] = targets[u]
    BY <1>1, <1>2 DEF TypeOK, Continue
  <1>6. ASSUME NEW f \in dispatched, NEW q \in Endpoints, Owes(t, f, q)
        PROVE  Owes(t, f, q)' \/ jobs'[f][q] > 0
    <2>1. CASE f \in batch[t]
      <3>1. phase'[t] \in {"reading", "adding"}
        BY <1>1, <1>2, <2>1 DEF TypeOK, Continue
      <3> QED
        BY <1>2, <2>1, <3>1 DEF Owes
    <2>2. CASE f = event[t] /\ q \in targets[t] /\ q # p
      <3>1. phase'[t] = "adding" /\ event'[t] = event[t] /\ q \in targets'[t]
        BY <1>1, <1>2, <2>2 DEF TypeOK
      <3> QED
        BY <2>2, <3>1 DEF Owes
    <2>3. CASE f = event[t] /\ q = p
      BY <1>4, <2>3
    <2> QED
      BY <1>6, <2>1, <2>2, <2>3 DEF Owes
  <1>7. ASSUME NEW u \in Ticks, NEW f \in dispatched, NEW q \in Endpoints, Owes(u, f, q)
        PROVE  Owes(u, f, q)' \/ jobs'[f][q] > 0
    <2>1. u # t => Owes(u, f, q)'
      BY <1>5, <1>7 DEF Owes
    <2> QED
      BY <1>6, <1>7, <2>1
  <1> QED
    BY <1>2, <1>4, <1>7, HandedOverKept

LEMMA HandedOverStep ==
  TypeOK /\ Inv /\ HandedOver /\ SteadyOnes /\ [Next]_vars => HandedOver'
  <1> SUFFICES ASSUME TypeOK, Inv, HandedOver, SteadyOnes, [Next]_vars PROVE HandedOver'
    OBVIOUS
  <1>0. PhaseShape
    BY DEF Inv
  <1>1. ASSUME UNCHANGED <<dispatched, jobs, ticking, abandoned>>,
               \A e \in dispatched : steady'[e] \subseteq steady[e]
        PROVE  HandedOver'
    BY <1>1 DEF HandedOver, Owes, ticking
  <1>2. ASSUME NEW e \in Events, RecordEvent(e) PROVE HandedOver'
    <2>1. UNCHANGED <<dispatched, jobs, ticking, abandoned>>
      BY <1>2 DEF RecordEvent
    <2>2. \A f \in dispatched : steady'[f] = steady[f]
      BY <1>2 DEF RecordEvent, TypeOK
    <2> QED
      BY <1>1, <2>1, <2>2
  <1>3. ASSUME NEW e \in Events, NEW p \in Endpoints, CreateTestEvent(e, p)
        PROVE  HandedOver'
    <2>1. /\ dispatched' = dispatched \cup {e} /\ steady[e] = {}
          /\ UNCHANGED <<jobs, ticking, steady, abandoned>>
      BY <1>3 DEF CreateTestEvent, SteadyOnes, history
    <2> QED
      BY <2>1 DEF HandedOver, Owes, ticking
  <1>4. ASSUME NEW e \in Events, EnqueueTestEvent(e) \/ TestQueueFault(e)
        PROVE  HandedOver'
    <2>1. UNCHANGED <<dispatched, ticking, steady, abandoned>> /\ testing[e] \in Endpoints
      BY <1>4 DEF EnqueueTestEvent, TestQueueFault, rows, history, TypeOK
    <2>2. PICK p \in Endpoints : p = testing[e]
      BY <2>1
    <2>3. jobs' = jobs \/ jobs' = WithJob(e, p)
      BY <1>4, <2>2 DEF EnqueueTestEvent, TestQueueFault
    <2>4. \A f \in Events, q \in Endpoints : jobs[f][q] > 0 => jobs'[f][q] > 0
      BY <2>3, JobsGrow
    <2> QED
      BY <2>1, <2>4, HandedOverKept DEF Owes, ticking
  <1>5. ASSUME NEW p \in Endpoints, NEW types \in SUBSET Types,
               ChangeSubscription(p, types)
        PROVE  HandedOver'
    <2>1. UNCHANGED <<dispatched, jobs, ticking, abandoned>>
      BY <1>5 DEF ChangeSubscription, rows
    <2>2. \A e \in dispatched : steady'[e] \subseteq steady[e]
      BY <1>5 DEF ChangeSubscription, TypeOK
    <2> QED
      BY <1>1, <2>1, <2>2
  <1>6. ASSUME NEW t \in Ticks, Claim(t) PROVE HandedOver'
    <2>1. UNCHANGED <<dispatched, jobs, steady, abandoned>> /\ phase[t] = "idle"
      BY <1>6 DEF Claim, rows, history
    <2>2. \A u \in Ticks : u # t => /\ phase'[u] = phase[u] /\ batch'[u] = batch[u]
                                    /\ event'[u] = event[u] /\ targets'[u] = targets[u]
      BY <1>6 DEF Claim, ticking, TypeOK
    <2>3. Held(t) = {}
      BY <2>1 DEF Held
    <2> QED
      BY <2>1, <2>2, <2>3, OneHeldIsAbandoned
  <1>7. ASSUME NEW t \in Ticks, CommitClaim(t) PROVE HandedOver'
    <2>1. /\ dispatched' = dispatched \cup batch[t] /\ phase[t] = "claiming"
          /\ UNCHANGED <<jobs, steady, abandoned, batch, event, targets>>
          /\ \A u \in Ticks : phase'[u] = IF u = t THEN "reading" ELSE phase[u]
      BY <1>7 DEF CommitClaim, history, TypeOK
    <2>2. \A e \in dispatched' \ dispatched : \A p : Owes(t, e, p)'
      BY <2>1 DEF Owes
    <2>3. \A u \in Ticks : \A e, p : Owes(u, e, p) => Owes(u, e, p)'
      BY <2>1 DEF Owes
    <2> QED
      BY <2>1, <2>2, <2>3, HandedOverKept
  <1>8. ASSUME NEW t \in Ticks, CommitAnswerLost(t) PROVE HandedOver'
    <2>1. /\ dispatched' = dispatched \cup batch[t] /\ phase[t] = "claiming"
          /\ abandoned' = abandoned \cup batch[t]
          /\ UNCHANGED <<jobs, steady>>
          /\ \A u \in Ticks \ {t} : /\ phase'[u] = phase[u] /\ batch'[u] = batch[u]
                                    /\ event'[u] = event[u] /\ targets'[u] = targets[u]
      BY <1>8 DEF CommitAnswerLost, Finished, TypeOK
    <2>2. \A u \in Ticks : \A e, p : Owes(u, e, p) => Owes(u, e, p)'
      BY <2>1 DEF Owes
    <2> QED
      BY <2>1, <2>2, HandedOverKept
  <1>9. ASSUME NEW t \in Ticks, DatabaseFault(t) PROVE HandedOver'
    <2>1. /\ UNCHANGED <<dispatched, jobs, steady>> /\ abandoned' = abandoned \cup Held(t)
          /\ \A u \in Ticks : u # t => /\ phase'[u] = phase[u] /\ batch'[u] = batch[u]
                                       /\ event'[u] = event[u] /\ targets'[u] = targets[u]
      BY <1>9 DEF DatabaseFault, Finished, rows, TypeOK
    <2> QED
      BY <2>1, OneHeldIsAbandoned
  <1>10. ASSUME NEW t \in Ticks, QueueFault(t) PROVE HandedOver'
    <2>1. /\ UNCHANGED <<dispatched, steady>> /\ abandoned' = abandoned \cup Held(t)
          /\ \A u \in Ticks : u # t => /\ phase'[u] = phase[u] /\ batch'[u] = batch[u]
                                       /\ event'[u] = event[u] /\ targets'[u] = targets[u]
      BY <1>10 DEF QueueFault, Finished, rows, TypeOK
    <2>2. event[t] \in Events /\ targets[t] \subseteq Endpoints
      BY <1>0, <1>10 DEF QueueFault, PhaseShape, TypeOK
    <2>3. \A f \in Events, q \in Endpoints : jobs[f][q] > 0 => jobs'[f][q] > 0
      <3> PICK e : e = event[t]
        OBVIOUS
      <3>1. CASE \E p \in targets[t] : jobs' = WithJob(e, p)
        BY <2>2, <3>1, JobsGrow
      <3> QED
        BY <1>10, <3>1 DEF QueueFault
    <2> QED
      BY <2>1, <2>3, OneHeldIsAbandoned
  <1>11. ASSUME NEW w \in Workers, Crash(w) \/ Exit(w) PROVE HandedOver'
    <2> DEFINE T == {t \in Ticks : Host[t] = w}
    <2>1. Gone(w) /\ UNCHANGED <<dispatched, jobs, steady>>
      BY <1>11 DEF Crash, Exit, rows
    <2>2. /\ abandoned \subseteq abandoned' /\ \A t \in T : Held(t) \subseteq abandoned'
          /\ \A u \in Ticks \ T : /\ phase'[u] = phase[u] /\ batch'[u] = batch[u]
                                  /\ event'[u] = event[u] /\ targets'[u] = targets[u]
      BY <2>1 DEF Gone
    <2>3. T \in SUBSET Ticks
      OBVIOUS
    <2> HIDE DEF T
    <2> QED
      BY <2>1, <2>2, <2>3, HeldIsAbandoned
  <1>12. ASSUME NEW w \in Workers, Stop(w) \/ StopResolves(w) \/ Start(w) PROVE HandedOver'
    BY <1>1, <1>12 DEF Stop, StopResolves, Start, rows, history
  <1>13. CASE UNCHANGED vars
    BY <1>1, <1>13 DEF vars, rows, history
  <1>14. QED
    BY <1>0, <1>2, <1>3, <1>4, <1>5, <1>6, <1>7, <1>8, <1>9, <1>10, <1>11, <1>12, <1>13,
       ReadHandedOver, AddHandedOver DEF Next, Step

\* What is owed stays owed, and what is awaited is over, at every step.
THEOREM KeptHolds == Spec => []Kept
  <1>1. TypeOK /\ Inv /\ Kept /\ [Next]_vars => Kept'
    BY SteadyStep, StopStep, HandedOverStep DEF Kept, Stoppable
  <1> QED
    BY <1>1, KeptInit, TypeCorrect, InvHolds, PTL DEF Spec

\* dispatchOutboxBatch and the catch of the timer: a dispatched event is lost to an
\* endpoint only if a command of its tick failed or its process went away, whatever
\* other ticks and replicas do and however subscriptions change.
THEOREM LostIfCutShort == Spec => []LostOnlyIfCutShort
  <1>1. Kept /\ TypeOK => LostOnlyIfCutShort
    <2> SUFFICES ASSUME Kept, TypeOK, NEW e \in Events, Lost(e), e \notin abandoned
                 PROVE  FALSE
      BY DEF LostOnlyIfCutShort
    <2>1. PICK p \in steady[e] : jobs[e][p] = 0
      BY DEF Lost
    <2>2. PICK t \in Ticks : Owes(t, e, p)
      BY <2>1 DEF Lost, Kept, HandedOver
    <2>3. e \in Held(t)
      BY <2>2 DEF Owes, Held
    <2> QED
      BY <2>3 DEF Lost
  <1> QED
    BY <1>1, KeptHolds, TypeCorrect, PTL

\* A process is up but for a crash or a stop, and a tick is cut short by one of these or
\* by a failed command.
CutBy ==
    /\ \A w \in Workers : worker[w] # "up" => restarts > 0
    /\ abandoned # {} => faults > 0 \/ restarts > 0

LEMMA CutByStep == TypeOK /\ CutBy /\ [Next]_vars => CutBy'
  <1> SUFFICES ASSUME TypeOK, CutBy, [Next]_vars PROVE CutBy'
    OBVIOUS
  <1>1. faults \in Nat /\ restarts \in Nat /\ worker \in [Workers -> WorkerStates]
    BY DEF TypeOK
  <1>2. ASSUME UNCHANGED <<worker, restarts, faults, abandoned>> PROVE CutBy'
    BY <1>2 DEF CutBy
  <1>3. ASSUME faults' = faults + 1, UNCHANGED <<worker, restarts>> PROVE CutBy'
    BY <1>1, <1>3 DEF CutBy
  <1>4. ASSUME restarts > 0, restarts' \in {restarts, restarts + 1} PROVE CutBy'
    BY <1>1, <1>4 DEF CutBy
  <1>5. ASSUME NEW w \in Workers, Crash(w) \/ Stop(w) PROVE CutBy'
    <2>1. restarts' = restarts + 1
      BY <1>5 DEF Crash, Stop
    <2> QED
      BY <1>1, <2>1 DEF CutBy
  <1>6. ASSUME NEW w \in Workers, StopResolves(w) \/ Exit(w) \/ Start(w) PROVE CutBy'
    <2>1. worker[w] # "up" /\ restarts' = restarts
      BY <1>6 DEF StopResolves, Exit, Start, bounds
    <2> QED
      BY <1>4, <2>1 DEF CutBy
  <1>7. ASSUME NEW t \in Ticks,
               DatabaseFault(t) \/ CommitAnswerLost(t) \/ QueueFault(t)
        PROVE  CutBy'
    BY <1>3, <1>7 DEF DatabaseFault, CommitAnswerLost, QueueFault
  <1>8. ASSUME NEW e \in Events, TestQueueFault(e) PROVE CutBy'
    BY <1>3, <1>8 DEF TestQueueFault
  <1>9. ASSUME NEW t \in Ticks, Step(t) PROVE CutBy'
    BY <1>2, <1>9
       DEF Step, Claim, CommitClaim, ReadEndpoints, AddJob, bounds, history
  <1>10. ASSUME NEW e \in Events,
                \/ RecordEvent(e) \/ EnqueueTestEvent(e)
                \/ \E p \in Endpoints : CreateTestEvent(e, p)
         PROVE  CutBy'
    BY <1>2, <1>10 DEF RecordEvent, EnqueueTestEvent, CreateTestEvent, bounds, history
  <1>11. ASSUME NEW p \in Endpoints, NEW types \in SUBSET Types, ChangeSubscription(p, types)
         PROVE  CutBy'
    BY <1>2, <1>11 DEF ChangeSubscription
  <1>12. CASE UNCHANGED vars
    BY <1>2, <1>12 DEF vars, bounds, history
  <1> QED
    BY <1>5, <1>6, <1>7, <1>8, <1>9, <1>10, <1>11, <1>12 DEF Next

\* docs/DEBT.md, on the window between claim and enqueue, as far as it holds: while no
\* command of Postgres or Redis fails, a dispatched event is lost only if a process was
\* killed or stopped.
THEOREM LossWithoutFaultsNeedsCrash == Spec => [](faults = 0 => LossNeedsCrash)
  <1>1. Init => CutBy
    BY DEF Init, CutBy
  <1>2. TypeOK /\ CutBy /\ LostOnlyIfCutShort => (faults = 0 => LossNeedsCrash)
    BY DEF TypeOK, CutBy, LostOnlyIfCutShort, LossNeedsCrash
  <1>3. QED
    BY <1>1, <1>2, CutByStep, TypeCorrect, LostIfCutShort, PTL DEF Spec

\* outbox-dispatcher.ts:78, as far as it holds: if no process has two ticks under way, its
\* cycles being shorter than its interval, then shutdown cuts none of them in half.
THEOREM ShutdownCutsNoLoneTick ==
  ASSUME \A t, u \in Ticks : Host[t] = Host[u] => t = u
  PROVE  Spec => []ShutdownCutsNoTick
  <1>1. Kept => ShutdownCutsNoTick
    <2> SUFFICES ASSUME Kept, NEW t \in Ticks, worker[Host[t]] = "closing", phase[t] # "idle"
                 PROVE  FALSE
      BY DEF ShutdownCutsNoTick, Held
    <2>1. Host[t] \in Workers /\ inFlight[Host[t]] \in Ticks
      BY DispatcherConstants DEF Kept, TicksAreKnown
    <2>2. inFlight[Host[t]] = t
      BY <2>1 DEF Kept, OwnTicks
    <2> QED
      BY <2>1, <2>2 DEF Kept, NewestIsOver
  <1> QED
    BY <1>1, KeptHolds, PTL

-----------------------------------------------------------------------------
(* Refinement: the dispatcher implements OutboxPromise.                     *)

LEMMA AddIsHandOver ==
  ASSUME Inv, NEW e \in Events, NEW p \in Endpoints,
         e \in dispatched, jobs[e][p] = 0, jobs' = WithJob(e, p),
         UNCHANGED <<recorded, dispatched>>
  PROVE  Promise!Next
  <1>1. jobs' = [jobs EXCEPT ![e][p] = 1]
    BY DEF WithJob
  <1>2. Promise!HandOver(e, p)
    BY <1>1 DEF Promise!HandOver
  <1>3. QED
    BY <1>2 DEF Promise!Next

LEMMA StampIsClaim ==
  ASSUME TypeOK, Inv, NEW t \in Ticks, phase[t] = "claiming",
         dispatched' = dispatched \cup batch[t], UNCHANGED <<recorded, jobs>>
  PROVE  [Promise!Next]_Promise!vars
  <1>1. CASE batch[t] = {}
    BY <1>1 DEF Promise!vars
  <1>2. CASE batch[t] # {}
    <2>1. batch[t] \in SUBSET Events /\ batch[t] \subseteq recorded \ dispatched
      BY DEF Inv, PhaseShape, TypeOK
    <2>2. Promise!Claim(batch[t])
      BY <1>2, <2>1 DEF Promise!Claim
    <2>3. QED
      BY <2>1, <2>2 DEF Promise!Next
  <1>3. QED
    BY <1>1, <1>2

LEMMA PromiseStep ==
  TypeOK /\ Inv /\ [Next]_vars => [Promise!Next]_Promise!vars
  <1> SUFFICES ASSUME TypeOK, Inv, [Next]_vars PROVE [Promise!Next]_Promise!vars
    OBVIOUS
  <1>1. ASSUME NEW e \in Events, RecordEvent(e) PROVE Promise!Next
    <2>1. Promise!Record(e)
      BY <1>1 DEF RecordEvent, Promise!Record
    <2>2. QED
      BY <2>1 DEF Promise!Next
  <1>2. ASSUME NEW e \in Events, NEW p \in Endpoints, CreateTestEvent(e, p)
        PROVE  Promise!Next
    <2>1. Promise!Record(e)
      BY <1>2 DEF CreateTestEvent, Promise!Record
    <2>2. QED
      BY <2>1 DEF Promise!Next
  <1>3. ASSUME NEW e \in Events, EnqueueTestEvent(e) \/ TestQueueFault(e)
        PROVE  [Promise!Next]_Promise!vars
    <2>1. testing[e] # NoEndpoint /\ UNCHANGED <<recorded, dispatched>>
      BY <1>3 DEF EnqueueTestEvent, TestQueueFault, rows
    <2>2. testing[e] \in Endpoints
      BY <2>1 DEF TypeOK
    <2>3. e \in dispatched /\ jobs[e][testing[e]] = 0
      BY <2>1, <2>2 DEF Inv, WorkApart, OwedHasNoJob, Untouched
    <2>4. UNCHANGED jobs \/ jobs' = WithJob(e, testing[e])
      BY <1>3 DEF EnqueueTestEvent, TestQueueFault
    <2>5. QED
      BY <2>1, <2>2, <2>3, <2>4, AddIsHandOver DEF Promise!vars
  <1>4. ASSUME NEW t \in Ticks, CommitClaim(t) \/ CommitAnswerLost(t)
        PROVE  [Promise!Next]_Promise!vars
    BY <1>4, StampIsClaim DEF CommitClaim, CommitAnswerLost
  <1>5. ASSUME NEW t \in Ticks, AddJob(t) \/ QueueFault(t)
        PROVE  [Promise!Next]_Promise!vars
    <2>1. phase[t] = "adding" /\ UNCHANGED <<recorded, dispatched>>
      BY <1>5 DEF AddJob, QueueFault, rows
    <2>2. UNCHANGED jobs \/ \E p \in targets[t] : jobs' = WithJob(event[t], p)
      BY <1>5 DEF AddJob, QueueFault
    <2>3. event[t] \in dispatched /\ event[t] \in Events
      BY <2>1 DEF Inv, PhaseShape, TypeOK
    <2>4. \A p \in targets[t] : p \in Endpoints /\ jobs[event[t]][p] = 0
      BY <2>1 DEF Inv, OwedHasNoJob, TypeOK
    <2>5. QED
      BY <2>1, <2>2, <2>3, <2>4, AddIsHandOver DEF Promise!vars
  <1>6. ASSUME UNCHANGED <<rows, jobs>> PROVE [Promise!Next]_Promise!vars
    BY <1>6 DEF rows, Promise!vars
  <1>7. ASSUME NEW t \in Ticks, Claim(t) \/ ReadEndpoints(t) \/ DatabaseFault(t)
        PROVE  [Promise!Next]_Promise!vars
    BY <1>6, <1>7 DEF Claim, ReadEndpoints, DatabaseFault
  <1>8. ASSUME NEW w \in Workers,
               Crash(w) \/ Stop(w) \/ StopResolves(w) \/ Exit(w) \/ Start(w)
        PROVE  [Promise!Next]_Promise!vars
    BY <1>6, <1>8 DEF Crash, Stop, StopResolves, Exit, Start
  <1>9. ASSUME NEW p \in Endpoints, NEW types \in SUBSET Types,
               ChangeSubscription(p, types)
        PROVE  [Promise!Next]_Promise!vars
    BY <1>6, <1>9 DEF ChangeSubscription
  <1>10. CASE UNCHANGED vars
    BY <1>6, <1>10 DEF vars
  <1>11. QED
    BY <1>1, <1>2, <1>3, <1>4, <1>5, <1>7, <1>8, <1>9, <1>10 DEF Next, Step

\* Every behaviour of the dispatcher, with its ticks, faults and restarts, is
\* one the outbox promises: claim once, after the commit; hand over at most
\* once, after the claim.
THEOREM DispatcherKeepsPromise == Spec => ImplementsPromise
  <1>1. Init => Promise!Init
    BY DEF Init, Promise!Init
  <1>2. QED
    BY <1>1, PromiseStep, TypeCorrect, InvHolds, PTL
       DEF Spec, ImplementsPromise, Promise!Spec

=============================================================================
