---------------------------- MODULE WebhookProofs ----------------------------
(***************************************************************************)
(* Theorems about webhooks: WebhookDelivery, for any endpoints and jobs,   *)
(* any limits of attempts and failures, any faults and at most one crash; *)
(* isPrivateIPv4 and isPrivateIPv6 against the address blocks they are     *)
(* about, for every address and every text of it; and what                 *)
(* verifyWebhookSignature takes, for any secrets and bodies, headers of    *)
(* any length and any times.                                               *)
(***************************************************************************)
EXTENDS WebhookDelivery, WebhookUrl, WebhookSignature, FiniteSetTheorems, SequenceTheorems,
        WellFoundedInduction, TLAPS

-----------------------------------------------------------------------------
(* Deliveries: the inductive invariant.                                    *)

\* A handler runs exactly while its job is active, and a job that is still to run has
\* attempts left; only a failed job is counted.
QueueShape ==
    \A j \in Jobs :
        /\ step[j] = "idle" <=> queue[j] # "active"
        /\ queue[j] \in {"waiting", "active"} => attemptsMade[j] < MaxAttempts
        /\ chain[j] # "none" => queue[j] = "failed"

\* The attempt under way has a row for each time it stalled, and one more when it has
\* been recorded; later attempts have none.
RowsFit ==
    \A j \in Jobs, n \in Attempts :
        /\ deliveries[j][n] <= 1 + stalls[j]
        /\ n = attemptsMade[j] + 1 /\ step[j] \notin {"resetting", "returning"}
              => deliveries[j][n] <= stalls[j]
        /\ n > attemptsMade[j] + 1 => deliveries[j][n] = 0

Logged(j) == present[Target[j]] => \E n \in Attempts : deliveries[j][n] > 0

\* A success is one of the receiver from the answer on, and one of the log from its
\* row on.
SuccessKept ==
    \A j \in Jobs :
        /\ outcome[j] = "ok" /\ (step[j] # "idle" \/ queue[j] = "completed")
              => /\ j \in accepted
                 /\ step[j] # "recording" => Logged(j)
        /\ step[j] = "resetting" => outcome[j] = "ok"
        /\ step[j] = "posting" => outcome[j] = "none"

Failed(p) == {j \in JobsOf(p) : queue[j] = "failed"}
Counted(p) == {j \in Failed(p) : chain[j] # "counting"}

\* The counter counts failed jobs once each, and who decided to disable, or did, saw
\* enough of them.
FailuresCounted ==
    \A p \in Endpoints :
        /\ IsFiniteSet(Failed(p))
        /\ failures[p] <= Cardinality(Counted(p))
        /\ reason[p] = "auto" => Cardinality(Failed(p)) >= MaxFailures
        /\ \A j \in JobsOf(p) :
              chain[j] = "disabling" => Cardinality(Failed(p)) >= MaxFailures

Inv == TypeOK /\ QueueShape /\ RowsFit /\ SuccessKept /\ FailuresCounted

-----------------------------------------------------------------------------
(* Type correctness, which needs the shape of the queue.                   *)

LEMMA TypeInit == Init => TypeOK /\ QueueShape
  BY DeliveryConstants
     DEF Init, TypeOK, EndpointRows, DeliveryRows, QueueStates, Steps, Outcomes, Attempts,
         QueueShape

LEMMA TargetType == ASSUME NEW j \in Jobs PROVE Target[j] \in Endpoints
  BY DeliveryConstants

LEMMA ResultTyped ==
  ASSUME TypeOK, QueueShape, NEW j \in Jobs, NEW o \in Outcomes, queue[j] = "active",
         Result(j, o), UNCHANGED <<queue, attemptsMade, chain>>
  PROVE  /\ step' \in [Jobs -> Steps] /\ outcome' \in [Jobs -> Outcomes]
         /\ seen' \in [Jobs -> Nat] /\ QueueShape'
  BY DEF TypeOK, Result, Steps, QueueShape

\* A new row of the attempt under way, one that the job is allowed to have.
LEMMA WithDeliveryTyped ==
  ASSUME TypeOK, QueueShape, NEW j \in Jobs, queue[j] = "active"
  PROVE  /\ WithDelivery(j) \in [Jobs -> [Attempts -> Nat]]
         /\ attemptsMade[j] + 1 \in Attempts
         /\ \A i \in Jobs, n \in Attempts :
               WithDelivery(j)[i][n] = IF i = j /\ n = attemptsMade[j] + 1
                                       THEN deliveries[i][n] + 1 ELSE deliveries[i][n]
  <1> DEFINE n == attemptsMade[j] + 1
  <1>1. n \in Attempts
    BY DeliveryConstants, SMT DEF TypeOK, QueueShape, Attempts
  <1>2. deliveries \in [Jobs -> [Attempts -> Nat]]
    BY DEF TypeOK, DeliveryRows
  <1> QED
    BY <1>1, <1>2 DEF WithDelivery

LEMMA TypeStep == TypeOK /\ QueueShape /\ [Next]_vars => TypeOK' /\ QueueShape'
  <1> SUFFICES ASSUME TypeOK, QueueShape, [Next]_vars PROVE TypeOK' /\ QueueShape'
    OBVIOUS
  <1>1. ASSUME NEW j \in Jobs, StartAttempt(j) PROVE TypeOK' /\ QueueShape'
    <2>1. failures[Target[j]] \in Nat
      BY TargetType DEF TypeOK, EndpointRows
    <2>2. /\ step' \in [Jobs -> Steps] /\ outcome' \in [Jobs -> Outcomes]
          /\ seen' \in [Jobs -> Nat] /\ step'[j] # "idle"
          /\ \A i \in Jobs : i # j => step'[i] = step[i]
      BY <1>1, <2>1 DEF StartAttempt, Result, TypeOK, Steps, Outcomes
    <2>3. QueueShape'
      BY <1>1, <2>2 DEF StartAttempt, QueueShape, TypeOK
    <2>4. queue' \in [Jobs -> QueueStates]
      BY <1>1 DEF StartAttempt, TypeOK, QueueStates
    <2> QED
      BY <1>1, <2>2, <2>3, <2>4
         DEF StartAttempt, TypeOK, EndpointRows, DeliveryRows, row, bounds, history
  <1>2. ASSUME NEW j \in Jobs, Post(j) PROVE TypeOK' /\ QueueShape'
    <2>1. accepted' \in SUBSET Jobs /\ outcome' \in [Jobs -> Outcomes]
      BY <1>2 DEF Post, TypeOK, Outcomes
    <2>2. step' \in [Jobs -> Steps] /\ QueueShape'
      BY <1>2 DEF Post, TypeOK, Steps, QueueShape, job
    <2> QED
      BY <1>2, <2>1, <2>2
         DEF Post, TypeOK, EndpointRows, DeliveryRows, row, job, bounds, history
  <1>3. ASSUME NEW j \in Jobs, RecordDelivery(j) PROVE TypeOK' /\ QueueShape'
    <2>1. queue[j] = "active" /\ outcome[j] \in Outcomes
      BY <1>3 DEF RecordDelivery, QueueShape, TypeOK
    <2>2. deliveries' \in [Jobs -> [Attempts -> Nat]]
      BY <1>3, <2>1, WithDeliveryTyped DEF RecordDelivery, TypeOK, DeliveryRows
    <2>3. /\ step' \in [Jobs -> Steps] /\ outcome' \in [Jobs -> Outcomes]
          /\ seen' \in [Jobs -> Nat] /\ QueueShape' /\ streak' \in [Endpoints -> Nat]
      <3>1. CASE present[Target[j]] /\ outcome[j] = "ok" /\ seen[j] # 0
        BY <1>3, <2>1, <3>1 DEF RecordDelivery, TypeOK, QueueShape, Steps, job
      <3>2. CASE ~(present[Target[j]] /\ outcome[j] = "ok" /\ seen[j] # 0)
        <4>1. PICK o \in Outcomes : Result(j, o)
          BY <1>3, <2>1, <3>2 DEF RecordDelivery, Outcomes
        <4>2. streak' \in [Endpoints -> Nat]
          BY <1>3, <3>2 DEF RecordDelivery, TypeOK
        <4> QED
          BY <1>3, <2>1, <4>1, <4>2, ResultTyped DEF RecordDelivery, job
      <3> QED
        BY <3>1, <3>2
    <2> QED
      BY <1>3, <2>2, <2>3
         DEF RecordDelivery, TypeOK, EndpointRows, DeliveryRows, row, job, bounds, history
  <1>4. ASSUME NEW j \in Jobs, ResetFailures(j) PROVE TypeOK' /\ QueueShape'
    <2>1. queue[j] = "active" /\ outcome[j] \in Outcomes /\ "error" \in Outcomes
      BY <1>4 DEF ResetFailures, QueueShape, TypeOK, Outcomes
    <2>2. failures' \in [Endpoints -> Nat] /\ streak' \in [Endpoints -> Nat]
      BY <1>4 DEF ResetFailures, TypeOK, EndpointRows
    <2>3. /\ step' \in [Jobs -> Steps] /\ outcome' \in [Jobs -> Outcomes]
          /\ seen' \in [Jobs -> Nat] /\ QueueShape'
      BY <1>4, <2>1, ResultTyped DEF ResetFailures, job
    <2> QED
      BY <1>4, <2>2, <2>3
         DEF ResetFailures, TypeOK, EndpointRows, DeliveryRows, job, bounds
  <1>5. ASSUME NEW j \in Jobs, DatabaseFault(j) PROVE TypeOK' /\ QueueShape'
    <2>1. queue[j] = "active" /\ "error" \in Outcomes
      BY <1>5 DEF DatabaseFault, QueueShape, TypeOK, Outcomes
    <2>2. DeliveryRows' /\ failures' \in [Endpoints -> Nat]
      BY <1>5, <2>1, WithDeliveryTyped DEF DatabaseFault, TypeOK, DeliveryRows, EndpointRows
    <2>3. /\ step' \in [Jobs -> Steps] /\ outcome' \in [Jobs -> Outcomes]
          /\ seen' \in [Jobs -> Nat] /\ QueueShape'
      BY <1>5, <2>1, ResultTyped DEF DatabaseFault, job
    <2> QED
      BY <1>5, <2>2, <2>3 DEF DatabaseFault, TypeOK, EndpointRows, job, history
  <1>6. ASSUME NEW j \in Jobs, Return(j) PROVE TypeOK' /\ QueueShape'
    <2>1. queue[j] = "active" /\ attemptsMade[j] < MaxAttempts /\ attemptsMade[j] \in Nat
      BY <1>6 DEF Return, QueueShape, TypeOK
    <2>2. attemptsMade' \in [Jobs -> 0..MaxAttempts]
      BY <1>6, <2>1, DeliveryConstants DEF Return, TypeOK
    <2>3. /\ queue' \in [Jobs -> QueueStates] /\ step' \in [Jobs -> Steps]
          /\ chain' \in [Jobs -> {"none", "counting", "disabling"}]
      BY <1>6 DEF Return, TypeOK, QueueStates, Steps
    <2>4. /\ step'[j] = "idle"
          /\ attemptsMade'[j] = attemptsMade[j] + 1
          /\ queue'[j] \in {"completed", "failed", "waiting"}
          /\ queue'[j] = "waiting" => attemptsMade[j] + 1 < MaxAttempts
          /\ chain'[j] # "none" => queue'[j] = "failed"
      <3>1. chain[j] = "none"
        BY <2>1 DEF QueueShape
      <3>2. step'[j] = "idle" /\ attemptsMade'[j] = attemptsMade[j] + 1
        BY <1>6 DEF Return, TypeOK
      <3>3. CASE outcome[j] # "error"
        BY <1>6, <3>1, <3>2, <3>3 DEF Return, TypeOK
      <3>4. CASE outcome[j] = "error" /\ attemptsMade[j] + 1 >= MaxAttempts
        BY <1>6, <3>2, <3>4 DEF Return, TypeOK
      <3>5. CASE outcome[j] = "error" /\ ~(attemptsMade[j] + 1 >= MaxAttempts)
        <4>1. queue'[j] = "waiting" /\ chain'[j] = chain[j]
          BY <1>6, <3>5 DEF Return, TypeOK
        <4>2. attemptsMade[j] + 1 < MaxAttempts
          BY <2>1, <3>5, DeliveryConstants
        <4> QED
          BY <3>1, <3>2, <4>1, <4>2
      <3> QED
        BY <3>3, <3>4, <3>5
    <2>5. \A i \in Jobs : i # j => /\ step'[i] = step[i] /\ queue'[i] = queue[i]
                                   /\ attemptsMade'[i] = attemptsMade[i] /\ chain'[i] = chain[i]
      BY <1>6 DEF Return, TypeOK
    <2>6. QueueShape'
      BY <2>4, <2>5 DEF QueueShape
    <2>7. UNCHANGED <<row, deliveries, stalls, seen, outcome, accepted, bounds, history>>
      BY <1>6 DEF Return
    <2> QED
      BY <2>2, <2>3, <2>6, <2>7 DEF TypeOK, EndpointRows, DeliveryRows, row, bounds, history
  <1>7. ASSUME NEW j \in Jobs, CountExhausted(j) PROVE TypeOK' /\ QueueShape'
    <2>1. /\ failures' \in [Endpoints -> Nat] /\ streak' \in [Endpoints -> Nat]
          /\ chances' \in [Endpoints -> Nat]
      BY <1>7, TargetType DEF CountExhausted, TypeOK, EndpointRows
    <2>2. \E c \in {"none", "disabling"} : chain' = [chain EXCEPT ![j] = c]
      BY <1>7 DEF CountExhausted, ChainEnds
    <2>3. UNCHANGED <<present, enabled, reason, deliveries, job, handler, accepted, bounds,
                      undisabled>>
      BY <1>7 DEF CountExhausted
    <2>4. chain[j] = "counting"
      BY <1>7 DEF CountExhausted
    <2> QED
      BY <2>1, <2>2, <2>3, <2>4
         DEF TypeOK, QueueShape, EndpointRows, DeliveryRows, job, handler, bounds
  <1>8. ASSUME NEW j \in Jobs, DisableEndpoint(j) PROVE TypeOK' /\ QueueShape'
    BY <1>8 DEF DisableEndpoint, ChainEnds, TypeOK, QueueShape, EndpointRows, DeliveryRows, job,
                handler, bounds
  <1>9. ASSUME NEW j \in Jobs, ChainWithoutEndpoint(j) PROVE TypeOK' /\ QueueShape'
    BY <1>9 DEF ChainWithoutEndpoint, ChainEnds, TypeOK, QueueShape, EndpointRows, DeliveryRows,
                row, job, handler, bounds, history
  <1>10. ASSUME NEW S \in SUBSET Jobs, CutShort(S) PROVE undisabled' \in SUBSET Endpoints
    BY <1>10, TargetType DEF CutShort, TypeOK
  <1>11. ASSUME NEW j \in Jobs, ChainFault(j) PROVE TypeOK' /\ QueueShape'
    BY <1>10, <1>11 DEF ChainFault, ChainEnds, TypeOK, QueueShape, EndpointRows, DeliveryRows,
                        row, job, handler
  <1>12. CASE Crash
    <2>1. undisabled' \in SUBSET Endpoints
      BY <1>10, <1>12 DEF Crash
    <2>2. stalls' \in [Jobs -> Nat] /\ crashes' \in Nat
      BY <1>12 DEF Crash, TypeOK
    <2>3. /\ queue' \in [Jobs -> QueueStates] /\ step' \in [Jobs -> Steps]
          /\ seen' \in [Jobs -> Nat] /\ chain' \in [Jobs -> {"none", "counting", "disabling"}]
      BY <1>12 DEF Crash, TypeOK, QueueStates, Steps
    <2>4. QueueShape'
      BY <1>12 DEF Crash, QueueShape, TypeOK
    <2> QED
      BY <1>12, <2>1, <2>2, <2>3, <2>4
         DEF Crash, TypeOK, EndpointRows, DeliveryRows, row
  <1>13. CASE Shutdown
    BY <1>10, <1>13 DEF Shutdown, TypeOK, QueueShape, EndpointRows, DeliveryRows, row, job, handler
  <1>14. ASSUME NEW p \in Endpoints, Administer(p) PROVE TypeOK' /\ QueueShape'
    <2>1. CASE Enable(p)
      BY <2>1 DEF Enable, Change, TypeOK, QueueShape, EndpointRows, DeliveryRows, job, handler
    <2>2. CASE Disable(p)
      BY <2>2 DEF Disable, Change, TypeOK, QueueShape, EndpointRows, DeliveryRows, job, handler,
                  history
    <2>3. CASE Remove(p)
      BY <2>3 DEF Remove, Change, TypeOK, QueueShape, EndpointRows, DeliveryRows, job, handler,
                  history
    <2> QED
      BY <1>14, <2>1, <2>2, <2>3 DEF Administer
  <1>15. CASE UNCHANGED vars
    BY <1>15 DEF vars, TypeOK, QueueShape, EndpointRows, DeliveryRows, row, job, handler, bounds,
                 history
  <1> QED
    BY <1>1, <1>2, <1>3, <1>4, <1>5, <1>6, <1>7, <1>8, <1>9, <1>11, <1>12, <1>13, <1>14, <1>15
       DEF Next, Attempt, Exhausted

-----------------------------------------------------------------------------
(* The rows of the attempts.                                               *)

LEMMA RowsInit == Init => RowsFit
  BY DeliveryConstants DEF Init, RowsFit, Attempts

\* Who leaves the rows, the attempts and the stalls alone keeps the rows right, unless a
\* job at an attempt it has recorded seems not to have.
LEMMA RowsKept ==
  ASSUME RowsFit, UNCHANGED <<deliveries, attemptsMade, stalls>>,
         \A j \in Jobs : step[j] \in {"resetting", "returning"}
                            => step'[j] \in {"resetting", "returning"}
  PROVE  RowsFit'
  BY DEF RowsFit

\* A new row is one of the attempt under way, which is over then.
LEMMA RowsAdded ==
  ASSUME TypeOK, QueueShape, RowsFit, NEW j \in Jobs, step[j] = "recording",
         deliveries' = WithDelivery(j), UNCHANGED <<attemptsMade, stalls>>,
         step'[j] \in {"resetting", "returning"},
         \A i \in Jobs : i # j => step'[i] = step[i]
  PROVE  RowsFit'
  <1> SUFFICES ASSUME NEW i \in Jobs, NEW n \in Attempts
               PROVE  /\ deliveries'[i][n] <= 1 + stalls[i]
                      /\ n = attemptsMade[i] + 1 /\ step'[i] \notin {"resetting", "returning"}
                            => deliveries'[i][n] <= stalls[i]
                      /\ n > attemptsMade[i] + 1 => deliveries'[i][n] = 0
    BY DEF RowsFit
  <1>1. queue[j] = "active"
    BY DEF QueueShape
  <1>2. deliveries'[i][n] = IF i = j /\ n = attemptsMade[j] + 1
                            THEN deliveries[i][n] + 1 ELSE deliveries[i][n]
    BY <1>1, WithDeliveryTyped
  <1>3. /\ deliveries[i][n] \in Nat /\ stalls[i] \in Nat /\ attemptsMade[i] \in Nat
        /\ n \in Nat
    BY DeliveryConstants DEF TypeOK, DeliveryRows, Attempts
  <1>4. CASE i = j /\ n = attemptsMade[j] + 1
    <2>1. deliveries[i][n] <= stalls[i]
      BY <1>4 DEF RowsFit
    <2> QED
      BY <1>2, <1>3, <1>4, <2>1
  <1>5. CASE ~(i = j /\ n = attemptsMade[j] + 1)
    BY <1>2, <1>3, <1>5 DEF RowsFit
  <1> QED
    BY <1>4, <1>5

LEMMA RowsStep == TypeOK /\ QueueShape /\ RowsFit /\ [Next]_vars => RowsFit'
  <1> SUFFICES ASSUME TypeOK, QueueShape, RowsFit, [Next]_vars PROVE RowsFit'
    OBVIOUS
  <1>1. ASSUME NEW j \in Jobs, StartAttempt(j) PROVE RowsFit'
    <2>1. step[j] = "idle"
      BY <1>1 DEF StartAttempt, QueueShape
    <2> QED
      BY <1>1, <2>1, RowsKept DEF StartAttempt, Result, TypeOK
  <1>2. ASSUME NEW j \in Jobs, Post(j) PROVE RowsFit'
    BY <1>2, RowsKept DEF Post, TypeOK, job
  <1>3. ASSUME NEW j \in Jobs, RecordDelivery(j) PROVE RowsFit'
    <2>1. /\ step'[j] \in {"resetting", "returning"}
          /\ \A i \in Jobs : i # j => step'[i] = step[i]
      BY <1>3 DEF RecordDelivery, Result, TypeOK
    <2>2. step[j] = "recording" /\ UNCHANGED <<attemptsMade, stalls>>
      BY <1>3 DEF RecordDelivery, job
    <2>3. CASE present[Target[j]]
      BY <1>3, <2>1, <2>2, <2>3, RowsAdded DEF RecordDelivery
    <2>4. CASE ~present[Target[j]]
      <3>1. deliveries' = deliveries
        BY <1>3, <2>4 DEF RecordDelivery
      <3> QED
        BY <2>1, <2>2, <3>1, RowsKept
    <2> QED
      BY <2>3, <2>4
  <1>4. ASSUME NEW j \in Jobs, ResetFailures(j) PROVE RowsFit'
    BY <1>4, RowsKept DEF ResetFailures, Result, TypeOK, job
  <1>5. ASSUME NEW j \in Jobs, DatabaseFault(j) PROVE RowsFit'
    <2>1. /\ step'[j] = "returning" /\ UNCHANGED <<attemptsMade, stalls>>
          /\ \A i \in Jobs : i # j => step'[i] = step[i]
      BY <1>5 DEF DatabaseFault, Result, TypeOK, job
    <2>2. CASE deliveries' = deliveries
      BY <2>1, <2>2, RowsKept
    <2>3. CASE step[j] = "recording" /\ deliveries' = WithDelivery(j)
      BY <2>1, <2>3, RowsAdded
    <2> QED
      BY <1>5, <2>2, <2>3 DEF DatabaseFault
  <1>6. ASSUME NEW j \in Jobs, Return(j) PROVE RowsFit'
    <2> SUFFICES ASSUME NEW i \in Jobs, NEW n \in Attempts
                 PROVE  /\ deliveries'[i][n] <= 1 + stalls'[i]
                        /\ n = attemptsMade'[i] + 1 /\ step'[i] \notin {"resetting", "returning"}
                              => deliveries'[i][n] <= stalls'[i]
                        /\ n > attemptsMade'[i] + 1 => deliveries'[i][n] = 0
      BY DEF RowsFit
    <2>1. deliveries' = deliveries /\ stalls' = stalls
      BY <1>6 DEF Return
    <2>2. deliveries[i][n] \in Nat /\ stalls[i] \in Nat /\ attemptsMade[i] \in Nat /\ n \in Nat
      BY DeliveryConstants DEF TypeOK, DeliveryRows, Attempts
    <2>3. attemptsMade'[i] = IF i = j THEN attemptsMade[i] + 1 ELSE attemptsMade[i]
      BY <1>6 DEF Return, TypeOK
    <2>4. i # j => step'[i] = step[i]
      BY <1>6 DEF Return, TypeOK
    <2>5. /\ deliveries[i][n] <= 1 + stalls[i]
          /\ n = attemptsMade[i] + 1 /\ step[i] \notin {"resetting", "returning"}
                => deliveries[i][n] <= stalls[i]
          /\ n > attemptsMade[i] + 1 => deliveries[i][n] = 0
      BY DEF RowsFit
    <2> QED
      BY <2>1, <2>2, <2>3, <2>4, <2>5
  <1>7. ASSUME NEW j \in Jobs, CountExhausted(j) \/ DisableEndpoint(j) PROVE RowsFit'
    BY <1>7, RowsKept DEF CountExhausted, DisableEndpoint, job, handler
  <1>8. ASSUME NEW j \in Jobs, ChainWithoutEndpoint(j) \/ ChainFault(j) PROVE RowsFit'
    BY <1>8, RowsKept DEF ChainWithoutEndpoint, ChainFault, job, handler
  <1>9. CASE Crash
    <2> SUFFICES ASSUME NEW i \in Jobs, NEW n \in Attempts
                 PROVE  /\ deliveries'[i][n] <= 1 + stalls'[i]
                        /\ n = attemptsMade'[i] + 1 => deliveries'[i][n] <= stalls'[i]
                        /\ n > attemptsMade'[i] + 1 => deliveries'[i][n] = 0
      BY DEF RowsFit
    <2>1. deliveries' = deliveries /\ attemptsMade' = attemptsMade
      BY <1>9 DEF Crash
    <2>2. deliveries[i][n] \in Nat /\ stalls[i] \in Nat
      BY DEF TypeOK, DeliveryRows
    <2>3. CASE queue[i] = "active"
      <3>1. stalls'[i] = stalls[i] + 1
        BY <1>9, <2>3 DEF Crash
      <3> QED
        BY <2>1, <2>2, <3>1 DEF RowsFit
    <2>4. CASE queue[i] # "active"
      <3>1. stalls'[i] = stalls[i]
        BY <1>9, <2>2, <2>4 DEF Crash
      <3>2. step[i] = "idle"
        BY <2>4 DEF QueueShape
      <3> QED
        BY <2>1, <3>1, <3>2 DEF RowsFit
    <2> QED
      BY <2>3, <2>4
  <1>10. CASE Shutdown
    BY <1>10, RowsKept DEF Shutdown, job, handler
  <1>11. ASSUME NEW p \in Endpoints, Enable(p) \/ Disable(p) PROVE RowsFit'
    BY <1>11, RowsKept DEF Enable, Disable, job, handler
  <1>12. ASSUME NEW p \in Endpoints, Remove(p) PROVE RowsFit'
    <2>1. UNCHANGED <<attemptsMade, stalls, step>>
      BY <1>12 DEF Remove, job, handler
    <2>2. ASSUME NEW i \in Jobs, NEW n \in Attempts
          PROVE  deliveries'[i][n] = 0 \/ deliveries'[i][n] = deliveries[i][n]
      BY <1>12 DEF Remove
    <2>3. \A i \in Jobs : stalls[i] \in Nat
      BY DEF TypeOK
    <2> QED
      BY <2>1, <2>2, <2>3 DEF RowsFit
  <1>13. CASE UNCHANGED vars
    BY <1>13, RowsKept DEF vars, job, handler
  <1> QED
    BY <1>1, <1>2, <1>3, <1>4, <1>5, <1>6, <1>7, <1>8, <1>9, <1>10, <1>11, <1>12, <1>13
       DEF Next, Attempt, Exhausted, Administer

-----------------------------------------------------------------------------
(* Successes.                                                              *)

LEMMA SuccessInit == Init => SuccessKept
  BY DEF Init, SuccessKept

\* A success stands while no log of a present endpoint loses its rows and no handler but
\* that of j goes on, which has had no success or keeps it.
LEMMA SuccessOf ==
  ASSUME TypeOK, QueueShape, SuccessKept, NEW j \in Jobs, accepted \subseteq accepted',
         \A i \in Jobs : i # j => /\ step'[i] = step[i] /\ queue'[i] = queue[i]
                                  /\ outcome'[i] = outcome[i],
         \A i \in Jobs : Logged(i) => Logged(i)',
         /\ outcome'[j] = "ok" /\ (step'[j] # "idle" \/ queue'[j] = "completed")
               => j \in accepted' /\ (step'[j] # "recording" => Logged(j)')
         /\ step'[j] = "resetting" => outcome'[j] = "ok"
         /\ step'[j] = "posting" => outcome'[j] = "none"
  PROVE  SuccessKept'
  <1> SUFFICES ASSUME NEW i \in Jobs
               PROVE  /\ outcome'[i] = "ok" /\ (step'[i] # "idle" \/ queue'[i] = "completed")
                            => i \in accepted' /\ (step'[i] # "recording" => Logged(i)')
                      /\ step'[i] = "resetting" => outcome'[i] = "ok"
                      /\ step'[i] = "posting" => outcome'[i] = "none"
    BY DEF SuccessKept
  <1>1. CASE i = j
    BY <1>1
  <1>2. CASE i # j
    BY <1>2 DEF SuccessKept
  <1> QED
    BY <1>1, <1>2

\* A row of the log stays.
LEMMA LoggedKept ==
  ASSUME UNCHANGED <<present, deliveries>>, NEW i \in Jobs, Logged(i)
  PROVE  Logged(i)'
  BY DEF Logged

LEMMA LoggedMore ==
  ASSUME TypeOK, QueueShape, NEW j \in Jobs, queue[j] = "active", present' = present,
         deliveries' = WithDelivery(j)
  PROVE  /\ \A i \in Jobs : Logged(i) => Logged(i)'
         /\ Logged(j)'
  <1>1. /\ attemptsMade[j] + 1 \in Attempts
        /\ \A i \in Jobs, n \in Attempts :
              deliveries'[i][n] = IF i = j /\ n = attemptsMade[j] + 1
                                  THEN deliveries[i][n] + 1 ELSE deliveries[i][n]
    BY WithDeliveryTyped
  <1>2. \A i \in Jobs, n \in Attempts : deliveries[i][n] \in Nat
    BY DEF TypeOK, DeliveryRows
  <1>3. deliveries'[j][attemptsMade[j] + 1] > 0
    BY <1>1, <1>2
  <1>4. \A i \in Jobs, n \in Attempts : deliveries[i][n] > 0 => deliveries'[i][n] > 0
    BY <1>1, <1>2
  <1> QED
    BY <1>1, <1>3, <1>4 DEF Logged

LEMMA SuccessStep == TypeOK /\ QueueShape /\ SuccessKept /\ [Next]_vars => SuccessKept'
  <1> SUFFICES ASSUME TypeOK, QueueShape, SuccessKept, [Next]_vars PROVE SuccessKept'
    OBVIOUS
  <1>1. ASSUME NEW j \in Jobs, StartAttempt(j) PROVE SuccessKept'
    <2>1. /\ step'[j] \in {"posting", "returning"}
          /\ outcome'[j] \in {"none", "skipped"}
          /\ step'[j] = "posting" => outcome'[j] = "none"
          /\ \A i \in Jobs : i # j => /\ step'[i] = step[i] /\ queue'[i] = queue[i]
                                      /\ outcome'[i] = outcome[i]
      BY <1>1 DEF StartAttempt, Result, TypeOK
    <2>2. \A i \in Jobs : Logged(i) => Logged(i)'
      BY <1>1, LoggedKept DEF StartAttempt, row
    <2> QED
      BY <1>1, <2>1, <2>2, SuccessOf DEF StartAttempt
  <1>2. ASSUME NEW j \in Jobs, Post(j) PROVE SuccessKept'
    <2>1. /\ step'[j] = "recording"
          /\ accepted \subseteq accepted'
          /\ outcome'[j] = "ok" => j \in accepted'
          /\ \A i \in Jobs : i # j => /\ step'[i] = step[i] /\ queue'[i] = queue[i]
                                      /\ outcome'[i] = outcome[i]
      BY <1>2 DEF Post, TypeOK, job
    <2>2. \A i \in Jobs : Logged(i) => Logged(i)'
      BY <1>2, LoggedKept DEF Post, row
    <2> QED
      BY <2>1, <2>2, SuccessOf
  <1>3. ASSUME NEW j \in Jobs, RecordDelivery(j) PROVE SuccessKept'
    <2>1. queue[j] = "active" /\ step[j] = "recording" /\ present' = present
      BY <1>3 DEF RecordDelivery, QueueShape, row
    <2>2. /\ step'[j] \in {"resetting", "returning"}
          /\ step'[j] = "resetting" => outcome'[j] = "ok"
          /\ outcome'[j] = "ok" => outcome[j] = "ok" /\ present[Target[j]]
          /\ accepted' = accepted
          /\ \A i \in Jobs : i # j => /\ step'[i] = step[i] /\ queue'[i] = queue[i]
                                      /\ outcome'[i] = outcome[i]
      BY <1>3 DEF RecordDelivery, Result, TypeOK, job
    <2>3. outcome[j] = "ok" => j \in accepted
      BY <2>1 DEF SuccessKept
    <2>4. \A i \in Jobs : Logged(i) => Logged(i)'
      BY <1>3, <2>1, LoggedMore, LoggedKept DEF RecordDelivery
    <2>5. present[Target[j]] => Logged(j)'
      BY <1>3, <2>1, LoggedMore DEF RecordDelivery
    <2> QED
      BY <2>2, <2>3, <2>4, <2>5, SuccessOf
  <1>4. ASSUME NEW j \in Jobs, ResetFailures(j) PROVE SuccessKept'
    <2>1. /\ step[j] = "resetting" /\ step'[j] = "returning" /\ accepted' = accepted
          /\ outcome'[j] = "ok" => outcome[j] = "ok"
          /\ \A i \in Jobs : i # j => /\ step'[i] = step[i] /\ queue'[i] = queue[i]
                                      /\ outcome'[i] = outcome[i]
      BY <1>4 DEF ResetFailures, Result, TypeOK, job
    <2>2. \A i \in Jobs : Logged(i) => Logged(i)'
      BY <1>4, LoggedKept DEF ResetFailures
    <2>3. outcome[j] = "ok" => j \in accepted /\ Logged(j)
      BY <2>1 DEF SuccessKept
    <2> QED
      BY <2>1, <2>2, <2>3, SuccessOf
  <1>5. ASSUME NEW j \in Jobs, DatabaseFault(j) PROVE SuccessKept'
    <2>1. /\ step'[j] = "returning" /\ accepted' = accepted /\ outcome'[j] = "error"
          /\ present' = present
          /\ \A i \in Jobs : i # j => /\ step'[i] = step[i] /\ queue'[i] = queue[i]
                                      /\ outcome'[i] = outcome[i]
      BY <1>5 DEF DatabaseFault, Result, TypeOK, job
    <2>2. queue[j] = "active"
      BY <1>5 DEF DatabaseFault, QueueShape
    <2>3. \A i \in Jobs : Logged(i) => Logged(i)'
      BY <1>5, <2>1, <2>2, LoggedMore, LoggedKept DEF DatabaseFault
    <2> QED
      BY <2>1, <2>3, SuccessOf
  <1>6. ASSUME NEW j \in Jobs, Return(j) PROVE SuccessKept'
    <2>1. /\ step[j] = "returning" /\ step'[j] = "idle" /\ accepted' = accepted
          /\ outcome' = outcome
          /\ \A i \in Jobs : i # j => step'[i] = step[i] /\ queue'[i] = queue[i]
      BY <1>6 DEF Return, TypeOK
    <2>2. \A i \in Jobs : Logged(i) => Logged(i)'
      BY <1>6, LoggedKept DEF Return, row
    <2>3. outcome[j] = "ok" => j \in accepted /\ Logged(j)
      BY <2>1 DEF SuccessKept
    <2> QED
      BY <2>1, <2>2, <2>3, SuccessOf
  <1>7. ASSUME NEW j \in Jobs,
               CountExhausted(j) \/ DisableEndpoint(j) \/ ChainWithoutEndpoint(j) \/ ChainFault(j)
        PROVE  SuccessKept'
    BY <1>7 DEF CountExhausted, DisableEndpoint, ChainWithoutEndpoint, ChainFault, job, handler,
                row, SuccessKept, Logged
  <1>8. CASE Crash
    <2>1. \A i \in Jobs : /\ step'[i] = "idle"
                          /\ queue'[i] = "completed" => queue[i] = "completed"
      BY <1>8 DEF Crash
    <2>2. accepted' = accepted /\ outcome' = outcome /\ UNCHANGED <<present, deliveries>>
      BY <1>8 DEF Crash, row
    <2>3. \A i \in Jobs : queue[i] = "completed" => step[i] = "idle"
      BY DEF QueueShape
    <2> QED
      BY <2>1, <2>2, <2>3 DEF SuccessKept, Logged
  <1>9. CASE Shutdown
    BY <1>9 DEF Shutdown, job, handler, row, SuccessKept, Logged
  <1>10. ASSUME NEW p \in Endpoints, Enable(p) \/ Disable(p) PROVE SuccessKept'
    BY <1>10 DEF Enable, Disable, job, handler, SuccessKept, Logged
  <1>11. ASSUME NEW p \in Endpoints, Remove(p) PROVE SuccessKept'
    <2>1. UNCHANGED <<job, handler, accepted>>
      BY <1>11 DEF Remove
    <2>2. \A i \in Jobs : present'[Target[i]] =>
             present[Target[i]] /\ deliveries'[i] = deliveries[i]
      BY <1>11, TargetType DEF Remove, TypeOK, EndpointRows
    <2>3. \A i \in Jobs : Logged(i) => Logged(i)'
      BY <2>2 DEF Logged
    <2> QED
      BY <2>1, <2>3 DEF SuccessKept, job, handler
  <1>12. CASE UNCHANGED vars
    BY <1>12 DEF vars, job, handler, row, SuccessKept, Logged
  <1> QED
    BY <1>1, <1>2, <1>3, <1>4, <1>5, <1>6, <1>7, <1>8, <1>9, <1>10, <1>11, <1>12
       DEF Next, Attempt, Exhausted, Administer

-----------------------------------------------------------------------------
(* The counter of failures.                                                *)

LEMMA CountedInit == Init => FailuresCounted
  <1> SUFFICES ASSUME Init, NEW p \in Endpoints
               PROVE  /\ IsFiniteSet(Failed(p))
                      /\ failures[p] <= Cardinality(Counted(p))
                      /\ reason[p] # "auto"
                      /\ \A j \in JobsOf(p) : chain[j] # "disabling"
    BY DEF FailuresCounted
  <1>1. Failed(p) = {} /\ Counted(p) = {}
    BY DEF Init, Failed, Counted, JobsOf
  <1>2. failures[p] = 0 /\ reason[p] # "auto" /\ \A j \in JobsOf(p) : chain[j] # "disabling"
    BY DEF Init, JobsOf
  <1> QED
    BY <1>1, <1>2, FS_EmptySet

\* Failed jobs that stay failed, and counted ones that stay counted, leave the counter
\* right when it does not rise, and when only a decision to disable disables.
LEMMA CountedKept ==
  ASSUME TypeOK, TypeOK', FailuresCounted,
         \A i \in Jobs :
            /\ queue[i] = "failed" => queue'[i] = "failed"
            /\ queue[i] = "failed" /\ chain[i] # "counting" => chain'[i] # "counting"
            /\ chain'[i] = "disabling" => chain[i] = "disabling",
         \A p \in Endpoints :
            /\ IsFiniteSet(Failed(p)')
            /\ failures'[p] <= failures[p]
            /\ reason'[p] = "auto" => \/ reason[p] = "auto"
                                      \/ \E i \in JobsOf(p) : chain[i] = "disabling"
  PROVE  FailuresCounted'
  <1> SUFFICES ASSUME NEW p \in Endpoints
               PROVE  /\ failures'[p] <= Cardinality(Counted(p)')
                      /\ reason'[p] = "auto" \/ (\E j \in JobsOf(p) : chain'[j] = "disabling")
                            => Cardinality(Failed(p)') >= MaxFailures
    BY DEF FailuresCounted, JobsOf
  <1>1. Failed(p) \subseteq Failed(p)' /\ Counted(p) \subseteq Counted(p)'
    BY DEF Failed, Counted, JobsOf
  <1>2. Counted(p)' \subseteq Failed(p)' /\ Counted(p) \subseteq Failed(p)
    BY DEF Counted
  <1>3. IsFiniteSet(Failed(p)) /\ IsFiniteSet(Failed(p)') /\ IsFiniteSet(Counted(p)')
    BY <1>2, FS_Subset DEF FailuresCounted
  <1>4. /\ Cardinality(Failed(p)) <= Cardinality(Failed(p)')
        /\ Cardinality(Counted(p)) <= Cardinality(Counted(p)')
    BY <1>1, <1>3, FS_Subset
  <1>5. /\ Cardinality(Failed(p)) \in Nat /\ Cardinality(Failed(p)') \in Nat
        /\ Cardinality(Counted(p)) \in Nat /\ Cardinality(Counted(p)') \in Nat
    BY <1>2, <1>3, FS_Subset, FS_CardinalityType
  <1>6. failures[p] \in Nat /\ failures'[p] \in Nat /\ MaxFailures \in Nat
    BY DeliveryConstants DEF TypeOK, EndpointRows
  <1>7. failures'[p] <= Cardinality(Counted(p)')
    BY <1>4, <1>5, <1>6 DEF FailuresCounted
  <1>8. ASSUME reason'[p] = "auto" \/ \E j \in JobsOf(p) : chain'[j] = "disabling"
        PROVE  Cardinality(Failed(p)') >= MaxFailures
    <2>1. reason[p] = "auto" \/ \E j \in JobsOf(p) : chain[j] = "disabling"
      BY <1>8 DEF JobsOf
    <2>2. Cardinality(Failed(p)) >= MaxFailures
      BY <2>1 DEF FailuresCounted
    <2> QED
      BY <1>4, <1>5, <1>6, <2>2
  <1> QED
    BY <1>7, <1>8

\* Most steps fail no job.
LEMMA NoneFails ==
  ASSUME FailuresCounted, \A i \in Jobs : queue'[i] = "failed" <=> queue[i] = "failed"
  PROVE  \A p \in Endpoints : IsFiniteSet(Failed(p)')
  <1>1. \A p \in Endpoints : Failed(p)' = Failed(p)
    BY DEF Failed, JobsOf
  <1> QED
    BY <1>1 DEF FailuresCounted

\* The listener counts a job that it had not counted.
LEMMA CountedOneMore ==
  ASSUME TypeOK, QueueShape, FailuresCounted, NEW j \in Jobs, CountExhausted(j)
  PROVE  FailuresCounted'
  <1> SUFFICES ASSUME NEW p \in Endpoints
               PROVE  /\ IsFiniteSet(Failed(p)')
                      /\ failures'[p] <= Cardinality(Counted(p)')
                      /\ reason'[p] = "auto" => Cardinality(Failed(p)') >= MaxFailures
                      /\ \A i \in JobsOf(p) :
                            chain'[i] = "disabling" => Cardinality(Failed(p)') >= MaxFailures
    BY DEF FailuresCounted, JobsOf
  <1>1. /\ chain[j] = "counting" /\ queue[j] = "failed" /\ queue' = queue /\ reason' = reason
    BY DEF CountExhausted, QueueShape, job
  <1>2. Failed(p)' = Failed(p) /\ IsFiniteSet(Failed(p))
    BY <1>1 DEF Failed, JobsOf, FailuresCounted
  <1>3. IsFiniteSet(Counted(p)) /\ Cardinality(Counted(p)) \in Nat /\ Cardinality(Failed(p)) \in Nat
    BY <1>2, FS_Subset, FS_CardinalityType DEF Counted
  <1>4. failures \in [Endpoints -> Nat] /\ MaxFailures \in Nat
    BY DeliveryConstants DEF TypeOK, EndpointRows
  <1>5. \A i \in Jobs : i # j => chain'[i] = chain[i]
    BY DEF CountExhausted, ChainEnds, TypeOK
  <1>6. chain'[j] \in {"none", "disabling"}
    BY DEF CountExhausted, ChainEnds, TypeOK
  <1>7. CASE p = Target[j]
    <2>1. j \in Failed(p) /\ j \notin Counted(p) /\ Counted(p)' = Counted(p) \cup {j}
      BY <1>1, <1>5, <1>6, <1>7 DEF Failed, Counted, JobsOf
    <2>2. Cardinality(Counted(p)') = Cardinality(Counted(p)) + 1
      BY <1>3, <2>1, FS_AddElement
    <2>3. failures'[p] = failures[p] + 1
      BY <1>4, <1>7 DEF CountExhausted
    <2>4. failures'[p] <= Cardinality(Counted(p)')
      BY <1>3, <1>4, <2>2, <2>3 DEF FailuresCounted
    <2>5. Cardinality(Counted(p)') <= Cardinality(Failed(p))
      <3>1. Counted(p)' \subseteq Failed(p)
        BY <2>1 DEF Counted
      <3> QED
        BY <1>2, <3>1, FS_Subset
    <2>6. ASSUME chain'[j] = "disabling" PROVE Cardinality(Failed(p)) >= MaxFailures
      <3>1. failures[p] + 1 >= MaxFailures
        BY <1>7, <2>6 DEF CountExhausted, ChainEnds, TypeOK
      <3> QED
        BY <1>3, <1>4, <2>2, <2>3, <2>4, <2>5, <3>1
    <2>7. ASSUME NEW i \in JobsOf(p), chain'[i] = "disabling"
          PROVE  Cardinality(Failed(p)) >= MaxFailures
      BY <1>5, <2>6, <2>7 DEF FailuresCounted, JobsOf
    <2> QED
      BY <1>1, <1>2, <2>4, <2>7 DEF FailuresCounted
  <1>8. CASE p # Target[j]
    <2>1. \A i \in JobsOf(p) : chain'[i] = chain[i]
      BY <1>5, <1>8 DEF JobsOf
    <2>2. Counted(p)' = Counted(p) /\ failures'[p] = failures[p]
      BY <1>2, <1>4, <1>8, <2>1 DEF CountExhausted, Counted, Failed
    <2> QED
      BY <1>1, <1>2, <2>1, <2>2 DEF FailuresCounted
  <1> QED
    BY <1>7, <1>8

LEMMA CountedStep ==
  TypeOK /\ TypeOK' /\ QueueShape /\ FailuresCounted /\ [Next]_vars => FailuresCounted'
  <1> SUFFICES ASSUME TypeOK, TypeOK', QueueShape, FailuresCounted, [Next]_vars
               PROVE  FailuresCounted'
    OBVIOUS
  <1>1. failures \in [Endpoints -> Nat] /\ \A p \in Endpoints : failures[p] <= failures[p]
    BY DEF TypeOK, EndpointRows
  <1>2. ASSUME NEW j \in Jobs, StartAttempt(j) PROVE FailuresCounted'
    <2>1. \A i \in Jobs : queue'[i] = "failed" <=> queue[i] = "failed"
      BY <1>2 DEF StartAttempt, TypeOK
    <2>2. UNCHANGED <<chain, failures, reason>>
      BY <1>2 DEF StartAttempt, row
    <2> QED
      BY <1>1, <2>1, <2>2, NoneFails, CountedKept
  <1>3. ASSUME NEW j \in Jobs, Post(j) \/ RecordDelivery(j) PROVE FailuresCounted'
    <2>1. UNCHANGED <<queue, chain, failures, reason>>
      BY <1>3 DEF Post, RecordDelivery, row, job
    <2> QED
      BY <1>1, <2>1, NoneFails, CountedKept
  <1>4. ASSUME NEW j \in Jobs, ResetFailures(j) \/ DatabaseFault(j) PROVE FailuresCounted'
    <2>1. UNCHANGED <<queue, chain, reason>>
      BY <1>4 DEF ResetFailures, DatabaseFault, job
    <2>2. \A p \in Endpoints : failures'[p] <= failures[p]
      BY <1>1, <1>4 DEF ResetFailures, DatabaseFault
    <2> QED
      BY <2>1, <2>2, NoneFails, CountedKept
  <1>5. ASSUME NEW j \in Jobs, Return(j) PROVE FailuresCounted'
    <2>1. queue[j] = "active" /\ chain[j] = "none"
      BY <1>5 DEF Return, QueueShape
    <2>2. /\ \A i \in Jobs : i # j => queue'[i] = queue[i] /\ chain'[i] = chain[i]
          /\ chain'[j] # "disabling"
      BY <1>5, <2>1 DEF Return, TypeOK
    <2>3. ASSUME NEW p \in Endpoints PROVE IsFiniteSet(Failed(p)')
      <3>1. Failed(p)' \subseteq Failed(p) \cup {j}
        BY <2>2 DEF Failed, JobsOf
      <3>2. IsFiniteSet(Failed(p) \cup {j})
        BY FS_AddElement DEF FailuresCounted
      <3> QED
        BY <3>1, <3>2, FS_Subset
    <2>4. UNCHANGED <<failures, reason>>
      BY <1>5 DEF Return, row
    <2> QED
      BY <1>1, <2>1, <2>2, <2>3, <2>4, CountedKept
  <1>6. ASSUME NEW j \in Jobs, CountExhausted(j) PROVE FailuresCounted'
    BY <1>6, CountedOneMore
  <1>7. ASSUME NEW j \in Jobs, DisableEndpoint(j) PROVE FailuresCounted'
    <2>1. /\ chain[j] = "disabling" /\ UNCHANGED <<queue, failures>>
          /\ chain'[j] = "none" /\ \A i \in Jobs : i # j => chain'[i] = chain[i]
      BY <1>7 DEF DisableEndpoint, ChainEnds, TypeOK, job
    <2>2. \A p \in Endpoints : reason'[p] = reason[p] \/ (p = Target[j] /\ j \in JobsOf(p))
      BY <1>7 DEF DisableEndpoint, TypeOK, EndpointRows, JobsOf
    <2> QED
      BY <1>1, <2>1, <2>2, NoneFails, CountedKept
  <1>8. ASSUME NEW j \in Jobs, ChainWithoutEndpoint(j) \/ ChainFault(j) PROVE FailuresCounted'
    <2>1. UNCHANGED <<queue, failures, reason>>
      BY <1>8 DEF ChainWithoutEndpoint, ChainFault, job, row
    <2>2. chain'[j] = "none" /\ \A i \in Jobs : i # j => chain'[i] = chain[i]
      BY <1>8 DEF ChainWithoutEndpoint, ChainFault, ChainEnds, TypeOK
    <2> QED
      BY <1>1, <2>1, <2>2, NoneFails, CountedKept
  <1>9. CASE Crash \/ Shutdown
    <2>1. \A i \in Jobs : (queue'[i] = "failed" <=> queue[i] = "failed") /\ chain'[i] = "none"
      BY <1>9 DEF Crash, Shutdown, job
    <2>2. UNCHANGED <<failures, reason>>
      BY <1>9 DEF Crash, Shutdown, row
    <2> QED
      BY <1>1, <2>1, <2>2, NoneFails, CountedKept
  <1>10. ASSUME NEW p \in Endpoints, Enable(p) PROVE FailuresCounted'
    <2>1. UNCHANGED <<queue, chain>>
      BY <1>10 DEF Enable, job
    <2>2. \A q \in Endpoints : /\ failures'[q] <= failures[q]
                               /\ reason'[q] = "auto" => reason[q] = "auto"
      BY <1>1, <1>10 DEF Enable, TypeOK, EndpointRows
    <2> QED
      BY <2>1, <2>2, NoneFails, CountedKept
  <1>11. ASSUME NEW p \in Endpoints, Disable(p) \/ Remove(p) PROVE FailuresCounted'
    <2>1. UNCHANGED <<queue, chain, failures, reason>>
      BY <1>11 DEF Disable, Remove, job
    <2> QED
      BY <1>1, <2>1, NoneFails, CountedKept
  <1>12. CASE UNCHANGED vars
    <2>1. UNCHANGED <<queue, chain, failures, reason>>
      BY <1>12 DEF vars, job, row
    <2> QED
      BY <1>1, <2>1, NoneFails, CountedKept
  <1> QED
    BY <1>2, <1>3, <1>4, <1>5, <1>6, <1>7, <1>8, <1>9, <1>10, <1>11, <1>12
       DEF Next, Attempt, Exhausted, Administer

-----------------------------------------------------------------------------
(* The theorems.                                                           *)

\* The inductive invariant holds, so a job runs in one handler at most and has attempts
\* left while it is to run, however a crash and retries of deliverWebhookAttempt fall.
THEOREM InvHolds == Spec => []Inv
  <1>1. Init => Inv
    BY TypeInit, RowsInit, SuccessInit, CountedInit DEF Inv
  <1>2. Inv /\ [Next]_vars => Inv'
    BY TypeStep, RowsStep, SuccessStep, CountedStep DEF Inv
  <1> QED
    BY <1>1, <1>2, PTL DEF Spec

\* The deliveries are type correct: no attempt is counted beyond the limit of
\* WEBHOOK_DELIVERY_JOB_OPTIONS, and no row is written for one.
THEOREM TypeCorrect == Spec => []TypeOK
  <1>1. Inv => TypeOK
    BY DEF Inv
  <1> QED
    BY <1>1, InvHolds, PTL

\* However often handlers fail and start again, deliverWebhookAttempt writes at most one
\* row for an attempt number, and one more for each time the worker went away during it.
THEOREM RowsOnce == Spec => []AttemptRowOnce
  <1>1. Inv => AttemptRowOnce
    BY DEF Inv, RowsFit, AttemptRowOnce
  <1> QED
    BY <1>1, InvHolds, PTL

\* A job that the processor lets complete as delivered has been taken in by the receiver
\* and logged, whatever fails and whoever removes or disables endpoints meanwhile.
THEOREM CompletedJobsDelivered == Spec => []CompletedMeansDelivered
  <1>1. Inv => CompletedMeansDelivered
    <2> SUFFICES ASSUME Inv, NEW j \in Jobs, queue[j] = "completed", outcome[j] = "ok"
                 PROVE  j \in accepted /\ Logged(j)
      BY DEF CompletedMeansDelivered, Logged
    <2>1. step[j] = "idle"
      BY DEF Inv, QueueShape
    <2> QED
      BY <2>1 DEF Inv, SuccessKept
  <1> QED
    BY <1>1, InvHolds, PTL

\* recordChainExhausted counts each failed job at most once, so that an endpoint that
\* disabled itself had WEBHOOK_MAX_CONSECUTIVE_FAILURES failed jobs at least.
THEOREM FailuresAreFailedJobs == Spec => []FailuresAreExhaustedChains
  <1>1. Inv => FailuresAreExhaustedChains
    <2> SUFFICES ASSUME Inv, NEW p \in Endpoints
                 PROVE  /\ failures[p] <= Cardinality(Failed(p))
                        /\ reason[p] = "auto" => Cardinality(Failed(p)) >= MaxFailures
      BY DEF FailuresAreExhaustedChains, Failed
    <2>1. IsFiniteSet(Failed(p)) /\ failures[p] <= Cardinality(Counted(p)) /\ failures[p] \in Nat
      BY DEF Inv, FailuresCounted, TypeOK, EndpointRows
    <2>2. /\ Cardinality(Counted(p)) <= Cardinality(Failed(p))
          /\ Cardinality(Counted(p)) \in Nat /\ Cardinality(Failed(p)) \in Nat
      BY <2>1, FS_Subset, FS_CardinalityType DEF Counted
    <2>3. failures[p] <= Cardinality(Failed(p))
      BY <2>1, <2>2
    <2> QED
      BY <2>3 DEF Inv, FailuresCounted
  <1> QED
    BY <1>1, InvHolds, PTL

-----------------------------------------------------------------------------
(* Where the two refuted statements hold.                                  *)

\* What a handler read as zero is still zero when its delivery is logged: the check that
\* deliverWebhookAttempt makes before it resets the counter is not out of date.
ZeroIsCurrent ==
    \A j \in Jobs : step[j] \in {"posting", "recording"} /\ seen[j] = 0 => failures[Target[j]] = 0

\* The counter is no more than the chains counted since the last success.
CountedInARow == \A p \in Endpoints : failures[p] <= streak[p]

\* A success in RecordDelivery ends the row without touching the counter only if it read
\* zero; the counter grows where the row does.
LEMMA CountedInARowStep ==
  TypeOK /\ ZeroIsCurrent /\ CountedInARow /\ [Next]_vars => CountedInARow'
  <1> SUFFICES ASSUME TypeOK, ZeroIsCurrent, CountedInARow, [Next]_vars
               PROVE  CountedInARow'
    OBVIOUS
  <1>1. /\ failures \in [Endpoints -> Nat] /\ streak \in [Endpoints -> Nat]
        /\ \A p \in Endpoints : failures[p] <= streak[p]
        /\ \A j \in Jobs : Target[j] \in Endpoints
    BY TargetType DEF TypeOK, EndpointRows, CountedInARow
  <1>2. ASSUME UNCHANGED <<failures, streak>> PROVE CountedInARow'
    BY <1>1, <1>2 DEF CountedInARow
  <1>3. ASSUME NEW j \in Jobs, RecordDelivery(j) PROVE CountedInARow'
    <2>1. UNCHANGED failures
      BY <1>3 DEF RecordDelivery, row
    <2>2. CASE UNCHANGED streak
      BY <1>2, <2>1, <2>2
    <2>3. CASE seen[j] = 0 /\ streak' = [streak EXCEPT ![Target[j]] = 0]
      <3>1. failures[Target[j]] = 0
        BY <1>3, <2>3 DEF RecordDelivery, ZeroIsCurrent
      <3> QED
        BY <1>1, <2>1, <2>3, <3>1 DEF CountedInARow
    <2>4. streak' = streak \/ (seen[j] = 0 /\ streak' = [streak EXCEPT ![Target[j]] = 0])
      <3>1. [streak EXCEPT ![Target[j]] = streak[Target[j]]] = streak
        BY <1>1
      <3> QED
        BY <1>3, <3>1 DEF RecordDelivery
    <2> QED
      BY <2>2, <2>3, <2>4
  <1>4. ASSUME NEW j \in Jobs, ResetFailures(j) PROVE CountedInARow'
    BY <1>1, <1>4 DEF ResetFailures, CountedInARow
  <1>5. ASSUME NEW j \in Jobs, DatabaseFault(j) PROVE CountedInARow'
    <2>1. UNCHANGED streak /\ \A p \in Endpoints : failures'[p] = failures[p] \/ failures'[p] = 0
      BY <1>1, <1>5 DEF DatabaseFault, history
    <2> QED
      BY <1>1, <2>1 DEF CountedInARow
  <1>6. ASSUME NEW j \in Jobs, CountExhausted(j) PROVE CountedInARow'
    BY <1>1, <1>6 DEF CountExhausted, CountedInARow
  <1>7. ASSUME NEW p \in Endpoints, Enable(p) PROVE CountedInARow'
    BY <1>1, <1>7 DEF Enable, CountedInARow
  <1>8. ASSUME NEW j \in Jobs,
               \/ StartAttempt(j) \/ Post(j) \/ Return(j) \/ DisableEndpoint(j)
               \/ ChainWithoutEndpoint(j) \/ ChainFault(j)
        PROVE  UNCHANGED <<failures, streak>>
    BY <1>8 DEF StartAttempt, Post, Return, DisableEndpoint, ChainWithoutEndpoint, ChainFault,
                row, history
  <1>9. Crash \/ Shutdown => UNCHANGED <<failures, streak>>
    BY DEF Crash, Shutdown, row
  <1>10. ASSUME NEW p \in Endpoints, Disable(p) \/ Remove(p) PROVE UNCHANGED <<failures, streak>>
    BY <1>10 DEF Disable, Remove, history
  <1>11. UNCHANGED vars => UNCHANGED <<failures, streak>>
    BY DEF vars, row, history
  <1> QED
    BY <1>2, <1>3, <1>4, <1>5, <1>6, <1>7, <1>8, <1>9, <1>10, <1>11
       DEF Next, Attempt, Exhausted, Administer

\* The comment on recordChainExhausted is true wherever no chain is counted between the
\* read of a counter that is zero and the logging of that handler's success: "in a row"
\* fails through that check alone, whatever rejects or is retried, a crash included.
THEOREM InARowIfCurrent == Spec /\ []ZeroIsCurrent => InARow
  <1> DEFINE Sets == \A j \in Jobs : chain[j] = "counting" /\ chain'[j] = "disabling"
                                        => streak'[Target[j]] >= MaxFailures
  <1>1. Init => CountedInARow
    BY DEF Init, CountedInARow
  <1>2. TypeOK /\ ZeroIsCurrent /\ CountedInARow /\ [Next]_vars => CountedInARow'
    BY CountedInARowStep
  <1>3. TypeOK /\ QueueShape /\ CountedInARow /\ [Next]_vars => [Sets]_vars
    <2> SUFFICES ASSUME TypeOK, QueueShape, CountedInARow, Next, NEW j \in Jobs,
                        chain[j] = "counting", chain'[j] = "disabling"
                 PROVE  streak'[Target[j]] >= MaxFailures
      BY DEF Sets
    <2>1. Target[j] \in Endpoints /\ failures[Target[j]] \in Nat /\ streak[Target[j]] \in Nat
          /\ failures[Target[j]] <= streak[Target[j]] /\ MaxFailures \in Nat
      BY TargetType, DeliveryConstants DEF TypeOK, EndpointRows, CountedInARow
    <2>2. ASSUME NEW i \in Jobs, CountExhausted(i) PROVE streak'[Target[j]] >= MaxFailures
      <3>1. i = j
        BY <2>2 DEF CountExhausted, ChainEnds, TypeOK
      <3>2. failures[Target[j]] + 1 >= MaxFailures
        BY <2>2, <3>1 DEF CountExhausted, ChainEnds, TypeOK
      <3>3. streak'[Target[j]] = streak[Target[j]] + 1
        BY <2>1, <2>2, <3>1 DEF CountExhausted, TypeOK
      <3> QED
        BY <2>1, <3>2, <3>3
    <2>3. ASSUME NEW i \in Jobs,
                 \/ StartAttempt(i) \/ Post(i) \/ RecordDelivery(i) \/ ResetFailures(i)
                 \/ DatabaseFault(i)
          PROVE  chain' = chain
      BY <2>3 DEF StartAttempt, Post, RecordDelivery, ResetFailures, DatabaseFault
    <2>4. ASSUME NEW i \in Jobs, Return(i) PROVE chain'[j] # "disabling"
      BY <2>4 DEF Return, TypeOK
    <2>5. ASSUME NEW i \in Jobs, DisableEndpoint(i) \/ ChainWithoutEndpoint(i) \/ ChainFault(i)
          PROVE  chain'[j] # "disabling"
      BY <2>5 DEF DisableEndpoint, ChainWithoutEndpoint, ChainFault, ChainEnds, TypeOK
    <2>6. Crash \/ Shutdown => chain'[j] # "disabling"
      BY DEF Crash, Shutdown
    <2>7. ASSUME NEW p \in Endpoints, Administer(p) PROVE chain' = chain
      BY <2>7 DEF Administer, Enable, Disable, Remove
    <2> QED
      BY <2>2, <2>3, <2>4, <2>5, <2>6, <2>7 DEF Next, Attempt, Exhausted
  <1>4. Inv => TypeOK /\ QueueShape
    BY DEF Inv
  <1> QED
    BY <1>1, <1>2, <1>3, <1>4, InvHolds, PTL DEF Spec, InARow

\* An endpoint is enabled again only while no chain is between its count and the update
\* that disables the endpoint.
EnabledInPeace ==
    \A p \in Endpoints : ~enabled[p] /\ enabled'[p] => \A j \in JobsOf(p) : chain[j] # "disabling"

\* The chances an endpoint has had are what its counter counts; a chain that sets out to
\* disable it, and the reason that is left when it did, are the last of enough of them.
ChancesCounted ==
    /\ \A p \in Endpoints : /\ failures[p] <= chances[p]
                            /\ reason[p] = "auto" => chances[p] >= MaxFailures
    /\ \A j \in Jobs : chain[j] = "disabling" => chances[Target[j]] >= MaxFailures

\* Counting gives the counter and the chances the same; enabling in peace takes both away
\* where no chain still counts on them.
LEMMA ChancesStep ==
  TypeOK /\ ChancesCounted /\ [Next]_vars /\ [EnabledInPeace]_vars => ChancesCounted'
  <1> SUFFICES ASSUME TypeOK, ChancesCounted, [Next]_vars, [EnabledInPeace]_vars
               PROVE  ChancesCounted'
    OBVIOUS
  <1>1. /\ failures \in [Endpoints -> Nat] /\ chances \in [Endpoints -> Nat]
        /\ reason \in [Endpoints -> {"none", "auto"}] /\ enabled \in [Endpoints -> BOOLEAN]
        /\ chain \in [Jobs -> {"none", "counting", "disabling"}]
        /\ \A j \in Jobs : Target[j] \in Endpoints
        /\ MaxFailures \in Nat
    BY TargetType, DeliveryConstants DEF TypeOK, EndpointRows
  <1>2. ASSUME UNCHANGED <<reason, chances>>,
               \A p \in Endpoints : failures'[p] <= failures[p] /\ failures'[p] \in Nat,
               \A j \in Jobs : chain'[j] = "disabling" => chain[j] = "disabling"
        PROVE  ChancesCounted'
    BY <1>1, <1>2 DEF ChancesCounted
  <1>3. ASSUME NEW j \in Jobs,
               \/ StartAttempt(j) \/ Post(j) \/ RecordDelivery(j) \/ Return(j)
               \/ ChainWithoutEndpoint(j) \/ ChainFault(j)
        PROVE  ChancesCounted'
    <2>1. UNCHANGED <<reason, chances, failures>>
      BY <1>3 DEF StartAttempt, Post, RecordDelivery, Return, ChainWithoutEndpoint, ChainFault,
                  row, history
    <2>2. \A i \in Jobs : chain'[i] = "disabling" => chain[i] = "disabling"
      BY <1>1, <1>3 DEF StartAttempt, Post, RecordDelivery, Return, ChainWithoutEndpoint,
                        ChainFault, ChainEnds
    <2> QED
      BY <1>1, <1>2, <2>1, <2>2
  <1>4. ASSUME NEW j \in Jobs, ResetFailures(j) \/ DatabaseFault(j) PROVE ChancesCounted'
    <2>1. UNCHANGED <<reason, chances, chain>>
      BY <1>4 DEF ResetFailures, DatabaseFault, history
    <2>2. \A p \in Endpoints : failures'[p] = failures[p] \/ failures'[p] = 0
      BY <1>1, <1>4 DEF ResetFailures, DatabaseFault
    <2> QED
      BY <1>1, <1>2, <2>1, <2>2
  <1>5. ASSUME NEW j \in Jobs, CountExhausted(j) PROVE ChancesCounted'
    <2>1. /\ UNCHANGED reason
          /\ failures' = [failures EXCEPT ![Target[j]] = @ + 1]
          /\ chances' = [chances EXCEPT ![Target[j]] = @ + 1]
      BY <1>5 DEF CountExhausted
    <2>2. \A p \in Endpoints : chances'[p] >= chances[p] /\ failures'[p] <= chances'[p]
                               /\ chances'[p] \in Nat
      BY <1>1, <2>1 DEF ChancesCounted
    <2>3. ASSUME NEW i \in Jobs, chain'[i] = "disabling" PROVE chances'[Target[i]] >= MaxFailures
      <3>1. CASE i # j
        <4>1. chain[i] = "disabling"
          BY <1>1, <1>5, <2>3, <3>1 DEF CountExhausted, ChainEnds
        <4> QED
          BY <1>1, <2>2, <4>1 DEF ChancesCounted
      <3>2. CASE i = j
        <4>1. failures[Target[j]] + 1 >= MaxFailures
          BY <1>1, <1>5, <2>3, <3>2 DEF CountExhausted, ChainEnds
        <4> QED
          BY <1>1, <2>1, <3>2, <4>1 DEF ChancesCounted
      <3> QED
        BY <3>1, <3>2
    <2>4. \A p \in Endpoints : reason'[p] = "auto" => chances'[p] >= MaxFailures
      BY <1>1, <2>1, <2>2 DEF ChancesCounted
    <2> QED
      BY <2>2, <2>3, <2>4 DEF ChancesCounted
  <1>6. ASSUME NEW j \in Jobs, DisableEndpoint(j) PROVE ChancesCounted'
    <2>1. /\ UNCHANGED <<failures, chances>> /\ chances[Target[j]] >= MaxFailures
          /\ reason' = [reason EXCEPT ![Target[j]] = "auto"]
      BY <1>6 DEF DisableEndpoint, ChancesCounted
    <2>2. \A i \in Jobs : chain'[i] = "disabling" => chain[i] = "disabling"
      BY <1>1, <1>6 DEF DisableEndpoint, ChainEnds
    <2> QED
      BY <1>1, <2>1, <2>2 DEF ChancesCounted
  <1>7. CASE Crash \/ Shutdown
    <2>1. UNCHANGED <<reason, chances, failures>> /\ \A i \in Jobs : chain'[i] = "none"
      BY <1>7 DEF Crash, Shutdown, row
    <2> QED
      BY <1>1, <1>2, <2>1
  <1>8. ASSUME NEW p \in Endpoints, Enable(p) PROVE ChancesCounted'
    <2>1. /\ UNCHANGED chain
          /\ failures' = [failures EXCEPT ![p] = 0]
          /\ reason' = [reason EXCEPT ![p] = "none"]
          /\ chances' = [chances EXCEPT ![p] = IF enabled[p] THEN @ ELSE 0]
          /\ enabled' = [enabled EXCEPT ![p] = TRUE]
      BY <1>8 DEF Enable
    <2>2. CASE enabled[p]
      <3>1. chances' = chances
        BY <1>1, <2>1, <2>2
      <3> QED
        BY <1>1, <2>1, <3>1 DEF ChancesCounted
    <2>3. CASE ~enabled[p]
      <3>1. \A j \in JobsOf(p) : chain[j] # "disabling"
        <4>1. enabled'[p]
          BY <1>1, <2>1
        <4>2. EnabledInPeace
          BY <2>3, <4>1 DEF vars, row
        <4> QED
          BY <2>3, <4>1, <4>2 DEF EnabledInPeace
      <3>2. chances' = [chances EXCEPT ![p] = 0]
        BY <2>1, <2>3
      <3> QED
        BY <1>1, <2>1, <3>1, <3>2 DEF ChancesCounted, JobsOf
    <2> QED
      BY <2>2, <2>3
  <1>9. ASSUME NEW p \in Endpoints, Disable(p) \/ Remove(p) PROVE ChancesCounted'
    <2>1. UNCHANGED <<reason, chances, failures, chain>>
      BY <1>9 DEF Disable, Remove, history
    <2> QED
      BY <1>1, <1>2, <2>1
  <1>10. CASE UNCHANGED vars
    <2>1. UNCHANGED <<reason, chances, failures, chain>>
      BY <1>10 DEF vars, row, history
    <2> QED
      BY <1>1, <1>2, <2>1
  <1> QED
    BY <1>3, <1>4, <1>5, <1>6, <1>7, <1>8, <1>9, <1>10 DEF Next, Attempt, Exhausted, Administer

\* The comment in webhooks.repository.ts is true wherever nobody enables an endpoint
\* between the two statements of recordChainExhausted: it takes as many chains again, and
\* an old handler, a fault or a crash does not make them fewer.
THEOREM FreshChanceInPeace == Spec /\ [][EnabledInPeace]_vars => []FreshChance
  <1>1. Init => ChancesCounted
    BY DEF Init, ChancesCounted
  <1>2. TypeOK /\ ChancesCounted /\ [Next]_vars /\ [EnabledInPeace]_vars => ChancesCounted'
    BY ChancesStep
  <1>3. ChancesCounted => FreshChance
    BY DEF ChancesCounted, FreshChance
  <1> QED
    BY <1>1, <1>2, <1>3, TypeCorrect, PTL DEF Spec

-----------------------------------------------------------------------------
(* The address blocks.  The numbers are too large for Zenon, hence SMT at  *)
(* the leaves.                                                             *)

\* The tests of isPrivateIPv4, in terms of the number of the first three octets.
Intervals(n) ==
    \/ n < 65536
    \/ 655360 <= n /\ n < 720896
    \/ 8323072 <= n /\ n < 8388608
    \/ 6569984 <= n /\ n < 6586368
    \/ 11140608 <= n /\ n < 11140864
    \/ 12625920 <= n /\ n < 12626176
    \/ 11276288 <= n /\ n < 11280384
    \/ n = 12582912
    \/ 12980736 <= n /\ n < 12981248
    \/ 14680064 <= n

LEMMA BlocksAsIntervals ==
    ASSUME NEW n \in Nat, n < 16777216
    PROVE  (\E block \in SpecialBlocks : InBlock(n, block)) <=> Intervals(n)
  <1> DEFINE In(a, b, c, size) == InBlock(n, Block(a, b, c, size))
  <1>1. (\E block \in SpecialBlocks : InBlock(n, block)) <=>
           \/ In(0, 0, 0, 65536) \/ In(10, 0, 0, 65536) \/ In(127, 0, 0, 65536)
           \/ In(100, 64, 0, 16384) \/ In(169, 254, 0, 256) \/ In(192, 168, 0, 256)
           \/ In(172, 16, 0, 4096) \/ In(192, 0, 0, 1) \/ In(198, 18, 0, 512)
           \/ In(224, 0, 0, 2097152)
    BY SMT DEF SpecialBlocks
  <1>2. ASSUME NEW p \in Nat, NEW size \in Nat
        PROVE  InBlock(n, [first |-> p, size |-> size]) <=> p <= n /\ n < p + size
    BY SMT DEF InBlock
  <1>3. /\ Prefix(0, 0, 0) = 0 /\ Prefix(10, 0, 0) = 655360 /\ Prefix(127, 0, 0) = 8323072
        /\ Prefix(100, 64, 0) = 6569984 /\ Prefix(169, 254, 0) = 11140608
        /\ Prefix(192, 168, 0) = 12625920 /\ Prefix(172, 16, 0) = 11276288
        /\ Prefix(192, 0, 0) = 12582912 /\ Prefix(198, 18, 0) = 12980736
        /\ Prefix(224, 0, 0) = 14680064
    BY SMT DEF Prefix
  <1>4. /\ In(0, 0, 0, 65536) <=> 0 <= n /\ n < 65536
        /\ In(10, 0, 0, 65536) <=> 655360 <= n /\ n < 655360 + 65536
        /\ In(127, 0, 0, 65536) <=> 8323072 <= n /\ n < 8323072 + 65536
        /\ In(100, 64, 0, 16384) <=> 6569984 <= n /\ n < 6569984 + 16384
        /\ In(169, 254, 0, 256) <=> 11140608 <= n /\ n < 11140608 + 256
    BY <1>2, <1>3, SMT DEF Block
  <1>5. /\ In(192, 168, 0, 256) <=> 12625920 <= n /\ n < 12625920 + 256
        /\ In(172, 16, 0, 4096) <=> 11276288 <= n /\ n < 11276288 + 4096
        /\ In(192, 0, 0, 1) <=> 12582912 <= n /\ n < 12582912 + 1
        /\ In(198, 18, 0, 512) <=> 12980736 <= n /\ n < 12980736 + 512
        /\ In(224, 0, 0, 2097152) <=> 14680064 <= n /\ n < 14680064 + 2097152
    BY <1>2, <1>3, SMT DEF Block
  <1> HIDE DEF In
  <1> QED
    BY <1>1, <1>4, <1>5, SMT DEF Intervals

LEMMA TestsAsIntervals ==
    ASSUME NEW o \in IPv4,
           NEW a \in Octets, NEW b \in Octets, NEW c \in Octets,
           o[1] = a, o[2] = b, o[3] = c,
           NEW n \in Nat, n = 65536 * a + 256 * b + c
    PROVE  isPrivateIPv4(o) <=> Intervals(n)
  <1>1. /\ a = 0 <=> n < 65536
        /\ a = 10 <=> 655360 <= n /\ n < 720896
        /\ a = 127 <=> 8323072 <= n /\ n < 8388608
        /\ a = 100 /\ b >= 64 /\ b <= 127 <=> 6569984 <= n /\ n < 6586368
        /\ a = 169 /\ b = 254 <=> 11140608 <= n /\ n < 11140864
    BY SMT DEF Octets
  <1>2. /\ a = 192 /\ b = 168 <=> 12625920 <= n /\ n < 12626176
        /\ a = 172 /\ b >= 16 /\ b <= 31 <=> 11276288 <= n /\ n < 11280384
        /\ a = 192 /\ b = 0 /\ c = 0 <=> n = 12582912
        /\ a = 198 /\ b \in {18, 19} <=> 12980736 <= n /\ n < 12981248
        /\ a >= 224 <=> 14680064 <= n
    BY SMT DEF Octets
  <1> QED
    BY <1>1, <1>2, SMT DEF isPrivateIPv4, Intervals

\* webhook-url.ts, isPrivateIPv4: every IPv4 address is refused exactly if it is in one of
\* the blocks set aside.
THEOREM RefusedBlocks == \A o \in IPv4 : PrivateIsSpecial(o)
  <1> SUFFICES ASSUME NEW o \in IPv4 PROVE PrivateIsSpecial(o)
    OBVIOUS
  <1>1. PICK a, b, c \in Octets : a = o[1] /\ b = o[2] /\ c = o[3]
    BY SMT DEF IPv4
  <1>2. Prefix(a, b, c) \in Nat /\ Prefix(a, b, c) < 16777216
    BY SMT DEF Octets, Prefix
  <1>3. isPrivateIPv4(o) <=> Intervals(Prefix(a, b, c))
    <2> DEFINE n == Prefix(a, b, c)
    <2>1. n \in Nat /\ n = 65536 * a + 256 * b + c
      BY <1>2, SMT DEF Prefix
    <2> HIDE DEF n
    <2>2. isPrivateIPv4(o) <=> Intervals(n)
      BY <1>1, <2>1, TestsAsIntervals, SMT
    <2> QED
      BY <2>2, SMT DEF n
  <1>4. (\E block \in SpecialBlocks : InBlock(Prefix(a, b, c), block))
           <=> Intervals(Prefix(a, b, c))
    BY <1>2, BlocksAsIntervals, SMT
  <1> QED
    BY <1>1, <1>3, <1>4, SMT DEF PrivateIsSpecial

-----------------------------------------------------------------------------
(* IPv6 addresses.                                                         *)

\* The groups of an address from one to another.
Slice(gs, groups, from, to) ==
    /\ gs \in Seq(Words) /\ Len(gs) = to - from + 1
    /\ \A k \in 1..(to - from + 1) : gs[k] = groups[from + k - 1]

LEMMA HexRead ==
  ASSUME NEW g
  PROVE  Hex(g).dotted = FALSE /\ Hex(g).value = g /\ parseGroup(Hex(g)) = <<g>>
  BY DEF Hex, parseGroup

LEMMA HexGroupsRead ==
  ASSUME NEW groups \in IPv6, NEW from \in 1..9, NEW to \in 0..8, from <= to + 1
  PROVE  Slice(toGroups(HexGroups(groups, from, to)), groups, from, to)
  <1> DEFINE part == HexGroups(groups, from, to)
             n == to - from + 1
  <1>1. n \in Nat /\ \A k \in 1..n : from + k - 1 \in 1..8
    OBVIOUS
  <1>2. DOMAIN part = 1..n /\ Len(part) = n
    BY <1>1 DEF HexGroups
  <1>3. \A k \in 1..n : /\ part[k] = Hex(groups[from + k - 1])
                        /\ groups[from + k - 1] \in Words
    BY <1>1 DEF HexGroups, IPv6
  <1>4. CASE n = 0
    <2>1. part = <<>>
      BY <1>4 DEF HexGroups
    <2>2. toGroups(part) = <<>>
      BY <2>1 DEF toGroups
    <2> QED
      BY <1>4, <2>2 DEF Slice
  <1>5. CASE n # 0
    <2> DEFINE front == [i \in 1..(n - 1) |-> part[i].value]
    <2>1. part # <<>> /\ n \in 1..n
      BY <1>1, <1>2, <1>5
    <2> HIDE DEF part, n
    <2>2. \A k \in 1..n : part[k].value = groups[from + k - 1]
      BY <1>3, HexRead
    <2>3. parseGroup(part[n]) = <<groups[from + n - 1]>>
      BY <1>3, <2>1, HexRead
    <2>7. toGroups(part) = front \o <<groups[from + n - 1]>>
      BY <1>2, <2>1, <2>3 DEF toGroups
    <2>4. front \in Seq(Words) /\ Len(front) = n - 1
          /\ \A k \in 1..(n - 1) : front[k] = groups[from + k - 1]
      <3>1. n - 1 \in Nat /\ \A k \in 1..(n - 1) : k \in 1..n
        BY <1>1, <1>5
      <3> QED
        BY <1>3, <2>2, <3>1
    <2> HIDE DEF front
    <2>5. groups[from + n - 1] \in Words
      BY <1>3, <2>1
    <2>6. /\ toGroups(part) \in Seq(Words) /\ Len(toGroups(part)) = n
          /\ \A k \in 1..n : toGroups(part)[k] = groups[from + k - 1]
      BY <1>1, <1>5, <2>7, <2>4, <2>5
    <2> QED
      BY <2>6 DEF Slice, part, n
  <1> QED
    BY <1>4, <1>5

\* The octets of two groups make them up again.
LEMMA OctetsOfGroup ==
  ASSUME NEW g \in Words
  PROVE  /\ g \div 256 \in 0..255 /\ g % 256 \in 0..255
         /\ 256 * (g \div 256) + (g % 256) = g
  BY SMT DEF Words

LEMMA DottedGroupsRead ==
  ASSUME NEW groups \in IPv6, NEW from \in 1..7
  PROVE  Slice(toGroups(DottedGroups(groups, from)), groups, from, 8)
  <1> DEFINE hex == HexGroups(groups, from, 6)
             last == Dotted(<<groups[7] \div 256, groups[7] % 256,
                              groups[8] \div 256, groups[8] % 256>>)
             part == DottedGroups(groups, from)
             n == 7 - from
             front == [i \in 1..n |-> part[i].value]
  <1>1. n \in Nat /\ \A k \in 1..n : from + k - 1 \in 1..8
    OBVIOUS
  <1>2. hex = [k \in 1..n |-> Hex(groups[from + k - 1])]
    <2>1. 6 - from + 1 = n
      OBVIOUS
    <2> QED
      BY <2>1 DEF HexGroups
  <1>3. part = Append(hex, last)
    BY DEF DottedGroups
  <1>4. \A k \in 1..n : groups[from + k - 1] \in Words
    BY <1>1 DEF IPv6
  <1>5. groups[7] \in Words /\ groups[8] \in Words
    BY DEF IPv6
  <1>6. parseGroup(last) = <<groups[7], groups[8]>>
    <2>1. parseGroup(last) = <<256 * (groups[7] \div 256) + (groups[7] % 256),
                               256 * (groups[8] \div 256) + (groups[8] % 256)>>
      BY DEF parseGroup, Dotted
    <2> QED
      BY <1>5, <2>1, OctetsOfGroup
  <1> HIDE DEF last, part, n, hex
  <1>7. /\ Len(part) = n + 1 /\ part[n + 1] = last
        /\ \A k \in 1..n : part[k] = Hex(groups[from + k - 1])
    <2> DEFINE Hexes == {Hex(groups[from + k - 1]) : k \in 1..n}
    <2>1. \A k \in 1..n : Hex(groups[from + k - 1]) \in Hexes
      OBVIOUS
    <2> HIDE DEF Hexes
    <2>2. hex \in Seq(Hexes) /\ Len(hex) = n
          /\ \A k \in 1..n : hex[k] = Hex(groups[from + k - 1])
      BY <1>1, <1>2, <2>1
    <2> QED
      BY <1>1, <1>3, <2>2
  <1>8. /\ front \in Seq(Words) /\ Len(front) = n
        /\ \A k \in 1..n : front[k] = groups[from + k - 1]
    <2>1. \A k \in 1..n : part[k].value = groups[from + k - 1]
      BY <1>7, HexRead
    <2>2. \A k \in 1..n : part[k].value \in Words
      BY <1>4, <2>1
    <2>3. front \in Seq(Words) /\ Len(front) = n /\ \A k \in 1..n : front[k] = part[k].value
      BY <1>1, <2>2
    <2> QED
      BY <2>1, <2>3
  <1>9. toGroups(part) = front \o <<groups[7], groups[8]>>
    <2>1. part # <<>> /\ Len(part) - 1 = n /\ part[Len(part)] = last
      BY <1>1, <1>7
    <2> QED
      BY <1>6, <2>1 DEF toGroups
  <1> HIDE DEF front
  <1>10. /\ toGroups(part) \in Seq(Words) /\ Len(toGroups(part)) = n + 2
         /\ \A k \in 1..n : toGroups(part)[k] = groups[from + k - 1]
         /\ toGroups(part)[n + 1] = groups[7] /\ toGroups(part)[n + 2] = groups[8]
    <2> DEFINE ends == <<groups[7], groups[8]>>
    <2>1. /\ ends \in Seq(Words) /\ Len(ends) = 2
          /\ ends[1] = groups[7] /\ ends[2] = groups[8]
      BY <1>5
    <2> HIDE DEF ends
    <2>2. toGroups(part) = front \o ends
      BY <1>9 DEF ends
    <2>3. /\ front \o ends \in Seq(Words) /\ Len(front \o ends) = n + 2
          /\ \A k \in 1..(n + 2) :
                (front \o ends)[k] = IF k <= n THEN front[k] ELSE ends[k - n]
      <3>1. front \in Seq(Words) /\ ends \in Seq(Words)
        BY <1>8, <2>1
      <3>2. /\ front \o ends \in Seq(Words)
            /\ Len(front \o ends) = Len(front) + Len(ends)
            /\ \A k \in 1..(Len(front) + Len(ends)) :
                  (front \o ends)[k]
                     = IF k <= Len(front) THEN front[k] ELSE ends[k - Len(front)]
        BY <3>1, ConcatProperties, Zenon
      <3>3. Len(front) = n /\ Len(ends) = 2
        BY <1>8, <2>1
      <3> QED
        BY <3>2, <3>3, Zenon
    <2>4. \A k \in 1..n : k \in 1..(n + 2) /\ k <= n
      BY <1>1
    <2>5. /\ n + 1 \in 1..(n + 2) /\ ~(n + 1 <= n) /\ (n + 1) - n = 1
          /\ n + 2 \in 1..(n + 2) /\ ~(n + 2 <= n) /\ (n + 2) - n = 2
      BY <1>1
    <2> QED
      BY <1>8, <2>1, <2>2, <2>3, <2>4, <2>5
  <1>11. n + 2 = 8 - from + 1 /\ from + (n + 1) - 1 = 7 /\ from + (n + 2) - 1 = 8
    BY DEF n
  <1>12. \A k \in 1..(n + 2) : k \in 1..n \/ k = n + 1 \/ k = n + 2
    BY <1>1
  <1>13. \A k \in 1..(n + 2) : toGroups(part)[k] = groups[from + k - 1]
    BY <1>10, <1>11, <1>12
  <1> QED
    BY <1>10, <1>11, <1>13 DEF Slice, part

\* What is left out is zeroes.
AllZero(groups, i, j) == \A k \in i..j : groups[k] = 0
Joins(head, zeroes, tail, groups) == head \o zeroes \o tail = groups

LEMMA FilledIn ==
  ASSUME NEW groups \in IPv6, NEW i \in 1..8, NEW j \in 1..8, i <= j,
         AllZero(groups, i, j), NEW head, NEW tail,
         Slice(head, groups, 1, i - 1), Slice(tail, groups, j + 1, 8),
         NEW zeroes \in Seq({0}), Len(zeroes) = j - i + 1
  PROVE  Joins(head, zeroes, tail, groups)
  <1> DEFINE n == j - i + 1
             front == head \o zeroes
             all == front \o tail
  <1>0. 0 \in Words
    BY SMT DEF Words
  <1>1. /\ head \in Seq(Words) /\ Len(head) = i - 1
        /\ \A k \in 1..(i - 1) : head[k] = groups[k]
    BY DEF Slice
  <1>2. /\ tail \in Seq(Words) /\ Len(tail) = 8 - j
        /\ \A k \in 1..(8 - j) : tail[k] = groups[j + k]
    BY DEF Slice
  <1>3. n = j - i + 1 /\ n \in Nat
    OBVIOUS
  <1> HIDE DEF n
  <1>4. zeroes \in Seq(Words) /\ Len(zeroes) = n /\ \A k \in 1..n : zeroes[k] = 0
    <2>1. Len(zeroes) = n
      BY <1>3
    <2>2. \A k \in 1..n : zeroes[k] \in {0}
      BY <2>1
    <2> QED
      BY <1>0, <2>1, <2>2
  <1>5. /\ front \in Seq(Words) /\ Len(front) = j
        /\ \A k \in 1..j : front[k] = IF k <= i - 1 THEN head[k] ELSE zeroes[k - (i - 1)]
    <2>1. /\ front \in Seq(Words) /\ Len(front) = Len(head) + Len(zeroes)
          /\ \A k \in 1..(Len(head) + Len(zeroes)) :
                front[k] = IF k <= Len(head) THEN head[k] ELSE zeroes[k - Len(head)]
      <3>1. head \in Seq(Words) /\ zeroes \in Seq(Words)
        BY <1>1, <1>4
      <3> QED
        BY <3>1, ConcatProperties
    <2>2. Len(head) = i - 1 /\ Len(head) + Len(zeroes) = j
      <3>1. Len(head) = i - 1 /\ Len(zeroes) = j - i + 1
        BY <1>1, <1>3, <1>4
      <3> QED
        BY <3>1
    <2> HIDE DEF front
    <2> QED
      BY <2>1, <2>2
  <1>6. \A k \in 1..j : front[k] = groups[k]
    <2> SUFFICES ASSUME NEW k \in 1..j PROVE front[k] = groups[k]
      OBVIOUS
    <2>1. CASE k <= i - 1
      BY <1>1, <1>5, <2>1
    <2>2. CASE ~(k <= i - 1)
      <3>1. k - (i - 1) \in 1..n /\ k \in i..j
        BY <1>3, <2>2
      <3> QED
        BY <1>4, <1>5, <2>2, <3>1 DEF AllZero
    <2> QED
      BY <2>1, <2>2
  <1> HIDE DEF front
  <1>7. /\ all \in Seq(Words) /\ Len(all) = 8
        /\ \A k \in 1..8 : all[k] = IF k <= j THEN front[k] ELSE tail[k - j]
    <2>1. /\ all \in Seq(Words) /\ Len(all) = Len(front) + Len(tail)
          /\ \A k \in 1..(Len(front) + Len(tail)) :
                all[k] = IF k <= Len(front) THEN front[k] ELSE tail[k - Len(front)]
      BY <1>2, <1>5, ConcatProperties
    <2>2. Len(front) = j /\ Len(front) + Len(tail) = 8
      BY <1>2, <1>5
    <2> QED
      BY <2>1, <2>2
  <1> HIDE DEF all
  <1>8. \A k \in 1..8 : all[k] = groups[k]
    <2> SUFFICES ASSUME NEW k \in 1..8 PROVE all[k] = groups[k]
      OBVIOUS
    <2>1. CASE k <= j
      BY <1>6, <1>7, <2>1
    <2>2. CASE ~(k <= j)
      <3>1. k - j \in 1..(8 - j) /\ j + (k - j) = k
        BY <2>2
      <3>2. all[k] = tail[k - j]
        BY <1>7, <2>2
      <3>3. tail[k - j] = groups[j + (k - j)]
        BY <1>2, <3>1
      <3> QED
        BY <3>1, <3>2, <3>3
    <2> QED
      BY <2>1, <2>2
  <1>9. all = [k \in 1..8 |-> all[k]] /\ groups = [k \in 1..8 |-> groups[k]]
    BY <1>7 DEF IPv6
  <1>10. all = groups
    BY <1>8, <1>9
  <1> QED
    BY <1>10 DEF all, front, Joins

\* expandIPv6 (webhook-url.ts:26): whatever zeroes the text of an address leaves out, and
\* whether it ends in hexadecimal or dotted, the eight groups come out.
THEOREM TextsExpand == \A groups \in IPv6 : ExpandsRight(groups)
  <1> SUFFICES ASSUME NEW groups \in IPv6, NEW text \in TextsOf(groups)
               PROVE  expandIPv6(text) = groups
    BY DEF ExpandsRight
  <1>1. ASSUME NEW part \in {HexGroups(groups, 1, 8), DottedGroups(groups, 1)},
               text = [head |-> part, compressed |-> FALSE, tail |-> <<>>]
        PROVE  expandIPv6(text) = groups
    <2>1. Slice(toGroups(part), groups, 1, 8)
      BY <1>1, HexGroupsRead, DottedGroupsRead
    <2>2. /\ toGroups(part) \in Seq(Words) /\ Len(toGroups(part)) = 8
          /\ \A k \in 1..8 : toGroups(part)[k] = groups[k]
      BY <2>1 DEF Slice
    <2>3. toGroups(part) = groups
      BY <2>2 DEF IPv6
    <2>4. expandIPv6(text) = toGroups(part)
      BY <1>1 DEF expandIPv6
    <2> QED
      BY <2>3, <2>4
  <1>2. ASSUME NEW run \in ZeroRuns(groups), NEW tail,
               Slice(toGroups(tail), groups, run[2] + 1, 8),
               text = [head |-> HexGroups(groups, 1, run[1] - 1), compressed |-> TRUE,
                       tail |-> tail]
        PROVE  expandIPv6(text) = groups
    <2> DEFINE head == HexGroups(groups, 1, run[1] - 1)
               zeroes == [k \in 1..(8 - Len(toGroups(head)) - Len(toGroups(tail))) |-> 0]
    <2>1. PICK i \in 1..8, j \in 1..8 :
              run[1] = i /\ run[2] = j /\ i <= j /\ \A k \in i..j : groups[k] = 0
      BY DEF ZeroRuns
    <2>2. Slice(toGroups(head), groups, 1, run[1] - 1)
      BY <2>1, HexGroupsRead
    <2>3. expandIPv6(text) = toGroups(head) \o zeroes \o toGroups(tail)
      BY <1>2 DEF expandIPv6
    <2> HIDE DEF head
    <2>4. zeroes \in Seq({0}) /\ Len(zeroes) = j - i + 1
      <3> DEFINE n == 8 - Len(toGroups(head)) - Len(toGroups(tail))
      <3>1. Len(toGroups(head)) = i - 1 /\ Len(toGroups(tail)) = 8 - j
        BY <1>2, <2>1, <2>2 DEF Slice
      <3>2. n = j - i + 1 /\ n \in Nat
        BY <2>1, <3>1
      <3>3. zeroes = [k \in 1..n |-> 0]
        OBVIOUS
      <3> HIDE DEF n, zeroes
      <3> QED
        BY <3>2, <3>3
    <2> HIDE DEF zeroes
    <2>5. Joins(toGroups(head), zeroes, toGroups(tail), groups)
      <3>1. /\ Slice(toGroups(head), groups, 1, i - 1)
            /\ Slice(toGroups(tail), groups, j + 1, 8)
        BY <1>2, <2>1, <2>2
      <3>2. i <= j /\ AllZero(groups, i, j)
        BY <2>1 DEF AllZero
      <3> QED
        BY <2>4, <3>1, <3>2, FilledIn
    <2> QED
      BY <2>3, <2>5 DEF Joins
  <1>3. ASSUME NEW run \in ZeroRuns(groups),
               text = [head |-> HexGroups(groups, 1, run[1] - 1), compressed |-> TRUE,
                       tail |-> HexGroups(groups, run[2] + 1, 8)]
        PROVE  expandIPv6(text) = groups
    <2>1. run[2] \in 1..8
      BY DEF ZeroRuns
    <2>2. Slice(toGroups(HexGroups(groups, run[2] + 1, 8)), groups, run[2] + 1, 8)
      BY <2>1, HexGroupsRead
    <2> QED
      BY <1>2, <1>3, <2>2
  <1>4. ASSUME NEW run \in {z \in ZeroRuns(groups) : z[2] < 7},
               text = [head |-> HexGroups(groups, 1, run[1] - 1), compressed |-> TRUE,
                       tail |-> DottedGroups(groups, run[2] + 1)]
        PROVE  expandIPv6(text) = groups
    <2>1. run[2] + 1 \in 1..7
      BY DEF ZeroRuns
    <2>2. Slice(toGroups(DottedGroups(groups, run[2] + 1)), groups, run[2] + 1, 8)
      BY <2>1, DottedGroupsRead
    <2> QED
      BY <1>2, <1>4, <2>2
  <1> QED
    BY <1>1, <1>3, <1>4 DEF TextsOf

\* The masks of isPrivateIPv6, as the ranges of the first group they stand for.
LEMMA MasksAsRanges ==
  ASSUME NEW g \in Words
  PROVE  /\ Masked(g, 512) = 64512 <=> g \in 64512..65023
         /\ Masked(g, 64) = 65152 <=> g \in 65152..65215
         /\ Masked(g, 256) = 65280 <=> g \in 65280..65535
  <1>1. g \in Int /\ 0 <= g /\ g <= 65535
    BY SMT DEF Words
  <1>2. Masked(g, 512) = 64512 <=> g \in 64512..65023
    <2> DEFINE q == g \div 512
               rest == g % 512
    <2>1. q \in Int /\ rest \in 0..511 /\ g = 512 * q + rest
      BY <1>1, SMT
    <2>2. Masked(g, 512) = g - rest
      BY SMT DEF Masked
    <2> HIDE DEF q, rest
    <2> QED
      BY <1>1, <2>1, <2>2, SMT
  <1>3. Masked(g, 64) = 65152 <=> g \in 65152..65215
    <2> DEFINE q == g \div 64
               rest == g % 64
    <2>1. q \in Int /\ rest \in 0..63 /\ g = 64 * q + rest
      BY <1>1, SMT
    <2>2. Masked(g, 64) = g - rest
      BY SMT DEF Masked
    <2> HIDE DEF q, rest
    <2> QED
      BY <1>1, <2>1, <2>2, SMT
  <1>4. Masked(g, 256) = 65280 <=> g \in 65280..65535
    <2> DEFINE q == g \div 256
               rest == g % 256
    <2>1. q \in Int /\ rest \in 0..255 /\ g = 256 * q + rest
      BY <1>1, SMT
    <2>2. Masked(g, 256) = g - rest
      BY SMT DEF Masked
    <2> HIDE DEF q, rest
    <2> QED
      BY <1>1, <2>1, <2>2, SMT
  <1> QED
    BY <1>2, <1>3, <1>4, SMT

\* isPrivateIPv6 (webhook-url.ts:46): an address is refused exactly if it is :: or ::1, in
\* fc00::/7, fe80::/10 or ff00::/8, or a mapped IPv4 address of a block set aside, for all
\* 2^128 addresses and however each is written.
THEOREM RefusedIPv6 == \A groups \in IPv6 : PrivateIsSpecialIPv6(groups)
  <1> SUFFICES ASSUME NEW groups \in IPv6, NEW text \in TextsOf(groups)
               PROVE  isPrivateIPv6(text) <=> SpecialIPv6(groups)
    BY DEF PrivateIsSpecialIPv6
  <1>1. expandIPv6(text) = groups
    BY TextsExpand DEF ExpandsRight
  <1>2. \A i \in 1..8 : groups[i] \in Words
    BY DEF IPv6
  <1> DEFINE o == <<groups[7] \div 256, groups[7] % 256, groups[8] \div 256, groups[8] % 256>>
             mapped == (\A i \in 1..5 : groups[i] = 0) /\ groups[6] = 65535
  <1>3. isPrivateIPv4(o)
          <=> \E block \in SpecialBlocks : InBlock(256 * groups[7] + groups[8] \div 256, block)
    <2>1. groups[7] \in Words /\ groups[8] \in Words
      BY <1>2
    <2>2. /\ o \in IPv4 /\ o[1] = groups[7] \div 256 /\ o[2] = groups[7] % 256
          /\ o[3] = groups[8] \div 256
      <3> DEFINE a == groups[7] \div 256
                 b == groups[7] % 256
                 c == groups[8] \div 256
                 d == groups[8] % 256
      <3>1. a \in Octets /\ b \in Octets /\ c \in Octets /\ d \in Octets
        BY <2>1, OctetsOfGroup, SMT DEF Octets
      <3>2. o = <<a, b, c, d>>
        OBVIOUS
      <3> HIDE DEF a, b, c, d, o
      <3>3. o \in IPv4 /\ o[1] = a /\ o[2] = b /\ o[3] = c
        BY <3>1, <3>2, SMT DEF IPv4
      <3> QED
        BY <3>3 DEF a, b, c
    <2>3. Prefix(o[1], o[2], o[3]) = 256 * groups[7] + groups[8] \div 256
      <3> DEFINE a == groups[7] \div 256
                 b == groups[7] % 256
                 c == groups[8] \div 256
      <3>1. a \in Int /\ b \in Int /\ c \in Int /\ 256 * a + b = groups[7]
        BY <2>1, OctetsOfGroup, SMT
      <3>2. o[1] = a /\ o[2] = b /\ o[3] = c
        BY <2>2
      <3> HIDE DEF a, b, c, o
      <3>3. Prefix(o[1], o[2], o[3]) = 256 * groups[7] + c
        BY <3>1, <3>2, SMT DEF Prefix
      <3> QED
        BY <3>3 DEF c
    <2> QED
      BY <2>2, <2>3, RefusedBlocks, SMT DEF PrivateIsSpecial
  <1> HIDE DEF o
  <1>4. isPrivateIPv6(text) <=>
            IF mapped THEN isPrivateIPv4(o)
            ELSE \/ (\A i \in 1..7 : groups[i] = 0) /\ groups[8] \in {0, 1}
                 \/ Masked(groups[1], 512) = 64512
                 \/ Masked(groups[1], 64) = 65152
                 \/ Masked(groups[1], 256) = 65280
    BY <1>1, SMT DEF isPrivateIPv6, o
  <1>5. /\ Masked(groups[1], 512) = 64512 <=> groups[1] \in 64512..65023
        /\ Masked(groups[1], 64) = 65152 <=> groups[1] \in 65152..65215
        /\ Masked(groups[1], 256) = 65280 <=> groups[1] \in 65280..65535
    BY <1>2, MasksAsRanges, SMT
  <1>6. mapped => /\ groups[1] = 0 /\ ~\A i \in 1..7 : groups[i] = 0
                  /\ groups[1] \notin 64512..65023 /\ groups[1] \notin 65152..65215
                  /\ groups[1] \notin 65280..65535
    OBVIOUS
  <1> QED
    BY <1>3, <1>4, <1>5, <1>6, SMT DEF SpecialIPv6

-----------------------------------------------------------------------------
(* The signature.                                                          *)

Macs(Secrets, Bodies) == [secret : Secrets, timestamp : Int, body : Bodies]

Less == {pair \in Nat \X Nat : pair[1] < pair[2]}

LEMMA LessWellFounded == IsWellFoundedOn(Less, Nat)
  <1>1. Less = OpToRel(<, Nat)
    BY DEF Less, OpToRel
  <1> QED
    BY <1>1, NatLessThanWellFounded

\* Of the places of a key in a header one is the last: the one whose distance from the
\* end is least.
LEMMA LastPlace ==
    ASSUME NEW n \in Nat, NEW at \in SUBSET (1..n), at # {}
    PROVE  \E i \in at : \A j \in at : j <= i
  <1> DEFINE distances == {n - i : i \in at}
  <1>1. \A i \in at : i \in Int /\ 1 <= i /\ i <= n
    BY SMT
  <1>2. distances \subseteq Nat
    BY <1>1, SMT
  <1>3. distances # {}
    OBVIOUS
  <1> HIDE DEF distances
  <1>4. PICK d \in distances : \A e \in distances : ~(<<e, d>> \in Less)
    BY <1>2, <1>3, LessWellFounded, WFMin
  <1>5. PICK i \in at : d = n - i
    BY <1>4 DEF distances
  <1>6. ASSUME NEW j \in at PROVE j <= i
    <2>1. n - j \in distances
      BY DEF distances
    <2>2. ~(<<n - j, n - i>> \in Less)
      BY <1>4, <1>5, <2>1, Zenon
    <2>3. n - j \in Nat /\ n - i \in Nat
      BY <1>1, SMT
    <2>4. ~(n - j < n - i)
      BY <2>2, <2>3, SMT DEF Less
    <2> QED
      BY <1>1, <2>4, SMT
  <1> QED
    BY <1>6

\* The map has the value of a part, or none.
LEMMA ValueType ==
    ASSUME NEW Keys, NEW Times, NEW M, NEW header \in Headers(Keys, Times, M), NEW key
    PROVE  ValueOf(header, key) \in Values(Times, M)
  <1> DEFINE at == {i \in DOMAIN header : header[i].key = key}
             last == CHOOSE i \in at : \A j \in at : j <= i
  <1>1. header \in Seq([key : Keys, value : Values(Times, M)])
    BY DEF Headers
  <1>2. CASE at = {}
    BY <1>2 DEF ValueOf, Values
  <1>3. CASE at # {}
    <2>1. Len(header) \in Nat /\ at \in SUBSET (1..Len(header))
      BY <1>1, SMT
    <2>2. last \in at
      BY <1>3, <2>1, LastPlace
    <2> HIDE DEF last
    <2>3. last \in 1..Len(header)
      BY <2>1, <2>2
    <2>4. header[last] \in [key : Keys, value : Values(Times, M)]
      BY <1>1, <2>3, ElementOfSeq
    <2>5. header[last].value \in Values(Times, M)
      BY <2>4
    <2> QED
      BY <1>3, <2>5 DEF ValueOf, last
  <1> QED
    BY <1>2, <1>3

\* webhook-signature.ts, verifyWebhookSignature: a signature is taken for what it was made
\* for, secret, time and body, and for nothing else, whatever the header around it.
THEOREM SignatureHolds ==
    ASSUME NEW Secrets, NEW Bodies, NEW Keys,
           NEW secret \in Secrets, NEW body \in Bodies,
           NEW signed \in Macs(Secrets, Bodies),
           NEW header \in Headers(Keys, Int, Macs(Secrets, Bodies)),
           NEW tolerance \in Nat, NEW now \in Int
    PROVE  TakenAsSigned(secret, body, header, tolerance, now, signed)
  <1> DEFINE t == ValueOf(header, "t")
             v1 == ValueOf(header, "v1")
             verdict == verifyWebhookSignature(secret, body, header, tolerance, now)
  <1> SUFFICES ASSUME NEW others \in BOOLEAN, v1 = HexText(signed, others)
               PROVE  verdict = "ok" <=>
                         /\ signed = computeHmac(secret, signed.timestamp, body)
                         /\ t = NumberText(signed.timestamp)
                         /\ signed.timestamp - tolerance <= now
                         /\ now <= signed.timestamp + tolerance
    BY DEF TakenAsSigned
  <1>1. signed.timestamp \in Int
    BY DEF Macs
  <1>2. t \in Values(Int, Macs(Secrets, Bodies))
    BY ValueType
  <1>3. v1 # Missing
    BY DEF HexText, Missing
  <1>4. CASE \E n \in Int : t = NumberText(n)
    <2>1. PICK n \in Int : t = NumberText(n)
      BY <1>4
    <2>2. t.kind = "number" /\ t.value = n /\ t # Missing
      BY <2>1 DEF NumberText, Missing
    <2>3. verdict = "ok" <=> /\ ~(now - n > tolerance \/ -(now - n) > tolerance)
                             /\ Decodes(v1, computeHmac(secret, n, body))
      BY <1>3, <2>2, Zenon DEF verifyWebhookSignature
    <2>4. Decodes(v1, computeHmac(secret, n, body)) <=> signed = computeHmac(secret, n, body)
      BY DEF Decodes, HexText
    <2>5. signed = computeHmac(secret, n, body) => signed.timestamp = n
      BY DEF computeHmac
    <2>6. t = NumberText(signed.timestamp) <=> signed.timestamp = n
      BY <2>1, <2>2 DEF NumberText
    <2>7. ~(now - n > tolerance \/ -(now - n) > tolerance)
             <=> n - tolerance <= now /\ now <= n + tolerance
      BY SMT
    <2> QED
      BY <2>3, <2>4, <2>5, <2>6, <2>7
  <1>5. CASE ~\E n \in Int : t = NumberText(n)
    <2>1. t = Missing \/ t.kind # "number"
      BY <1>2, <1>5 DEF Values, Word, HexText
    <2>2. verdict = "malformed-header"
      BY <2>1, Zenon DEF verifyWebhookSignature
    <2> QED
      BY <1>1, <1>5, <2>2
  <1> QED
    BY <1>4, <1>5

\* webhook-signature.ts, signWebhookPayload: what it makes is taken within the tolerance,
\* and not before or after.
THEOREM SentHolds ==
    ASSUME NEW secret, NEW body, NEW timestamp \in Int, NEW tolerance \in Nat, NEW now \in Int
    PROVE  SentIsTaken(secret, body, timestamp, tolerance, now)
  <1> DEFINE header == SignedHeader(secret, body, timestamp)
             mac == computeHmac(secret, timestamp, body)
             hex == HexText(mac, FALSE)
             verdict == verifyWebhookSignature(secret, body, header, tolerance, now)
  <1>1. /\ DOMAIN header = {1, 2}
        /\ header[1] = Part("t", NumberText(timestamp))
        /\ header[2] = Part("v1", hex)
    BY DEF SignedHeader
  <1> HIDE DEF header, mac, hex
  <1>2. ValueOf(header, "t") = NumberText(timestamp)
    <2>1. {i \in DOMAIN header : header[i].key = "t"} = {1}
      BY <1>1 DEF Part
    <2>2. (CHOOSE i \in {1} : \A j \in {1} : j <= i) = 1
      BY SMT
    <2>3. ValueOf(header, "t") = header[1].value
      BY <2>1, <2>2, Zenon DEF ValueOf
    <2> QED
      BY <1>1, <2>3 DEF Part
  <1>3. ValueOf(header, "v1") = hex
    <2>1. {i \in DOMAIN header : header[i].key = "v1"} = {2}
      BY <1>1 DEF Part
    <2>2. (CHOOSE i \in {2} : \A j \in {2} : j <= i) = 2
      BY SMT
    <2>3. ValueOf(header, "v1") = header[2].value
      BY <2>1, <2>2, Zenon DEF ValueOf
    <2> QED
      BY <1>1, <2>3 DEF Part
  <1>4. /\ NumberText(timestamp).kind = "number" /\ NumberText(timestamp).value = timestamp
        /\ NumberText(timestamp) # Missing /\ hex # Missing
        /\ Decodes(hex, mac)
    BY DEF NumberText, HexText, Missing, Decodes, hex
  <1>5. verdict = "ok" <=> ~(now - timestamp > tolerance \/ -(now - timestamp) > tolerance)
    BY <1>2, <1>3, <1>4, Zenon DEF verifyWebhookSignature, mac
  <1>6. ~(now - timestamp > tolerance \/ -(now - timestamp) > tolerance)
           <=> timestamp - tolerance <= now /\ now <= timestamp + tolerance
    BY SMT
  <1> QED
    BY <1>5, <1>6 DEF SentIsTaken, header
=============================================================================
