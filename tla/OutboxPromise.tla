--------------------------- MODULE OutboxPromise ---------------------------
(***************************************************************************)
(* What the outbox promises, with no ticks, locks or processes: an event   *)
(* exists once its transaction commits, is claimed at most once, and only  *)
(* a claimed event is handed to an endpoint, to each at most once.         *)
(*                                                                         *)
(* It does not promise that a claimed event is handed over: the claim      *)
(* commits in Postgres before the jobs are added in Redis.                 *)
(***************************************************************************)
CONSTANTS Events, Endpoints

VARIABLES recorded, dispatched, jobs

vars == <<recorded, dispatched, jobs>>

Init ==
    /\ recorded = {} /\ dispatched = {}
    /\ jobs = [e \in Events |-> [p \in Endpoints |-> 0]]

\* A domain change commits; a test event is born dispatched.
Record(e) ==
    /\ e \in Events \ recorded
    /\ recorded' = recorded \cup {e}
    /\ dispatched' \in {dispatched, dispatched \cup {e}}
    /\ UNCHANGED jobs

Claim(es) ==
    /\ es # {} /\ es \subseteq recorded \ dispatched
    /\ dispatched' = dispatched \cup es
    /\ UNCHANGED <<recorded, jobs>>

HandOver(e, p) ==
    /\ e \in dispatched
    /\ jobs[e][p] = 0
    /\ jobs' = [jobs EXCEPT ![e][p] = 1]
    /\ UNCHANGED <<recorded, dispatched>>

Next ==
    \/ \E e \in Events : Record(e) \/ \E p \in Endpoints : HandOver(e, p)
    \/ \E es \in SUBSET Events : Claim(es)

Spec == Init /\ [][Next]_vars
=============================================================================
