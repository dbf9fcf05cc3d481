------------------------- MODULE MCOutboxDispatcher -------------------------
(* Two replicas, one of which can have two ticks under way at once.        *)
EXTENDS OutboxDispatcher

CONSTANTS w1, w2, t1, t2, t3, p1, p2, task_updated

MCWorkers == {w1, w2}
MCTicks == {t1, t2, t3}
MCHost == [t \in MCTicks |-> IF t = t3 THEN w2 ELSE w1]
MCEvents == 1..2
MCTypes == {task_updated}
MCTypeOf == [e \in MCEvents |-> task_updated]
MCEndpoints == {p1, p2}
=============================================================================
