------------------------------- MODULE MCTasks -------------------------------
(* Two members, an administrator and an API key.                            *)
EXTENDS Tasks

CONSTANTS r1, r2, t1, t2, ann, bob, admin, key

MCRequests == {r1, r2}
MCTasks == {t1, t2}
MCUsers == {ann, admin}
MCActors == {ann, admin, key}
MCCan == [a \in MCActors |->
            IF a = admin THEN Permissions \ {"task:assign:self"}
            ELSE IF a = key THEN {"task:create"}
            ELSE {"task:create", "task:update:own", "task:delete:own", "task:assign:self"}]

\* For the race of two members.
OneTask == {t1}
Members == {ann, bob}
MembersCan == [a \in Members |-> {"task:create", "task:update:own", "task:delete:own",
                                  "task:assign:self"}]
=============================================================================
