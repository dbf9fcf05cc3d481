-------------------------------- MODULE Tasks --------------------------------
(***************************************************************************)
(* The tasks of one project under concurrent requests.                     *)
(*                                                                         *)
(* A request on a task first reads the task (requireTask), decides what    *)
(* the actor may do from what it READ, and only then writes, in one        *)
(* Postgres transaction that also inserts the activity entries and their   *)
(* outbox events.  PATCH writes under optimistic locking: WHERE version =  *)
(* the version the client sends.  Assigning, unassigning and deleting      *)
(* write by id alone.  Creating takes the next number of the project's     *)
(* counter, whose row stays locked until the transaction ends.             *)
(*                                                                         *)
(* A transaction on a task is one step: it writes one task row, and the    *)
(* row lock of its first statement makes a second one wait and evaluate    *)
(* its WHERE again.  Title, priority and due date go the way of the status *)
(* without its completedAt.  Members stay members.                         *)
(*                                                                         *)
(* One client walks page by page through a list of tasks meanwhile.        *)
(***************************************************************************)
EXTENDS Pagination, FiniteSets, Sequences

CONSTANTS
    Requests,     \* requests the API can have under way at once
    Tasks,        \* ids of the task rows
    Actors,       \* who sends requests: users and API keys
    Users,        \* the users among them, all members of the organization
    Stranger,     \* a user who is not a member
    Can,          \* permissions of each actor: of the role or of the key
    Idle, Nobody,
    PageSize,     \* tasks on a page
    \* bounds of a run, not of the program
    MaxRequests   \* requests served

Permissions == {"task:create", "task:assign", "task:assign:self", "task:update:any",
                "task:update:own", "task:delete:any", "task:delete:own"}

ASSUME TasksConstants ==
    /\ IsFiniteSet(Requests) /\ Idle \notin Requests /\ IsFiniteSet(Tasks)
    /\ Users \subseteq Actors /\ Stranger \notin Actors
    /\ Can \in [Actors -> SUBSET Permissions]
    /\ Nobody \notin Actors
    /\ PageSize \in Nat \ {0}
    /\ MaxRequests \in Nat

VARIABLES
    row,       \* the Task rows
    counter,   \* Project.taskCounter
    claimed,   \* the request whose transaction holds the lock on the counter
    activity,  \* TaskActivity of each task; each entry has its OutboxEvent
    request,   \* what each request is about to do, and the row it read
    served,
    walk,      \* the list a client walks through, the page it is at, what it has seen
    \* history, read by no action
    touched,   \* tasks that left the list during the walk
    unsure     \* one of them was the cursor

stored == <<row, counter, claimed, activity, request>>
vars == <<stored, served, walk, touched, unsure>>

Statuses == {"TODO", "DONE"}
Assignees == Users \cup {Nobody}

\* A row that is not inserted yet has the number 0.
Row == [number : Nat, status : Statuses, assignee : Assignees, creator : Actors \cup {Nobody},
        version : Nat, completed : BOOLEAN, deleted : BOOLEAN]
NoRow == [number |-> 0, status |-> "TODO", assignee |-> Nobody, creator |-> Nobody,
          version |-> 0, completed |-> FALSE, deleted |-> FALSE]

Inserted == {t \in Tasks : row[t].number # 0}

Entry == [type : {"TASK_CREATED"}]
         \cup [type : {"STATUS_CHANGED"}, before : Statuses, after : Statuses]
         \cup [type : {"ASSIGNEE_CHANGED"}, before : Assignees, after : Assignees]

Creation == [op : {"create"}, actor : Actors, assignee : Assignees]
Writing == [op : {"update"}, actor : Actors, task : Tasks, read : Row,
            version : Nat, status : Statuses \cup {"unset"}]
           \cup [op : {"assign"}, actor : Actors, task : Tasks, read : Row,
                 assignee : Assignees]
           \cup [op : {"remove"}, actor : Actors, task : Tasks, read : Row]

StoredOK ==
    /\ row \in [Tasks -> Row]
    /\ counter \in Nat
    /\ claimed \in Requests \cup {Idle}
    /\ activity \in [Tasks -> Seq(Entry)]
    /\ request \in [Requests -> Creation \cup Writing \cup {Idle}]
    /\ served \in 0..MaxRequests

TypeOK ==
    /\ StoredOK
    /\ walk = Idle \/ walk.seen \in Seq(1..Cardinality(Inserted))

Init ==
    /\ row = [t \in Tasks |-> NoRow]
    /\ counter = 0
    /\ claimed = Idle
    /\ activity = [t \in Tasks |-> <<>>]
    /\ request = [r \in Requests |-> Idle]
    /\ served = 0
    /\ walk = Idle /\ touched = {} /\ unsure = FALSE

-----------------------------------------------------------------------------
(* What a request decides from the row it read.  A definition marked FAULTY *)
(* is a wrong version of the next one; no action uses it.                   *)

\* isOwnTask: an API key owns nothing.
Own(a, t) == a \in Users /\ (row[t].creator = a \/ row[t].assignee = a)

\* canActorActOnResource.
MayUpdate(a, t) == "task:update:any" \in Can[a] \/ ("task:update:own" \in Can[a] /\ Own(a, t))
MayDelete(a, t) == "task:delete:any" \in Can[a] \/ ("task:delete:own" \in Can[a] /\ Own(a, t))

SelfOnly(a) == "task:assign" \notin Can[a] /\ "task:assign:self" \in Can[a] /\ a \in Users

MayAssign(a, t, u) ==
    \/ "task:assign" \in Can[a]
    \/ SelfOnly(a) /\ u = a /\ row[t].assignee = Nobody
MayUnassign(a, t) == "task:assign" \in Can[a] \/ (SelfOnly(a) /\ row[t].assignee = a)

\* Create and assign ask for a membership of the assignee, if there is one.
assertAssigneeIsMember(u) == u \in Users \cup {Nobody}

Arrive(r, q) ==
    /\ request[r] = Idle
    /\ served < MaxRequests
    /\ served' = served + 1
    /\ request' = [request EXCEPT ![r] = q]
    /\ UNCHANGED <<row, counter, claimed, activity>>

Answer(r) == request' = [request EXCEPT ![r] = Idle]

-----------------------------------------------------------------------------
(* Creating.                                                               *)

\* There are no more creations than ids: a bound of the model.
Creating(r) == request[r] # Idle /\ request[r].op = "create"

RequestCreate(r, a, u) ==
    /\ "task:create" \in Can[a]
    /\ assertAssigneeIsMember(u)
    /\ Cardinality(Inserted) + Cardinality({i \in Requests : Creating(i)}) < Cardinality(Tasks)
    /\ Arrive(r, [op |-> "create", actor |-> a, assignee |-> u])

\* UPDATE "Project" SET "taskCounter" = "taskCounter" + 1 RETURNING: waits for
\* the transaction that holds the row.
ClaimNumber(r) ==
    /\ Creating(r)
    /\ claimed = Idle
    /\ claimed' = r
    /\ counter' = counter + 1
    /\ UNCHANGED <<row, activity, request, served>>

\* Ids are fresh, so it does not matter which one a task gets.
FirstFree == CHOOSE t \in Tasks \ Inserted : TRUE

\* The insert and its TASK_CREATED entry; the transaction commits.
InsertTask(r) ==
    /\ Creating(r) /\ claimed = r
    /\ LET t == FirstFree IN
        /\ row' = [row EXCEPT ![t] = [NoRow EXCEPT !.number = counter, !.version = 1,
                        !.assignee = request[r].assignee, !.creator = request[r].actor]]
        /\ activity' = [activity EXCEPT ![t] = Append(@, [type |-> "TASK_CREATED"])]
    /\ claimed' = Idle
    /\ Answer(r)
    /\ UNCHANGED <<counter, served>>

\* FAULTY: the increment is not part of the transaction; the lock is not given back.
AbortKeepingNumber(r) ==
    /\ request[r] # Idle
    /\ claimed' = IF claimed = r THEN Idle ELSE claimed
    /\ Answer(r)
    /\ UNCHANGED <<row, counter, activity, served>>
AbortKeepingLock(r) ==
    /\ request[r] # Idle
    /\ Answer(r)
    /\ UNCHANGED <<row, counter, claimed, activity, served>>

\* A statement fails or the process dies: the transaction, the number and the
\* lock with it, is rolled back.
Abort(r) ==
    /\ request[r] # Idle
    /\ counter' = counter - (IF claimed = r THEN 1 ELSE 0)
    /\ claimed' = IF claimed = r THEN Idle ELSE claimed
    /\ Answer(r)
    /\ UNCHANGED <<row, activity, served>>

-----------------------------------------------------------------------------
(* Requests on a task: requireTask reads a row that is not deleted.        *)

Visible == {t \in Inserted : ~row[t].deleted}

\* PATCH with the version of an answer the client has had.
RequestUpdate(r, a, t, v, s) ==
    /\ t \in Visible /\ MayUpdate(a, t)
    /\ v \in 1..row[t].version
    /\ Arrive(r, [op |-> "update", actor |-> a, task |-> t, read |-> row[t],
                  version |-> v, status |-> s])

RequestRemove(r, a, t) ==
    /\ t \in Visible /\ MayDelete(a, t)
    /\ Arrive(r, [op |-> "remove", actor |-> a, task |-> t, read |-> row[t]])

\* Assigning to u, or to nobody: unassign.
RequestAssign(r, a, t, u) ==
    /\ t \in Visible
    /\ IF u = Nobody THEN MayUnassign(a, t) ELSE MayAssign(a, t, u)
    /\ assertAssigneeIsMember(u)
    /\ Arrive(r, [op |-> "assign", actor |-> a, task |-> t, read |-> row[t],
                  assignee |-> u])

Writes(r, op) == request[r] # Idle /\ request[r].op = op

\* completedAt as patched: decided from the status that was read.
\* FAULTY: it is never cleared.
CompletedNeverCleared(q, before) ==
    IF q.status = "DONE" /\ q.read.status # "DONE" THEN TRUE ELSE before
Completed(q, before) ==
    IF q.status = "DONE" /\ q.read.status # "DONE" THEN TRUE
    ELSE IF q.status # "unset" /\ q.status # "DONE" /\ q.read.status = "DONE" THEN FALSE
    ELSE before

\* FAULTY: a field the client left out is written too.
PatchedUnset(q, old) ==
    [old EXCEPT !.status = q.status, !.completed = Completed(q, @), !.version = @ + 1]

Patched(q, old) ==
    [old EXCEPT !.status = IF q.status = "unset" THEN @ ELSE q.status,
                !.completed = Completed(q, @),
                !.version = @ + 1]

\* diffTaskFields: the read row against the input.
StatusEntries(q) ==
    IF q.status # "unset" /\ q.status # q.read.status
    THEN <<[type |-> "STATUS_CHANGED", before |-> q.read.status, after |-> q.status]>>
    ELSE <<>>

\* FAULTY: last writer wins.
WriteUpdateAnyVersion(r) ==
    /\ Writes(r, "update")
    /\ LET q == request[r] IN
        /\ row' = [row EXCEPT ![q.task] = Patched(q, @)]
        /\ activity' = [activity EXCEPT ![q.task] = @ \o StatusEntries(q)]
    /\ Answer(r)
    /\ UNCHANGED <<counter, claimed, served>>

\* updateWithVersion and the entries, or 409 and no trace.
WriteUpdate(r) ==
    /\ Writes(r, "update")
    /\ LET q == request[r] IN
        IF row[q.task].version = q.version
        THEN /\ row' = [row EXCEPT ![q.task] = Patched(q, @)]
             /\ activity' = [activity EXCEPT ![q.task] = @ \o StatusEntries(q)]
        ELSE UNCHANGED <<row, activity>>
    /\ Answer(r)
    /\ UNCHANGED <<counter, claimed, served>>

\* softDelete leaves the version alone.
WriteRemove(r) ==
    /\ Writes(r, "remove")
    /\ row' = [row EXCEPT ![request[r].task].deleted = TRUE]
    /\ Answer(r)
    /\ UNCHANGED <<counter, claimed, activity, served>>

\* FAULTY: the version stays.
AssignedSameVersion(q, old) == [old EXCEPT !.assignee = q.assignee]
Assigned(q, old) == [old EXCEPT !.assignee = q.assignee, !.version = @ + 1]

\* FAULTY: no entry when the assignee is taken away.
AssigneeEntriesNotNobody(q) ==
    IF q.assignee = Nobody THEN <<>>
    ELSE <<[type |-> "ASSIGNEE_CHANGED", before |-> q.read.assignee, after |-> q.assignee]>>
AssigneeEntries(q) ==
    <<[type |-> "ASSIGNEE_CHANGED", before |-> q.read.assignee, after |-> q.assignee]>>

\* tasksRepository.assign, by id alone, and its entry.
WriteAssign(r) ==
    /\ Writes(r, "assign")
    /\ LET q == request[r] IN
        /\ row' = [row EXCEPT ![q.task] = Assigned(q, @)]
        /\ activity' = [activity EXCEPT ![q.task] = @ \o AssigneeEntries(q)]
    /\ Answer(r)
    /\ UNCHANGED <<counter, claimed, served>>

-----------------------------------------------------------------------------
(* Lists: the tasks of the project that are TODO, or those of a user in    *)
(* every project, from the oldest on.  A task is known by its number here. *)

Filters == {"TODO"} \cup Users

Listed(filter) ==
    {row[t].number : t \in {t \in Visible : filter \in {row[t].status, row[t].assignee}}}

\* The order of the rows of the table, deleted ones included.
Place == [n \in {row[t].number : t \in Inserted} |-> n]

Page(filter, cursor) == buildPage(findMany(Listed(filter), Place, cursor, PageSize), PageSize)

\* The client has the page; "first" is for the properties.  (A walk that is over at
\* once is left out.)
HasPage(filter, seen, first, page) ==
    walk' = [filter |-> filter, seen |-> seen \o page.data, cursor |-> page.nextCursor,
             first |-> first]

StartWalk(filter) ==
    /\ walk = Idle /\ Cardinality(Listed(filter)) > PageSize
    /\ served < MaxRequests
    /\ served' = served + 1
    /\ HasPage(filter, <<>>, Listed(filter), Page(filter, NoCursor))
    /\ UNCHANGED stored

Walking == walk # Idle /\ walk.cursor # NoCursor

NextPage ==
    /\ Walking
    /\ HasPage(walk.filter, walk.seen, walk.first, Page(walk.filter, walk.cursor))
    /\ UNCHANGED <<stored, served>>

\* Which tasks leave a list in this step.
Leaves(filter) == Listed(filter) \ Listed(filter)'

Track ==
    LET leaves == [filter \in Filters |-> Leaves(filter)] IN
    IF Walking
    THEN /\ touched' = touched \cup leaves[walk.filter]
         /\ unsure' = (unsure \/ walk.cursor \in leaves[walk.filter])
    ELSE UNCHANGED <<touched, unsure>>

-----------------------------------------------------------------------------
Work(r) == ClaimNumber(r) \/ InsertTask(r) \/ WriteUpdate(r) \/ WriteRemove(r) \/ WriteAssign(r)

RequestStep ==
    \E r \in Requests :
        \/ Work(r) \/ Abort(r)
        \/ \E a \in Actors, u \in Assignees \cup {Stranger} : RequestCreate(r, a, u)
        \/ \E a \in Actors, t \in Tasks :
            \/ \E v \in 1..row[t].version, s \in Statuses \cup {"unset"} :
                  RequestUpdate(r, a, t, v, s)
            \/ RequestRemove(r, a, t)
            \/ \E u \in Assignees \cup {Stranger} : RequestAssign(r, a, t, u)

Next ==
    /\ \/ RequestStep /\ UNCHANGED walk
       \/ \E filter \in Filters : StartWalk(filter)
       \/ NextPage
    /\ Track

\* A request that can go on goes on.  A row lock goes to the requests that wait
\* for it in turn; with finitely many requests weak fairness says so.
Fairness == \A r \in Requests : WF_vars(Work(r) /\ UNCHANGED walk /\ Track)

Spec == Init /\ [][Next]_vars
FairSpec == Spec /\ Fairness

-----------------------------------------------------------------------------
(* Properties.                                                             *)

\* createWithNextNumber: whatever creations run at once and whichever of them
\* are rolled back, the tasks of the project are numbered 1 to n, each number
\* once.  (While a transaction holds the counter, it is one ahead.)
NumberedWithoutGaps ==
    LET n == Cardinality(Inserted) IN
    /\ {row[t].number : t \in Inserted} = 1..n
    /\ counter = n + (IF claimed = Idle THEN 0 ELSE 1)

\* completedAt is decided from the row requireTask read, outside the transaction;
\* all the same a task has it exactly while it is DONE.
CompletedWhileDone == \A t \in Tasks : row[t].completed <=> row[t].status = "DONE"

\* What optimistic locking rests on: a version names one content.  A request that
\* finds the version of the row it read also finds that row, but for a deletion.
Content(old) == <<old.status, old.assignee, old.completed>>

VersionNamesContent ==
    \A r \in Requests :
        request[r] # Idle /\ request[r].op # "create" =>
            LET now == row[request[r].task]
                read == request[r].read IN
            /\ read.version <= now.version
            /\ read.version = now.version => Content(read) = Content(now)

Reassignments(t) == {i \in DOMAIN activity[t] : activity[t][i].type = "ASSIGNEE_CHANGED"}

NewestAssignment(t, i) == i \in Reassignments(t) /\ \A k \in Reassignments(t) : k <= i

NewestTells ==
    \A t \in Tasks : \A i \in DOMAIN activity[t] :
        NewestAssignment(t, i) => activity[t][i].after = row[t].assignee

\* Who had the task before an entry, if it was created for "first".
Had(t, first, i) == {first} \cup {activity[t][k].after : k \in {k \in Reassignments(t) : k < i}}

BeforesWere ==
    \A t \in Tasks : \E first \in Assignees :
        \A i \in Reassignments(t) : activity[t][i].before \in Had(t, first, i)

\* The newest ASSIGNEE_CHANGED entry names the present assignee.  The "before" of an entry
\* is the assignee that was read, outside the transaction: not always the one replaced, but
\* one the task has had by then.
LogTellsAssignee == NewestTells /\ BeforesWere

\* The status and its log, as the abstract audited field sees them: no PATCH is
\* lost or logged with a "before" that was not there (ADR 0007, ADR 0008).
OfStatus(e) == IF e.type = "STATUS_CHANGED" THEN <<e.before, e.after>> ELSE <<>>

status == [t \in Tasks |-> row[t].status]
statusLog == [t \in Tasks |-> [i \in DOMAIN activity[t] |-> OfStatus(activity[t][i])]]

Audit == INSTANCE AuditedField WITH Keys <- Tasks, Initial <- "TODO",
                                    value <- status, log <- statusLog
StatusIsAudited == Audit!Spec

\* "traverses the full set exactly once" (adr/0006): who walks a list to its end has seen
\* every task that was in it all the time, and none of these twice, while tasks are created,
\* changed and deleted; but for a walk whose cursor's task left the list meanwhile.
ListSeesWhatStays ==
    walk # Idle /\ ~unsure =>
        LET stay == walk.first \ touched IN
        /\ walk.cursor = NoCursor => stay \subseteq Range(walk.seen)
        /\ \A i, j \in DOMAIN walk.seen :
              walk.seen[i] = walk.seen[j] /\ walk.seen[i] \notin touched => i = j

\* Every request is answered: no rollback leaves the counter locked.
EveryRequestAnswered == \A r \in Requests : request[r] # Idle ~> request[r] = Idle

\* The comment on tasksService.assign: task:assign:self "only lets a user take an
\* unassigned task for themself -- not reassign someone else's".
TakesFrom(r) ==
    LET q == request[r] IN
    /\ Writes(r, "assign") /\ SelfOnly(q.actor) /\ q.assignee # Nobody
    /\ request'[r] = Idle /\ row'[q.task] # row[q.task]

SelfAssignTakesUnassigned ==
    [][\A r \in Requests :
            TakesFrom(r) => row[request[r].task].assignee \in {Nobody, request[r].actor}]_vars
=============================================================================
