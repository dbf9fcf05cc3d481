----------------------------- MODULE TasksProofs -----------------------------
(***************************************************************************)
(* Theorems about Tasks, for any number of requests, tasks and actors, any *)
(* permissions of theirs, and any number of requests served.               *)
(***************************************************************************)
EXTENDS Tasks, PaginationProofs

-----------------------------------------------------------------------------
(* The inductive invariant.                                                *)

Creations == {i \in Requests : Creating(i)}

\* An id is left for each creation under way.
CreationsFit == Cardinality(Inserted) + Cardinality(Creations) <= Cardinality(Tasks)

\* What is not inserted yet has left no trace.
Blank == \A t \in Tasks : row[t].number = 0 => row[t] = NoRow /\ activity[t] = <<>>

\* A request writes to a task that is there; it has read a version that was, and the
\* client has asked for that version or for an older one.
Fits(q) ==
    /\ q.task \in Inserted
    /\ q.read.version <= row[q.task].version
    /\ q.read.version = row[q.task].version => Content(q.read) = Content(row[q.task])
    /\ q.op = "update" => q.version <= q.read.version

RequestsFit ==
    \A r \in Requests : request[r] # Idle /\ request[r].op # "create" => Fits(request[r])

Inv ==
    /\ StoredOK /\ NumberedWithoutGaps /\ CreationsFit /\ Blank /\ RequestsFit
    /\ CompletedWhileDone /\ NewestTells

-----------------------------------------------------------------------------
(* Requests and rows.                                                      *)

Updates == [op : {"update"}, actor : Actors, task : Tasks, read : Row,
            version : Nat, status : Statuses \cup {"unset"}]
Assigns == [op : {"assign"}, actor : Actors, task : Tasks, read : Row, assignee : Assignees]
Removes == [op : {"remove"}, actor : Actors, task : Tasks, read : Row]

LEMMA RequestTypes ==
  ASSUME StoredOK, NEW r \in Requests
  PROVE  /\ Writes(r, "update") => request[r] \in Updates
         /\ Writes(r, "assign") => request[r] \in Assigns
         /\ Writes(r, "remove") => request[r] \in Removes
         /\ Creating(r) => request[r] \in Creation
  BY DEF StoredOK, Writes, Creating, Creation, Writing, Updates, Assigns, Removes

LEMMA NoRowTyped == NoRow \in Row
  BY DEF NoRow, Row, Statuses, Assignees

LEMMA RowWritten ==
  ASSUME StoredOK, NEW t \in Tasks, NEW new \in Row, row' = [row EXCEPT ![t] = new]
  PROVE  /\ row' \in [Tasks -> Row]
         /\ row'[t] = new
         /\ \A u \in Tasks : u # t => row'[u] = row[u]
  BY DEF StoredOK

\* The columns one by one; nothing else in a row changes with one of them.
LEMMA WithStatus ==
  ASSUME NEW old \in Row, NEW s \in Statuses
  PROVE  [old EXCEPT !.status = s] = [number |-> old.number, status |-> s,
            assignee |-> old.assignee, creator |-> old.creator, version |-> old.version,
            completed |-> old.completed, deleted |-> old.deleted]
  BY DEF Row

LEMMA WithCompleted ==
  ASSUME NEW old \in Row, NEW c \in BOOLEAN
  PROVE  [old EXCEPT !.completed = c] = [number |-> old.number, status |-> old.status,
            assignee |-> old.assignee, creator |-> old.creator, version |-> old.version,
            completed |-> c, deleted |-> old.deleted]
  BY DEF Row

LEMMA WithVersion ==
  ASSUME NEW old \in Row, NEW v \in Nat
  PROVE  [old EXCEPT !.version = v] = [number |-> old.number, status |-> old.status,
            assignee |-> old.assignee, creator |-> old.creator, version |-> v,
            completed |-> old.completed, deleted |-> old.deleted]
  BY DEF Row

LEMMA WithAssignee ==
  ASSUME NEW old \in Row, NEW u \in Assignees
  PROVE  [old EXCEPT !.assignee = u] = [number |-> old.number, status |-> old.status,
            assignee |-> u, creator |-> old.creator, version |-> old.version,
            completed |-> old.completed, deleted |-> old.deleted]
  BY DEF Row

LEMMA WithNumber ==
  ASSUME NEW old \in Row, NEW n \in Nat
  PROVE  [old EXCEPT !.number = n] = [number |-> n, status |-> old.status,
            assignee |-> old.assignee, creator |-> old.creator, version |-> old.version,
            completed |-> old.completed, deleted |-> old.deleted]
  BY DEF Row

LEMMA WithCreator ==
  ASSUME NEW old \in Row, NEW a \in Actors
  PROVE  [old EXCEPT !.creator = a] = [number |-> old.number, status |-> old.status,
            assignee |-> old.assignee, creator |-> a, version |-> old.version,
            completed |-> old.completed, deleted |-> old.deleted]
  BY DEF Row

LEMMA PatchedRow ==
  ASSUME NEW q \in Updates, NEW old \in Row
  PROVE  /\ Patched(q, old) \in Row
         /\ Patched(q, old).number = old.number
         /\ Patched(q, old).version = old.version + 1
         /\ Patched(q, old).assignee = old.assignee
         /\ Patched(q, old).status = IF q.status = "unset" THEN old.status ELSE q.status
         /\ Patched(q, old).completed = Completed(q, old.completed)
  <1> DEFINE s == IF q.status = "unset" THEN old.status ELSE q.status
             c == Completed(q, old.completed)
             first == [old EXCEPT !.status = s]
             second == [first EXCEPT !.completed = c]
             third == [second EXCEPT !.version = old.version + 1]
  <1>1. c \in BOOLEAN /\ old.version + 1 \in Nat
    <2>1. old.completed \in BOOLEAN /\ old.version \in Nat
      BY DEF Row
    <2>2. c \in BOOLEAN
      BY <2>1, Zenon DEF Completed
    <2> QED
      BY <2>1, <2>2
  <1>2. s \in Statuses
    BY DEF Updates, Row
  <1>3. /\ first \in Row /\ first.number = old.number /\ first.status = s
        /\ first.assignee = old.assignee /\ first.version = old.version
        /\ first.completed = old.completed
    BY <1>2, WithStatus DEF Row
  <1>4. /\ second \in Row /\ second.number = old.number /\ second.status = s
        /\ second.assignee = old.assignee /\ second.version = old.version
        /\ second.completed = c
    <2> HIDE DEF first, c
    <2> QED
      BY <1>1, <1>3, WithCompleted DEF Row
  <1>5. /\ third \in Row /\ third.number = old.number /\ third.status = s
        /\ third.assignee = old.assignee /\ third.version = old.version + 1
        /\ third.completed = c
    <2> HIDE DEF second, c
    <2> QED
      BY <1>1, <1>4, WithVersion DEF Row
  <1>6. Patched(q, old) = third
    BY <1>3, <1>4 DEF Patched
  <1> QED
    BY <1>5, <1>6

LEMMA AssignedRow ==
  ASSUME NEW q \in Assigns, NEW old \in Row
  PROVE  /\ Assigned(q, old) \in Row
         /\ Assigned(q, old).number = old.number
         /\ Assigned(q, old).version = old.version + 1
         /\ Assigned(q, old).assignee = q.assignee
         /\ Assigned(q, old).status = old.status
         /\ Assigned(q, old).completed = old.completed
  <1> DEFINE first == [old EXCEPT !.assignee = q.assignee]
             second == [first EXCEPT !.version = old.version + 1]
  <1>1. q.assignee \in Assignees /\ old.version + 1 \in Nat
    BY DEF Assigns, Row
  <1>2. /\ first \in Row /\ first.number = old.number /\ first.status = old.status
        /\ first.assignee = q.assignee /\ first.version = old.version
        /\ first.completed = old.completed
    BY <1>1, WithAssignee DEF Row
  <1>3. /\ second \in Row /\ second.number = old.number /\ second.status = old.status
        /\ second.assignee = q.assignee /\ second.version = old.version + 1
        /\ second.completed = old.completed
    <2> HIDE DEF first
    <2> QED
      BY <1>1, <1>2, WithVersion DEF Row
  <1>4. Assigned(q, old) = second
    BY <1>2 DEF Assigned
  <1> QED
    BY <1>3, <1>4

-----------------------------------------------------------------------------
(* What each action does, for the lemmas to come.                          *)

LEMMA UpdateEffect ==
  ASSUME StoredOK, RequestsFit, NEW r \in Requests, WriteUpdate(r)
  PROVE  \/ UNCHANGED <<row, activity>>
         \/ /\ request[r] \in Updates /\ row[request[r].task] \in Row
            /\ Content(request[r].read) = Content(row[request[r].task])
            /\ row' = [row EXCEPT ![request[r].task] = Patched(request[r], row[request[r].task])]
            /\ activity' = [activity EXCEPT ![request[r].task] =
                               activity[request[r].task] \o StatusEntries(request[r])]
  <1> DEFINE q == request[r]
  <1>1. q \in Updates /\ q # Idle /\ q.op = "update"
    BY RequestTypes DEF WriteUpdate, Writes
  <1>2. q.task \in Tasks /\ row[q.task] \in Row /\ q.read \in Row /\ q.version \in Nat
    BY <1>1 DEF Updates, StoredOK
  <1>3. CASE row[q.task].version = q.version
    <2>1. Fits(q)
      BY <1>1 DEF RequestsFit
    <2>2. q.read.version = row[q.task].version
      BY <1>1, <1>2, <1>3, <2>1 DEF Fits, Row
    <2> QED
      BY <1>1, <1>2, <1>3, <2>1, <2>2 DEF WriteUpdate, Fits
  <1>4. CASE row[q.task].version # q.version
    BY <1>4 DEF WriteUpdate
  <1> QED
    BY <1>3, <1>4

LEMMA AssignEffect ==
  ASSUME StoredOK, NEW r \in Requests, WriteAssign(r)
  PROVE  /\ request[r] \in Assigns /\ request[r].task \in Tasks /\ row[request[r].task] \in Row
         /\ row' = [row EXCEPT ![request[r].task] = Assigned(request[r], row[request[r].task])]
         /\ activity' = [activity EXCEPT ![request[r].task] =
                            activity[request[r].task] \o AssigneeEntries(request[r])]
  BY RequestTypes DEF WriteAssign, StoredOK, Assigns

Erased(old) == [old EXCEPT !.deleted = TRUE]

LEMMA RemoveEffect ==
  ASSUME StoredOK, NEW r \in Requests, WriteRemove(r)
  PROVE  /\ request[r] \in Removes /\ request[r].task \in Tasks /\ row[request[r].task] \in Row
         /\ row' = [row EXCEPT ![request[r].task] = Erased(row[request[r].task])]
         /\ activity' = activity
         /\ Erased(row[request[r].task]) \in Row
         /\ Erased(row[request[r].task]).number = row[request[r].task].number
         /\ Erased(row[request[r].task]).version = row[request[r].task].version
         /\ Content(Erased(row[request[r].task])) = Content(row[request[r].task])
  <1> DEFINE q == request[r]  old == row[q.task]
  <1>1. q \in Removes /\ q.task \in Tasks /\ old \in Row
    BY RequestTypes DEF WriteRemove, StoredOK, Removes
  <1>2. /\ Erased(old) \in Row /\ Erased(old).number = old.number
        /\ Erased(old).version = old.version
        /\ Content(Erased(old)) = Content(old)
    BY <1>1 DEF Erased, Row, Content
  <1>3. row' = [row EXCEPT ![q.task] = Erased(old)] /\ activity' = activity
    BY <1>1 DEF WriteRemove, Erased, StoredOK
  <1> QED
    BY <1>1, <1>2, <1>3

\* Requests that arrive write nothing yet.
Arrives(r) ==
    \/ \E a \in Actors, u \in Assignees \cup {Stranger} : RequestCreate(r, a, u)
    \/ \E a \in Actors, t \in Tasks :
        \/ \E v \in 1..row[t].version, s \in Statuses \cup {"unset"} :
              RequestUpdate(r, a, t, v, s)
        \/ RequestRemove(r, a, t)
        \/ \E u \in Assignees \cup {Stranger} : RequestAssign(r, a, t, u)

Writers(r) == WriteUpdate(r) \/ WriteRemove(r) \/ WriteAssign(r)

\* A request comes in that is well typed and fits, and a creation has an id left.
LEMMA ArrivesEffect ==
  ASSUME StoredOK, NEW r \in Requests, Arrives(r)
  PROVE  /\ request[r] = Idle /\ UNCHANGED <<row, counter, claimed, activity>>
         /\ served' \in 0..MaxRequests
         /\ \E q \in Creation \cup Writing :
               /\ request' = [request EXCEPT ![r] = q]
               /\ q.op # "create" => Fits(q) /\ q.read = row[q.task]
               /\ q.op = "assign" /\ q.assignee # Nobody => MayAssign(q.actor, q.task, q.assignee)
               /\ q.op = "create" =>
                     Cardinality(Inserted) + Cardinality(Creations) < Cardinality(Tasks)
  <1>1. ASSUME NEW q, Arrive(r, q)
        PROVE  /\ request[r] = Idle /\ UNCHANGED <<row, counter, claimed, activity>>
               /\ served' \in 0..MaxRequests
               /\ request' = [request EXCEPT ![r] = q]
    BY <1>1, TasksConstants DEF Arrive, StoredOK
  <1>2. ASSUME NEW a \in Actors, NEW u \in Assignees \cup {Stranger}, RequestCreate(r, a, u)
        PROVE  /\ \E q \in Creation : /\ Arrive(r, q) /\ q.op = "create"
               /\ Cardinality(Inserted) + Cardinality(Creations) < Cardinality(Tasks)
    BY <1>2 DEF RequestCreate, assertAssigneeIsMember, Creation, Assignees, Creations
  <1>3. ASSUME NEW a \in Actors, NEW t \in Tasks, NEW v \in 1..row[t].version,
               NEW s \in Statuses \cup {"unset"}, RequestUpdate(r, a, t, v, s)
        PROVE  \E q \in Writing : Arrive(r, q) /\ q.op = "update" /\ Fits(q) /\ q.read = row[q.task]
    <2> DEFINE q == [op |-> "update", actor |-> a, task |-> t, read |-> row[t],
                     version |-> v, status |-> s]
    <2>1. t \in Inserted /\ row[t] \in Row /\ row[t].version \in Nat /\ v \in Nat
      BY <1>3 DEF RequestUpdate, Visible, StoredOK, Row
    <2>2. Fits(q)
      BY <2>1 DEF Fits
    <2>3. q \in Writing
      BY <2>1 DEF Writing
    <2> QED
      BY <1>3, <2>2, <2>3 DEF RequestUpdate
  <1>4. ASSUME NEW a \in Actors, NEW t \in Tasks, RequestRemove(r, a, t)
        PROVE  \E q \in Writing : Arrive(r, q) /\ q.op = "remove" /\ Fits(q) /\ q.read = row[q.task]
    <2> DEFINE q == [op |-> "remove", actor |-> a, task |-> t, read |-> row[t]]
    <2>1. t \in Inserted /\ row[t] \in Row /\ row[t].version \in Nat
      BY <1>4 DEF RequestRemove, Visible, StoredOK, Row
    <2>2. Fits(q)
      BY <2>1 DEF Fits
    <2>3. q \in Writing
      BY <2>1 DEF Writing
    <2> QED
      BY <1>4, <2>2, <2>3 DEF RequestRemove
  <1>5. ASSUME NEW a \in Actors, NEW t \in Tasks, NEW u \in Assignees \cup {Stranger},
               RequestAssign(r, a, t, u)
        PROVE  \E q \in Writing :
                  /\ Arrive(r, q) /\ q.op = "assign" /\ Fits(q) /\ q.read = row[q.task]
                  /\ q.assignee # Nobody => MayAssign(q.actor, q.task, q.assignee)
    <2> DEFINE q == [op |-> "assign", actor |-> a, task |-> t, read |-> row[t], assignee |-> u]
    <2>1. t \in Inserted /\ row[t] \in Row /\ row[t].version \in Nat
      BY <1>5 DEF RequestAssign, Visible, StoredOK, Row
    <2>2. u \in Assignees
      BY <1>5 DEF RequestAssign, assertAssigneeIsMember, Assignees
    <2>3. Fits(q)
      BY <2>1 DEF Fits
    <2>4. q \in Writing
      BY <2>1, <2>2 DEF Writing
    <2> QED
      BY <1>5, <2>3, <2>4 DEF RequestAssign
  <1>6. \E q \in Creation \cup Writing :
           /\ Arrive(r, q)
           /\ q.op # "create" => Fits(q) /\ q.read = row[q.task]
           /\ q.op = "assign" /\ q.assignee # Nobody => MayAssign(q.actor, q.task, q.assignee)
           /\ q.op = "create" =>
                 Cardinality(Inserted) + Cardinality(Creations) < Cardinality(Tasks)
    <2>1. ASSUME NEW a \in Actors, NEW u \in Assignees \cup {Stranger}, RequestCreate(r, a, u)
          PROVE  <1>6
      BY <1>2, <2>1
    <2>2. ASSUME NEW q \in Writing, Arrive(r, q), q.op \in {"update", "remove", "assign"}, Fits(q),
                 q.read = row[q.task],
                 q.op = "assign" /\ q.assignee # Nobody => MayAssign(q.actor, q.task, q.assignee)
          PROVE  <1>6
      BY <2>2
    <2> QED
      BY <1>3, <1>4, <1>5, <2>1, <2>2 DEF Arrives
  <1> QED
    BY <1>1, <1>6

-----------------------------------------------------------------------------
(* Type correctness.                                                       *)

LEMMA EntriesTyped ==
  /\ \A q \in Updates : StatusEntries(q) \in Seq(Entry)
  /\ \A q \in Assigns : AssigneeEntries(q) \in Seq(Entry)
  /\ [type |-> "TASK_CREATED"] \in Entry
  <1>1. ASSUME NEW q \in Updates PROVE StatusEntries(q) \in Seq(Entry)
    <2>1. CASE q.status # "unset" /\ q.status # q.read.status
      <3>1. [type |-> "STATUS_CHANGED", before |-> q.read.status, after |-> q.status] \in Entry
        BY <2>1 DEF Updates, Row, Entry
      <3> QED
        BY <2>1, <3>1 DEF StatusEntries
    <2>2. CASE ~(q.status # "unset" /\ q.status # q.read.status)
      BY <2>2 DEF StatusEntries
    <2> QED
      BY <2>1, <2>2
  <1>2. ASSUME NEW q \in Assigns PROVE AssigneeEntries(q) \in Seq(Entry)
    <2>1. [type |-> "ASSIGNEE_CHANGED", before |-> q.read.assignee, after |-> q.assignee]
             \in Entry
      BY DEF Assigns, Row, Entry
    <2> QED
      BY <2>1 DEF AssigneeEntries
  <1>3. [type |-> "TASK_CREATED"] \in Entry
    BY DEF Entry
  <1> QED
    BY <1>1, <1>2, <1>3

\* An answered request is idle again.
LEMMA AnswerTyped ==
  ASSUME StoredOK, NEW r \in Requests, Answer(r)
  PROVE  /\ request' \in [Requests -> Creation \cup Writing \cup {Idle}]
         /\ request'[r] = Idle /\ \A i \in Requests : i # r => request'[i] = request[i]
  BY DEF StoredOK, Answer

-----------------------------------------------------------------------------
(* Numbers.                                                                *)

LEMMA Finite ==
  /\ IsFiniteSet(Inserted) /\ Cardinality(Inserted) \in Nat
  /\ IsFiniteSet(Creations) /\ Cardinality(Creations) \in Nat
  /\ Cardinality(Tasks) \in Nat
  BY TasksConstants, FS_Subset, FS_CardinalityType DEF Inserted, Creations

\* A creation finds an id that no task has.
LEMMA SomeFree ==
  ASSUME CreationsFit, NEW r \in Requests, Creating(r)
  PROVE  FirstFree \in Tasks \ Inserted
  <1>1. Cardinality(Creations) # 0
    <2>1. r \in Creations
      BY DEF Creations
    <2> QED
      BY <2>1, Finite, FS_EmptySet
  <1>2. Cardinality(Inserted) < Cardinality(Tasks)
    BY <1>1, Finite DEF CreationsFit
  <1>3. Inserted # Tasks
    BY <1>2, Finite
  <1> QED
    BY <1>3 DEF FirstFree, Inserted

\* The row InsertTask writes.
Fresh(r) == [NoRow EXCEPT !.number = counter, !.version = 1,
                          !.assignee = request[r].assignee, !.creator = request[r].actor]

LEMMA FreshRow ==
  ASSUME StoredOK, NEW r \in Requests, Creating(r)
  PROVE  /\ Fresh(r) \in Row
         /\ Fresh(r).number = counter /\ Fresh(r).status = "TODO"
         /\ Fresh(r).completed = FALSE /\ Fresh(r).assignee = request[r].assignee
  <1>1. /\ request[r].assignee \in Assignees /\ request[r].actor \in Actors /\ counter \in Nat
    BY RequestTypes DEF Creation, StoredOK
  <1> DEFINE first == [NoRow EXCEPT !.number = counter]
             second == [first EXCEPT !.version = 1]
             third == [second EXCEPT !.assignee = request[r].assignee]
             fourth == [third EXCEPT !.creator = request[r].actor]
  <1>2. /\ NoRow \in Row /\ NoRow.status = "TODO" /\ NoRow.completed = FALSE
    BY NoRowTyped DEF NoRow
  <1>3. /\ first \in Row /\ first.number = counter /\ first.status = "TODO"
        /\ first.completed = FALSE
    BY <1>1, <1>2, WithNumber DEF Row
  <1>4. /\ second \in Row /\ second.number = counter /\ second.status = "TODO"
        /\ second.completed = FALSE
    <2> HIDE DEF first
    <2> QED
      BY <1>3, WithVersion DEF Row
  <1>5. /\ third \in Row /\ third.number = counter /\ third.status = "TODO"
        /\ third.completed = FALSE /\ third.assignee = request[r].assignee
    <2> HIDE DEF second
    <2> QED
      BY <1>1, <1>4, WithAssignee DEF Row
  <1>6. /\ fourth \in Row /\ fourth.number = counter /\ fourth.status = "TODO"
        /\ fourth.completed = FALSE /\ fourth.assignee = request[r].assignee
    <2> HIDE DEF third
    <2> QED
      BY <1>1, <1>5, WithCreator DEF Row
  <1>7. Fresh(r) = fourth
    BY DEF Fresh
  <1> QED
    BY <1>6, <1>7

LEMMA InsertEffect ==
  ASSUME Inv, NEW r \in Requests, InsertTask(r)
  PROVE  /\ FirstFree \in Tasks \ Inserted /\ counter = Cardinality(Inserted) + 1
         /\ row' = [row EXCEPT ![FirstFree] = Fresh(r)]
         /\ row[FirstFree] = NoRow /\ activity[FirstFree] = <<>>
         /\ activity' = [activity EXCEPT ![FirstFree] = <<[type |-> "TASK_CREATED"]>>]
         /\ Inserted' = Inserted \cup {FirstFree}
         /\ claimed' = Idle /\ counter' = counter
  <1>1. FirstFree \in Tasks /\ FirstFree \notin Inserted
    BY SomeFree DEF Inv, InsertTask
  <1>2. counter = Cardinality(Inserted) + 1
    BY TasksConstants DEF Inv, InsertTask, NumberedWithoutGaps
  <1>3. row[FirstFree] = NoRow /\ activity[FirstFree] = <<>>
    BY <1>1 DEF Inserted, Inv, Blank
  <1>4. row' = [row EXCEPT ![FirstFree] = Fresh(r)]
    BY DEF InsertTask, Fresh
  <1>5. activity' = [activity EXCEPT ![FirstFree] = <<[type |-> "TASK_CREATED"]>>]
    <2>1. activity' = [activity EXCEPT ![FirstFree] =
                          Append(activity[FirstFree], [type |-> "TASK_CREATED"])]
      BY DEF InsertTask
    <2>2. Append(<<>>, [type |-> "TASK_CREATED"]) = <<[type |-> "TASK_CREATED"]>>
      OBVIOUS
    <2> QED
      BY <1>3, <2>1, <2>2
  <1>6. Inserted' = Inserted \cup {FirstFree}
    <2>1. Fresh(r) \in Row /\ Fresh(r).number # 0
      <3>1. Fresh(r) \in Row /\ Fresh(r).number = counter
        BY FreshRow DEF Inv, InsertTask
      <3> QED
        BY <1>2, <3>1, Finite
    <2>2. row'[FirstFree].number # 0 /\ \A u \in Tasks : u # FirstFree => row'[u] = row[u]
      BY <1>1, <1>4, <2>1, RowWritten DEF Inv
    <2> QED
      BY <1>1, <2>2 DEF Inserted
  <1> QED
    BY <1>1, <1>2, <1>3, <1>4, <1>5, <1>6 DEF InsertTask

LEMMA NumbersKept ==
  ASSUME NumberedWithoutGaps, \A t \in Tasks : row'[t].number = row[t].number,
         UNCHANGED <<counter, claimed>>
  PROVE  NumberedWithoutGaps'
  <1>1. Inserted' = Inserted
    BY DEF Inserted
  <1>2. {row'[t].number : t \in Inserted} = {row[t].number : t \in Inserted}
    BY DEF Inserted
  <1> QED
    BY <1>1, <1>2 DEF NumberedWithoutGaps

\* The three writers keep the number of every task, make its version greater or leave its
\* content alone, and write to no task that is not there.
LEMMA WritersEffect ==
  ASSUME Inv, NEW r \in Requests, Writers(r)
  PROVE  /\ row' \in [Tasks -> Row] /\ activity' \in [Tasks -> Seq(Entry)]
         /\ \A t \in Tasks : row'[t].number = row[t].number
         /\ \A t \in Tasks : \/ row'[t].version > row[t].version
                             \/ /\ row'[t].version = row[t].version
                                /\ Content(row'[t]) = Content(row[t])
         /\ \A t \in Tasks \ Inserted : row'[t] = row[t] /\ activity'[t] = activity[t]
         /\ UNCHANGED <<counter, claimed, served>> /\ Answer(r)
  <1>1. UNCHANGED <<counter, claimed, served>> /\ Answer(r)
    BY DEF Writers, WriteUpdate, WriteRemove, WriteAssign
  <1>2. ASSUME NEW t \in Inserted, NEW new \in Row, row' = [row EXCEPT ![t] = new],
               NEW es \in Seq(Entry), activity' = [activity EXCEPT ![t] = activity[t] \o es],
               new.number = row[t].number,
               \/ new.version = row[t].version + 1
               \/ new.version = row[t].version /\ Content(new) = Content(row[t])
        PROVE  /\ row' \in [Tasks -> Row] /\ activity' \in [Tasks -> Seq(Entry)]
               /\ \A u \in Tasks : row'[u].number = row[u].number
               /\ \A u \in Tasks : \/ row'[u].version > row[u].version
                                   \/ /\ row'[u].version = row[u].version
                                      /\ Content(row'[u]) = Content(row[u])
               /\ \A u \in Tasks \ Inserted : row'[u] = row[u] /\ activity'[u] = activity[u]
    <2>1. t \in Tasks /\ StoredOK
      BY DEF Inserted, Inv
    <2>2. /\ row' \in [Tasks -> Row] /\ row'[t] = new
          /\ \A u \in Tasks : u # t => row'[u] = row[u]
      BY <1>2, <2>1, RowWritten
    <2>3. activity[t] \in Seq(Entry) /\ activity \in [Tasks -> Seq(Entry)]
      BY <2>1 DEF StoredOK
    <2>4. activity' \in [Tasks -> Seq(Entry)] /\ \A u \in Tasks : u # t => activity'[u] = activity[u]
      BY <1>2, <2>1, <2>3
    <2>5. row[t] \in Row /\ row[t].version \in Nat
      BY <2>1 DEF StoredOK, Row
    <2> QED
      BY <1>2, <2>2, <2>4, <2>5
  <1>3. CASE WriteUpdate(r)
    <2> DEFINE q == request[r]
    <2>1. CASE UNCHANGED <<row, activity>>
      BY <1>1, <2>1 DEF Inv, StoredOK
    <2>2. CASE /\ q \in Updates /\ row[q.task] \in Row
               /\ row' = [row EXCEPT ![q.task] = Patched(q, row[q.task])]
               /\ activity' = [activity EXCEPT ![q.task] = activity[q.task] \o StatusEntries(q)]
      <3>1. q.task \in Inserted
        BY <1>3 DEF WriteUpdate, Writes, Inv, RequestsFit, Fits
      <3>2. /\ Patched(q, row[q.task]) \in Row
            /\ Patched(q, row[q.task]).number = row[q.task].number
            /\ Patched(q, row[q.task]).version = row[q.task].version + 1
            /\ StatusEntries(q) \in Seq(Entry)
        BY <2>2, PatchedRow, EntriesTyped
      <3> HIDE DEF q
      <3> QED
        BY <1>1, <1>2, <2>2, <3>1, <3>2
    <2> QED
      BY <1>3, <2>1, <2>2, UpdateEffect DEF Inv
  <1>4. CASE WriteAssign(r)
    <2> DEFINE q == request[r]
    <2>1. q.task \in Inserted
      BY <1>4 DEF WriteAssign, Writes, Inv, RequestsFit, Fits
    <2>2. /\ q \in Assigns /\ row[q.task] \in Row
          /\ row' = [row EXCEPT ![q.task] = Assigned(q, row[q.task])]
          /\ activity' = [activity EXCEPT ![q.task] = activity[q.task] \o AssigneeEntries(q)]
      BY <1>4, AssignEffect DEF Inv
    <2>3. /\ Assigned(q, row[q.task]) \in Row
          /\ Assigned(q, row[q.task]).number = row[q.task].number
          /\ Assigned(q, row[q.task]).version = row[q.task].version + 1
          /\ AssigneeEntries(q) \in Seq(Entry)
      BY <2>2, AssignedRow, EntriesTyped
    <2> HIDE DEF q
    <2> QED
      BY <1>1, <1>2, <2>1, <2>2, <2>3
  <1>5. CASE WriteRemove(r)
    <2> DEFINE q == request[r]
    <2>1. q.task \in Inserted
      BY <1>5 DEF WriteRemove, Writes, Inv, RequestsFit, Fits
    <2>2. /\ row' = [row EXCEPT ![q.task] = Erased(row[q.task])] /\ activity' = activity
          /\ Erased(row[q.task]) \in Row
          /\ Erased(row[q.task]).number = row[q.task].number
          /\ Erased(row[q.task]).version = row[q.task].version
          /\ Content(Erased(row[q.task])) = Content(row[q.task])
      BY <1>5, RemoveEffect DEF Inv
    <2>3. /\ row' \in [Tasks -> Row] /\ row'[q.task] = Erased(row[q.task])
          /\ \A u \in Tasks : u # q.task => row'[u] = row[u]
      BY <2>1, <2>2, RowWritten DEF Inserted, Inv
    <2> QED
      BY <1>1, <2>1, <2>2, <2>3 DEF Inv, StoredOK
  <1> QED
    BY <1>3, <1>4, <1>5 DEF Writers

-----------------------------------------------------------------------------
(* The invariant, part by part.                                            *)

LEMMA NextCases ==
  ASSUME Inv, [Next]_vars
  PROVE  \/ \E r \in Requests :
               Arrives(r) \/ ClaimNumber(r) \/ InsertTask(r) \/ Abort(r) \/ Writers(r)
         \/ UNCHANGED stored /\ served' \in 0..MaxRequests
  <1>1. CASE RequestStep
    BY <1>1 DEF RequestStep, Work, Writers, Arrives
  <1>2. ASSUME NEW filter \in Filters, StartWalk(filter)
        PROVE  UNCHANGED stored /\ served' \in 0..MaxRequests
    BY <1>2, TasksConstants DEF StartWalk, Inv, StoredOK
  <1>3. CASE NextPage
    BY <1>3 DEF NextPage, Inv, StoredOK
  <1>4. CASE UNCHANGED vars
    BY <1>4 DEF vars, Inv, StoredOK
  <1> QED
    BY <1>1, <1>2, <1>3, <1>4 DEF Next

LEMMA InvInit == Init => Inv
  <1> SUFFICES ASSUME Init PROVE Inv
    OBVIOUS
  <1>1. \A t \in Tasks : row[t] = NoRow /\ activity[t] = <<>>
    BY DEF Init
  <1>2. Inserted = {}
    BY <1>1 DEF Inserted, NoRow
  <1>3. Creations = {}
    BY DEF Init, Creations, Creating
  <1>4. StoredOK
    BY NoRowTyped, TasksConstants DEF Init, StoredOK
  <1>5. NumberedWithoutGaps /\ CreationsFit
    <2>1. {row[t].number : t \in Inserted} = {} /\ Cardinality(Inserted) = 0
      BY <1>2, FS_EmptySet
    <2>2. counter = 0 /\ claimed = Idle
      BY DEF Init
    <2> QED
      BY <1>3, <2>1, <2>2, Finite, FS_EmptySet DEF NumberedWithoutGaps, CreationsFit
  <1>6. Blank /\ CompletedWhileDone /\ NewestTells
    <2>1. NoRow.completed = FALSE /\ NoRow.status = "TODO"
      BY DEF NoRow
    <2>2. DOMAIN <<>> = {}
      OBVIOUS
    <2>3. NewestTells
      BY <1>1, <2>2 DEF NewestTells
    <2> QED
      BY <1>1, <2>1, <2>3 DEF Blank, CompletedWhileDone
  <1>7. RequestsFit
    BY DEF Init, RequestsFit
  <1> QED
    BY <1>4, <1>5, <1>6, <1>7 DEF Inv

LEMMA StoredStep == Inv /\ [Next]_vars => StoredOK'
  <1> SUFFICES ASSUME Inv, [Next]_vars PROVE StoredOK'
    OBVIOUS
  <1>1. ASSUME NEW r \in Requests, Arrives(r) PROVE StoredOK'
    <2>1. \E q \in Creation \cup Writing : request' = [request EXCEPT ![r] = q]
      BY <1>1, ArrivesEffect DEF Inv
    <2>2. request' \in [Requests -> Creation \cup Writing \cup {Idle}]
      BY <2>1 DEF Inv, StoredOK
    <2> QED
      BY <1>1, <2>2, ArrivesEffect DEF Inv, StoredOK
  <1>2. ASSUME NEW r \in Requests, ClaimNumber(r) PROVE StoredOK'
    BY <1>2 DEF ClaimNumber, Inv, StoredOK
  <1>3. ASSUME NEW r \in Requests, InsertTask(r) PROVE StoredOK'
    <2>1. Fresh(r) \in Row
      BY <1>3, FreshRow DEF InsertTask, Inv
    <2>2. row' \in [Tasks -> Row]
      BY <1>3, <2>1, InsertEffect DEF Inv, StoredOK
    <2>3. activity' \in [Tasks -> Seq(Entry)]
      <3>1. <<[type |-> "TASK_CREATED"]>> \in Seq(Entry)
        BY EntriesTyped
      <3> QED
        BY <1>3, <3>1, InsertEffect DEF Inv, StoredOK
    <2>4. request' \in [Requests -> Creation \cup Writing \cup {Idle}]
      BY <1>3, AnswerTyped DEF InsertTask, Inv
    <2> QED
      BY <1>3, <2>2, <2>3, <2>4, InsertEffect DEF InsertTask, Inv, StoredOK
  <1>4. ASSUME NEW r \in Requests, Abort(r) PROVE StoredOK'
    <2>1. counter' \in Nat
      BY <1>4, Finite, TasksConstants DEF Abort, Inv, NumberedWithoutGaps, StoredOK
    <2>2. request' \in [Requests -> Creation \cup Writing \cup {Idle}]
      BY <1>4, AnswerTyped DEF Abort, Inv
    <2> QED
      BY <1>4, <2>1, <2>2 DEF Abort, Inv, StoredOK
  <1>5. ASSUME NEW r \in Requests, Writers(r) PROVE StoredOK'
    <2>1. request' \in [Requests -> Creation \cup Writing \cup {Idle}]
      BY <1>5, AnswerTyped, WritersEffect DEF Inv
    <2> QED
      BY <1>5, <2>1, WritersEffect DEF Inv, StoredOK
  <1>6. CASE UNCHANGED stored /\ served' \in 0..MaxRequests
    BY <1>6 DEF stored, Inv, StoredOK
  <1> QED
    BY <1>1, <1>2, <1>3, <1>4, <1>5, <1>6, NextCases

LEMMA NumberedStep == Inv /\ [Next]_vars => NumberedWithoutGaps'
  <1> SUFFICES ASSUME Inv, [Next]_vars PROVE NumberedWithoutGaps'
    OBVIOUS
  <1>1. ASSUME row' = row, counter' = Cardinality(Inserted) + (IF claimed' = Idle THEN 0 ELSE 1)
        PROVE  NumberedWithoutGaps'
    <2>1. Inserted' = Inserted
      BY <1>1 DEF Inserted
    <2> QED
      BY <1>1, <2>1 DEF NumberedWithoutGaps, Inv
  <1>2. counter = Cardinality(Inserted) + (IF claimed = Idle THEN 0 ELSE 1)
    BY DEF Inv, NumberedWithoutGaps
  <1>3. ASSUME NEW r \in Requests, Arrives(r) PROVE NumberedWithoutGaps'
    BY <1>1, <1>2, <1>3, ArrivesEffect DEF Inv
  <1>4. ASSUME NEW r \in Requests, ClaimNumber(r) PROVE NumberedWithoutGaps'
    BY <1>1, <1>2, <1>4, Finite, TasksConstants DEF ClaimNumber
  <1>5. ASSUME NEW r \in Requests, InsertTask(r) PROVE NumberedWithoutGaps'
    <2> DEFINE t == FirstFree  n == Cardinality(Inserted)
    <2>1. /\ t \in Tasks \ Inserted /\ counter = n + 1 /\ Inserted' = Inserted \cup {t}
          /\ row' = [row EXCEPT ![t] = Fresh(r)] /\ claimed' = Idle /\ counter' = counter
      BY <1>5, InsertEffect
    <2>2. row'[t].number = counter /\ \A u \in Inserted : row'[u] = row[u]
      BY <1>5, <2>1, FreshRow, RowWritten DEF InsertTask, Inv, Inserted
    <2>3. Cardinality(Inserted') = n + 1
      BY <2>1, Finite, FS_AddElement
    <2>4. {row'[u].number : u \in Inserted'} = {row[u].number : u \in Inserted} \cup {counter}
      <3> HIDE DEF t, n
      <3> QED
        BY <2>1, <2>2
    <2>5. {row'[u].number : u \in Inserted'} = 1..(n + 1)
      <3>1. {row[u].number : u \in Inserted} = 1..n
        BY DEF Inv, NumberedWithoutGaps
      <3>2. (1..n) \cup {n + 1} = 1..(n + 1)
        BY Finite
      <3> QED
        BY <2>1, <2>4, <3>1, <3>2
    <2> QED
      BY <2>1, <2>3, <2>5, Finite DEF NumberedWithoutGaps
  <1>6. ASSUME NEW r \in Requests, Abort(r) PROVE NumberedWithoutGaps'
    BY <1>1, <1>2, <1>6, Finite, TasksConstants DEF Abort
  <1>7. ASSUME NEW r \in Requests, Writers(r) PROVE NumberedWithoutGaps'
    BY <1>7, WritersEffect, NumbersKept DEF Inv
  <1>8. CASE UNCHANGED stored /\ served' \in 0..MaxRequests
    BY <1>1, <1>2, <1>8 DEF stored
  <1> QED
    BY <1>3, <1>4, <1>5, <1>6, <1>7, <1>8, NextCases

\* A creation more needs an id more, which RequestCreate has made sure of; the others take
\* none.
LEMMA CreationsStep == Inv /\ [Next]_vars => CreationsFit'
  <1> SUFFICES ASSUME Inv, [Next]_vars PROVE CreationsFit'
    OBVIOUS
  <1>1. ASSUME Inserted' = Inserted, Creations' \subseteq Creations PROVE CreationsFit'
    <2>1. /\ Cardinality(Creations') \in Nat
          /\ Cardinality(Creations') <= Cardinality(Creations)
      BY <1>1, Finite, FS_Subset, FS_CardinalityType
    <2> QED
      BY <1>1, <2>1, Finite DEF Inv, CreationsFit
  <1>2. ASSUME NEW r \in Requests, Answer(r) PROVE Creations' \subseteq Creations \ {r}
    BY <1>2, AnswerTyped DEF Inv, Creations, Creating
  <1>3. ASSUME NEW r \in Requests, Arrives(r) PROVE CreationsFit'
    <2>1. PICK q \in Creation \cup Writing :
             /\ request' = [request EXCEPT ![r] = q]
             /\ q.op = "create" =>
                   Cardinality(Inserted) + Cardinality(Creations) < Cardinality(Tasks)
      BY <1>3, ArrivesEffect DEF Inv
    <2>2. request[r] = Idle /\ Inserted' = Inserted
      BY <1>3, ArrivesEffect DEF Inv, Inserted
    <2>3. request'[r] = q /\ \A i \in Requests : i # r => request'[i] = request[i]
      BY <2>1 DEF Inv, StoredOK
    <2>4. CASE q.op = "create"
      <3>1. r \notin Creations /\ Creations' \subseteq Creations \cup {r}
        BY <2>2, <2>3 DEF Creations, Creating
      <3>2. /\ IsFiniteSet(Creations \cup {r})
            /\ Cardinality(Creations \cup {r}) = Cardinality(Creations) + 1
        BY <3>1, Finite, FS_AddElement
      <3>3. /\ Cardinality(Creations') \in Nat
            /\ Cardinality(Creations') <= Cardinality(Creations) + 1
        BY <3>1, <3>2, FS_Subset, FS_CardinalityType
      <3> QED
        BY <2>1, <2>2, <2>4, <3>3, Finite DEF CreationsFit
    <2>5. CASE q.op # "create"
      <3>1. Creations' \subseteq Creations
        BY <2>3, <2>5 DEF Creations, Creating
      <3> QED
        BY <1>1, <2>2, <3>1
    <2> QED
      BY <2>4, <2>5
  <1>4. ASSUME NEW r \in Requests, ClaimNumber(r) PROVE CreationsFit'
    BY <1>1, <1>4 DEF ClaimNumber, Inserted, Creations, Creating
  <1>5. ASSUME NEW r \in Requests, InsertTask(r) PROVE CreationsFit'
    <2>1. /\ FirstFree \in Tasks \ Inserted /\ Inserted' = Inserted \cup {FirstFree}
          /\ Creations' \subseteq Creations \ {r} /\ r \in Creations
      BY <1>2, <1>5, InsertEffect DEF InsertTask, Creations
    <2>2. Cardinality(Inserted') = Cardinality(Inserted) + 1
      BY <2>1, Finite, FS_AddElement
    <2>3. /\ IsFiniteSet(Creations \ {r})
          /\ Cardinality(Creations \ {r}) = Cardinality(Creations) - 1
      BY <2>1, Finite, FS_RemoveElement
    <2>4. /\ Cardinality(Creations') \in Nat
          /\ Cardinality(Creations') <= Cardinality(Creations) - 1
      BY <2>1, <2>3, FS_Subset, FS_CardinalityType
    <2> QED
      BY <2>2, <2>4, Finite DEF Inv, CreationsFit
  <1>6. ASSUME NEW r \in Requests, Abort(r) PROVE CreationsFit'
    BY <1>1, <1>2, <1>6 DEF Abort, Inserted
  <1>7. ASSUME NEW r \in Requests, Writers(r) PROVE CreationsFit'
    <2>1. Inserted' = Inserted
      BY <1>7, WritersEffect DEF Inserted
    <2> QED
      BY <1>1, <1>2, <1>7, <2>1, WritersEffect
  <1>8. CASE UNCHANGED stored /\ served' \in 0..MaxRequests
    BY <1>1, <1>8 DEF stored, Inserted, Creations, Creating
  <1> QED
    BY <1>3, <1>4, <1>5, <1>6, <1>7, <1>8, NextCases

LEMMA BlankStep == Inv /\ [Next]_vars => Blank'
  <1> SUFFICES ASSUME Inv, [Next]_vars PROVE Blank'
    OBVIOUS
  <1>1. CASE UNCHANGED <<row, activity>>
    BY <1>1 DEF Inv, Blank
  <1>2. ASSUME NEW r \in Requests, InsertTask(r) PROVE Blank'
    <2>1. /\ FirstFree \in Tasks /\ Inserted' = Inserted \cup {FirstFree}
          /\ \A u \in Tasks : u # FirstFree => row'[u] = row[u] /\ activity'[u] = activity[u]
      BY <1>2, InsertEffect DEF Inv, StoredOK
    <2>2. row'[FirstFree].number # 0
      BY <2>1 DEF Inserted
    <2> QED
      BY <2>1, <2>2 DEF Inv, Blank
  <1>3. ASSUME NEW r \in Requests, Writers(r) PROVE Blank'
    <2>1. /\ \A t \in Tasks : row'[t].number = row[t].number
          /\ \A t \in Tasks \ Inserted : row'[t] = row[t] /\ activity'[t] = activity[t]
      BY <1>3, WritersEffect
    <2>2. \A t \in Tasks : row[t].number = 0 => t \in Tasks \ Inserted
      BY DEF Inserted
    <2> QED
      BY <2>1, <2>2 DEF Inv, Blank
  <1>4. ASSUME NEW r \in Requests, Arrives(r) \/ ClaimNumber(r) \/ Abort(r)
        PROVE  UNCHANGED <<row, activity>>
    BY <1>4, ArrivesEffect DEF ClaimNumber, Abort, Inv
  <1> QED
    BY <1>1, <1>2, <1>3, <1>4, NextCases DEF stored

\* What fits goes on fitting while versions grow with every change of content.
LEMMA FitsOn ==
  ASSUME StoredOK, StoredOK', NEW q \in Writing, Fits(q), Inserted \subseteq Inserted',
         \A t \in Inserted : \/ row'[t].version > row[t].version
                             \/ /\ row'[t].version = row[t].version
                                /\ Content(row'[t]) = Content(row[t])
  PROVE  Fits(q)'
  <1> DEFINE t == q.task
  <1>1. t \in Inserted /\ t \in Tasks
    BY DEF Fits, Inserted
  <1>2. q.read.version \in Nat /\ row[t].version \in Nat /\ row'[t].version \in Nat
    BY <1>1 DEF StoredOK, Row, Writing
  <1>3. CASE row'[t].version > row[t].version
    BY <1>1, <1>2, <1>3 DEF Fits
  <1>4. CASE row'[t].version = row[t].version /\ Content(row'[t]) = Content(row[t])
    BY <1>1, <1>4 DEF Fits, Content
  <1> QED
    BY <1>1, <1>3, <1>4

LEMMA FitStep == Inv /\ StoredOK' /\ [Next]_vars => RequestsFit'
  <1> SUFFICES ASSUME Inv, StoredOK', [Next]_vars PROVE RequestsFit'
    OBVIOUS
  <1>1. ASSUME Inserted \subseteq Inserted',
               \A t \in Inserted : \/ row'[t].version > row[t].version
                                   \/ /\ row'[t].version = row[t].version
                                      /\ Content(row'[t]) = Content(row[t]),
               \A i \in Requests : request'[i] # Idle /\ request'[i].op # "create" =>
                     request'[i] = request[i] \/ Fits(request'[i])
        PROVE  RequestsFit'
    <2> SUFFICES ASSUME NEW i \in Requests, request'[i] # Idle, request'[i].op # "create"
                 PROVE  Fits(request[i])'
      BY DEF RequestsFit
    <2>1. request'[i] \in Writing
      BY DEF StoredOK, Creation
    <2>2. Fits(request'[i])
      BY <1>1 DEF Inv, RequestsFit
    <2>3. ASSUME NEW q \in Writing, Fits(q) PROVE Fits(q)'
      BY <1>1, <2>3, FitsOn DEF Inv
    <2> QED
      BY <2>1, <2>2, <2>3 DEF Fits
  <1>2. ASSUME NEW r \in Requests, Answer(r)
        PROVE  \A i \in Requests : request'[i] # Idle => request'[i] = request[i]
    BY <1>2, AnswerTyped DEF Inv
  <1>3. ASSUME row' = row
        PROVE  /\ Inserted' = Inserted
               /\ \A t \in Inserted : /\ row'[t].version = row[t].version
                                      /\ Content(row'[t]) = Content(row[t])
    BY <1>3 DEF Inserted
  <1>4. ASSUME NEW r \in Requests, Arrives(r) PROVE RequestsFit'
    <2>1. PICK q \in Creation \cup Writing :
             request' = [request EXCEPT ![r] = q] /\ (q.op # "create" => Fits(q))
      BY <1>4, ArrivesEffect DEF Inv
    <2>2. row' = row
      BY <1>4, ArrivesEffect DEF Inv
    <2>3. \A i \in Requests : request'[i] # Idle /\ request'[i].op # "create" =>
                request'[i] = request[i] \/ Fits(request'[i])
      BY <2>1 DEF Inv, StoredOK
    <2> QED
      BY <1>1, <1>3, <2>2, <2>3
  <1>5. ASSUME NEW r \in Requests, ClaimNumber(r) \/ Abort(r) PROVE RequestsFit'
    <2>1. row' = row /\ \A i \in Requests : request'[i] # Idle => request'[i] = request[i]
      BY <1>2, <1>5 DEF ClaimNumber, Abort
    <2> QED
      BY <1>1, <1>3, <2>1
  <1>6. ASSUME NEW r \in Requests, InsertTask(r) PROVE RequestsFit'
    <2>1. Inserted \subseteq Inserted' /\ \A t \in Inserted : row'[t] = row[t]
      BY <1>6, InsertEffect DEF Inserted, Inv, StoredOK
    <2>2. \A i \in Requests : request'[i] # Idle => request'[i] = request[i]
      BY <1>2, <1>6 DEF InsertTask
    <2>3. \A t \in Inserted : /\ row'[t].version = row[t].version
                              /\ Content(row'[t]) = Content(row[t])
      BY <2>1
    <2> QED
      BY <1>1, <2>1, <2>2, <2>3
  <1>7. ASSUME NEW r \in Requests, Writers(r) PROVE RequestsFit'
    <2>1. Inserted' = Inserted /\ Inserted \subseteq Tasks
      BY <1>7, WritersEffect DEF Inserted
    <2>2. \A i \in Requests : request'[i] # Idle => request'[i] = request[i]
      BY <1>2, <1>7, WritersEffect
    <2> QED
      BY <1>1, <1>7, <2>1, <2>2, WritersEffect
  <1>8. CASE UNCHANGED stored
    BY <1>1, <1>3, <1>8 DEF stored
  <1> QED
    BY <1>4, <1>5, <1>6, <1>7, <1>8, NextCases

\* The row a PATCH replaces has the content it has read, so that completedAt is set and
\* cleared for the status that is there.
LEMMA CompletedStep == Inv /\ [Next]_vars => CompletedWhileDone'
  <1> SUFFICES ASSUME Inv, [Next]_vars PROVE CompletedWhileDone'
    OBVIOUS
  <1>1. CASE row' = row
    BY <1>1 DEF Inv, CompletedWhileDone
  <1>2. ASSUME NEW t \in Tasks, NEW new \in Row, row' = [row EXCEPT ![t] = new],
               new.completed <=> new.status = "DONE"
        PROVE  CompletedWhileDone'
    BY <1>2, RowWritten DEF Inv, CompletedWhileDone
  <1>3. ASSUME NEW r \in Requests, InsertTask(r) PROVE CompletedWhileDone'
    <2>1. FirstFree \in Tasks /\ row' = [row EXCEPT ![FirstFree] = Fresh(r)]
      BY <1>3, InsertEffect
    <2>2. Fresh(r) \in Row /\ Fresh(r).status = "TODO" /\ Fresh(r).completed = FALSE
      BY <1>3, FreshRow DEF InsertTask, Inv
    <2> QED
      BY <1>2, <2>1, <2>2
  <1>4. ASSUME NEW r \in Requests, WriteUpdate(r) PROVE CompletedWhileDone'
    <2> DEFINE q == request[r]  old == row[q.task]
    <2>1. CASE /\ q \in Updates /\ old \in Row /\ Content(q.read) = Content(old)
               /\ row' = [row EXCEPT ![q.task] = Patched(q, old)]
      <3>1. q.task \in Tasks /\ q.read.status = old.status /\ old.status \in Statuses
        BY <2>1 DEF Updates, Content, Row
      <3>2. old.completed <=> old.status = "DONE"
        BY <3>1 DEF Inv, CompletedWhileDone
      <3>3. q.status \in Statuses \cup {"unset"}
        BY <2>1 DEF Updates
      <3>4. /\ Patched(q, old) \in Row
            /\ Patched(q, old).status = IF q.status = "unset" THEN old.status ELSE q.status
            /\ Patched(q, old).completed = Completed(q, old.completed)
        BY <2>1, PatchedRow
      <3>5. Patched(q, old).completed <=> Patched(q, old).status = "DONE"
        <4> HIDE DEF q, old
        <4>1. CASE q.status = "unset"
          BY <3>2, <3>4, <4>1 DEF Completed
        <4>2. CASE q.status = "DONE"
          BY <3>1, <3>2, <3>4, <4>2 DEF Completed
        <4>3. CASE q.status = "TODO"
          BY <3>1, <3>2, <3>4, <4>3 DEF Completed, Statuses
        <4> QED
          BY <3>3, <4>1, <4>2, <4>3 DEF Statuses
      <3> QED
        BY <1>2, <2>1, <3>1, <3>4, <3>5
    <2> QED
      BY <1>1, <1>4, <2>1, UpdateEffect DEF Inv
  <1>5. ASSUME NEW r \in Requests, WriteAssign(r) PROVE CompletedWhileDone'
    <2> DEFINE q == request[r]
    <2>1. /\ q \in Assigns /\ q.task \in Tasks /\ row[q.task] \in Row
          /\ row' = [row EXCEPT ![q.task] = Assigned(q, row[q.task])]
      BY <1>5, AssignEffect DEF Inv
    <2>2. /\ Assigned(q, row[q.task]) \in Row
          /\ Assigned(q, row[q.task]).status = row[q.task].status
          /\ Assigned(q, row[q.task]).completed = row[q.task].completed
      BY <2>1, AssignedRow
    <2> HIDE DEF q
    <2> QED
      BY <1>2, <2>1, <2>2 DEF Inv, CompletedWhileDone
  <1>6. ASSUME NEW r \in Requests, WriteRemove(r) PROVE CompletedWhileDone'
    <2> DEFINE q == request[r]
    <2>1. /\ q.task \in Tasks /\ row' = [row EXCEPT ![q.task] = Erased(row[q.task])]
          /\ Erased(row[q.task]) \in Row
          /\ Content(Erased(row[q.task])) = Content(row[q.task])
      BY <1>6, RemoveEffect DEF Inv
    <2>2. /\ Erased(row[q.task]).status = row[q.task].status
          /\ Erased(row[q.task]).completed = row[q.task].completed
      BY <2>1 DEF Content
    <2> HIDE DEF q
    <2> QED
      BY <1>2, <2>1, <2>2 DEF Inv, CompletedWhileDone
  <1>7. ASSUME NEW r \in Requests, Arrives(r) \/ ClaimNumber(r) \/ Abort(r) PROVE row' = row
    BY <1>7, ArrivesEffect DEF ClaimNumber, Abort, Inv
  <1> QED
    BY <1>1, <1>3, <1>4, <1>5, <1>6, <1>7, NextCases DEF Writers, stored

-----------------------------------------------------------------------------
(* The activity log.                                                       *)

\* What appending does to a log.
LEMMA Appended ==
  ASSUME NEW old \in Seq(Entry), NEW es \in Seq(Entry), NEW new, new = old \o es
  PROVE  /\ Len(old) \in Nat /\ Len(es) \in Nat
         /\ DOMAIN old = 1..Len(old) /\ DOMAIN new = 1..Len(old) + Len(es)
         /\ \A k \in 1..Len(old) : new[k] = old[k]
         /\ \A k \in 1..Len(es) : new[Len(old) + k] = es[k]
         /\ \A k \in DOMAIN new \ DOMAIN old : k - Len(old) \in 1..Len(es) /\ new[k] = es[k - Len(old)]
  <1>1. \A k \in 1..Len(old) + Len(es) : new[k] = IF k <= Len(old) THEN old[k] ELSE es[k - Len(old)]
    BY ConcatProperties
  <1>2. new \in Seq(Entry) /\ Len(new) = Len(old) + Len(es)
    BY ConcatProperties
  <1>3. /\ Len(old) \in Nat /\ Len(es) \in Nat
        /\ DOMAIN old = 1..Len(old) /\ DOMAIN new = 1..Len(old) + Len(es)
    BY <1>2, LenProperties
  <1>4. ASSUME NEW k \in 1..Len(old) PROVE new[k] = old[k]
    BY <1>1, <1>3
  <1>5. ASSUME NEW k \in DOMAIN new \ DOMAIN old
        PROVE  k - Len(old) \in 1..Len(es) /\ new[k] = es[k - Len(old)]
    BY <1>1, <1>3
  <1>6. ASSUME NEW k \in 1..Len(es) PROVE new[Len(old) + k] = es[k]
    <2> DEFINE m == Len(old) + k
    <2>1. m \in DOMAIN new \ DOMAIN old /\ m - Len(old) = k
      BY <1>3
    <2> HIDE DEF m
    <2>2. new[m] = es[m - Len(old)]
      BY <1>5, <2>1
    <2> QED
      BY <2>1, <2>2 DEF m
  <1> QED
    BY <1>3, <1>4, <1>5, <1>6

\* The log stays right when the entries about the assignee are appended with the assignee.
LEMMA LogAppended ==
  ASSUME StoredOK, NewestTells, NEW t \in Tasks, NEW es \in Seq(Entry),
         activity' = [activity EXCEPT ![t] = activity[t] \o es],
         \A u \in Tasks : u # t => row'[u].assignee = row[u].assignee,
         \/ /\ \A k \in 1..Len(es) : es[k].type # "ASSIGNEE_CHANGED"
            /\ row'[t].assignee = row[t].assignee
         \/ /\ Len(es) = 1 /\ es[1].type = "ASSIGNEE_CHANGED"
            /\ es[1].after = row'[t].assignee
  PROVE  NewestTells'
  <1> DEFINE old == activity[t]  new == activity[t] \o es
  <1> SUFFICES ASSUME NEW u \in Tasks, NEW i \in DOMAIN activity'[u], NewestAssignment(u, i)'
               PROVE  activity'[u][i].after = row'[u].assignee
    BY DEF NewestTells
  <1>1. CASE u # t
    <2>1. activity'[u] = activity[u] /\ row'[u].assignee = row[u].assignee
      BY <1>1 DEF StoredOK
    <2>2. i \in DOMAIN activity[u] /\ NewestAssignment(u, i)
      BY <2>1 DEF NewestAssignment, Reassignments
    <2> QED
      BY <2>1, <2>2 DEF NewestTells
  <1>2. CASE u = t
    <2>1. old \in Seq(Entry) /\ activity'[t] = new
      BY DEF StoredOK
    <2>2. /\ new \in Seq(Entry) /\ Len(old) \in Nat /\ Len(es) \in Nat
          /\ Len(new) = Len(old) + Len(es)
          /\ DOMAIN old = 1..Len(old) /\ DOMAIN new = 1..Len(new)
          /\ \A k \in 1..Len(old) : new[k] = old[k]
          /\ \A k \in 1..Len(es) : new[Len(old) + k] = es[k]
      <3>1. new \in Seq(Entry) /\ Len(new) = Len(old) + Len(es)
        BY <2>1, ConcatProperties
      <3> HIDE DEF new
      <3>2. /\ Len(old) \in Nat /\ Len(es) \in Nat
            /\ DOMAIN old = 1..Len(old) /\ DOMAIN new = 1..Len(old) + Len(es)
            /\ \A k \in 1..Len(old) : new[k] = old[k]
            /\ \A k \in 1..Len(es) : new[Len(old) + k] = es[k]
        BY <2>1, Appended DEF new
      <3> QED
        BY <3>1, <3>2
    <2>3. /\ i \in 1..Len(new) /\ new[i].type = "ASSIGNEE_CHANGED"
          /\ \A k \in 1..Len(new) : k > i => new[k].type # "ASSIGNEE_CHANGED"
      <3> HIDE DEF new
      <3>1. i \in 1..Len(new) /\ new[i].type = "ASSIGNEE_CHANGED"
        BY <1>2, <2>1, <2>2 DEF NewestAssignment, Reassignments
      <3>2. \A k \in 1..Len(new) : new[k].type = "ASSIGNEE_CHANGED" => k <= i
        BY <1>2, <2>1, <2>2 DEF NewestAssignment, Reassignments
      <3> QED
        BY <3>1, <3>2
    <2>4. CASE /\ \A k \in 1..Len(es) : es[k].type # "ASSIGNEE_CHANGED"
               /\ row'[t].assignee = row[t].assignee
      <3> HIDE DEF new
      <3>1. i \in 1..Len(old)
        <4>1. CASE i > Len(old)
          <5>1. PICK k \in 1..Len(es) : i = Len(old) + k
            <6>1. i - Len(old) \in 1..Len(es) /\ i = Len(old) + (i - Len(old))
              BY <2>2, <2>3, <4>1
            <6> QED
              BY <6>1, Zenon
          <5>2. new[i] = es[k]
            BY <2>2, <5>1
          <5> QED
            BY <2>3, <2>4, <5>2
        <4> QED
          BY <2>2, <2>3, <4>1
      <3>2. new[i] = old[i] /\ \A k \in 1..Len(old) : k \in 1..Len(new) /\ new[k] = old[k]
        BY <2>2, <3>1
      <3>3. NewestAssignment(t, i)
        BY <2>2, <2>3, <3>1, <3>2 DEF NewestAssignment, Reassignments
      <3> QED
        BY <1>2, <2>1, <2>2, <2>4, <3>1, <3>2, <3>3 DEF NewestTells
    <2>5. CASE /\ Len(es) = 1 /\ es[1].type = "ASSIGNEE_CHANGED"
               /\ es[1].after = row'[t].assignee
      <3> HIDE DEF new
      <3>1. Len(new) = Len(old) + 1 /\ new[Len(new)] = es[1] /\ Len(new) \in 1..Len(new)
        <4>1. 1 \in 1..Len(es)
          BY <2>5
        <4>2. new[Len(old) + 1] = es[1]
          BY <2>2, <4>1
        <4> QED
          BY <2>2, <2>5, <4>2
      <3>2. i = Len(new)
        <4>1. ~(Len(new) > i)
          BY <2>3, <2>5, <3>1
        <4> QED
          BY <2>2, <2>3, <4>1
      <3> QED
        BY <1>2, <2>1, <2>5, <3>1, <3>2
    <2> QED
      BY <2>4, <2>5
  <1> QED
    BY <1>1, <1>2

LEMMA LogStep == Inv /\ [Next]_vars => NewestTells'
  <1> SUFFICES ASSUME Inv, [Next]_vars PROVE NewestTells'
    OBVIOUS
  <1>1. CASE /\ activity' = activity
             /\ \A t \in Tasks : row'[t].assignee = row[t].assignee
    BY <1>1 DEF Inv, NewestTells, NewestAssignment, Reassignments
  <1>2. ASSUME NEW r \in Requests, InsertTask(r) PROVE NewestTells'
    <2> DEFINE t == FirstFree  es == <<[type |-> "TASK_CREATED"]>>
    <2>1. /\ t \in Tasks /\ activity' = [activity EXCEPT ![t] = es] /\ activity[t] = <<>>
          /\ \A u \in Tasks : u # t => row'[u] = row[u]
      BY <1>2, InsertEffect DEF Inv, StoredOK
    <2>2. /\ activity'[t] = es
          /\ \A u \in Tasks : u # t => activity'[u] = activity[u] /\ row'[u] = row[u]
      BY <2>1 DEF Inv, StoredOK
    <2>3. DOMAIN es = {1} /\ es[1].type # "ASSIGNEE_CHANGED"
      OBVIOUS
    <2> HIDE DEF t, es
    <2> SUFFICES ASSUME NEW u \in Tasks, NEW i \in DOMAIN activity'[u], NewestAssignment(u, i)'
                 PROVE  activity'[u][i].after = row'[u].assignee
      BY DEF NewestTells
    <2>4. u # t
      BY <2>2, <2>3 DEF NewestAssignment, Reassignments
    <2> QED
      BY <2>2, <2>4 DEF Inv, NewestTells, NewestAssignment, Reassignments
  <1>3. ASSUME NEW r \in Requests, WriteUpdate(r) PROVE NewestTells'
    <2> DEFINE q == request[r]  es == StatusEntries(q)
    <2>1. CASE UNCHANGED <<row, activity>>
      BY <1>1, <2>1
    <2>2. CASE /\ q \in Updates /\ row[q.task] \in Row
               /\ row' = [row EXCEPT ![q.task] = Patched(q, row[q.task])]
               /\ activity' = [activity EXCEPT ![q.task] = activity[q.task] \o es]
      <3>1. /\ q.task \in Tasks /\ es \in Seq(Entry)
            /\ \A k \in 1..Len(es) : es[k].type # "ASSIGNEE_CHANGED"
        BY <2>2, EntriesTyped DEF StatusEntries, Updates
      <3>2. \A u \in Tasks : row'[u].assignee = row[u].assignee
        BY <2>2, <3>1, PatchedRow, RowWritten DEF Inv
      <3> HIDE DEF q, es
      <3> QED
        BY <2>2, <3>1, <3>2, LogAppended DEF Inv
    <2> QED
      BY <1>3, <2>1, <2>2, UpdateEffect DEF Inv
  <1>4. ASSUME NEW r \in Requests, WriteAssign(r) PROVE NewestTells'
    <2> DEFINE q == request[r]  es == AssigneeEntries(q)
    <2>1. /\ q \in Assigns /\ q.task \in Tasks /\ row[q.task] \in Row
          /\ row' = [row EXCEPT ![q.task] = Assigned(q, row[q.task])]
          /\ activity' = [activity EXCEPT ![q.task] = activity[q.task] \o es]
      BY <1>4, AssignEffect DEF Inv
    <2>2. /\ row'[q.task].assignee = q.assignee
          /\ \A u \in Tasks : u # q.task => row'[u].assignee = row[u].assignee
      BY <2>1, AssignedRow, RowWritten DEF Inv
    <2>3. /\ es \in Seq(Entry) /\ Len(es) = 1 /\ es[1].type = "ASSIGNEE_CHANGED"
          /\ es[1].after = q.assignee
      BY <2>1, EntriesTyped DEF AssigneeEntries
    <2> HIDE DEF q, es
    <2> QED
      BY <2>1, <2>2, <2>3, LogAppended DEF Inv
  <1>5. ASSUME NEW r \in Requests, WriteRemove(r) PROVE NewestTells'
    <2> DEFINE q == request[r]
    <2>1. /\ q.task \in Tasks /\ row' = [row EXCEPT ![q.task] = Erased(row[q.task])]
          /\ activity' = activity /\ Erased(row[q.task]) \in Row
          /\ Content(Erased(row[q.task])) = Content(row[q.task])
      BY <1>5, RemoveEffect DEF Inv
    <2>2. Erased(row[q.task]).assignee = row[q.task].assignee
      BY <2>1 DEF Content
    <2> HIDE DEF q
    <2> QED
      BY <1>1, <2>1, <2>2, RowWritten DEF Inv
  <1>6. ASSUME NEW r \in Requests, Arrives(r) \/ ClaimNumber(r) \/ Abort(r)
        PROVE  UNCHANGED <<row, activity>>
    BY <1>6, ArrivesEffect DEF ClaimNumber, Abort, Inv
  <1> QED
    BY <1>1, <1>2, <1>3, <1>4, <1>5, <1>6, NextCases DEF Writers, stored

-----------------------------------------------------------------------------
(* Who has had a task.                                                     *)

Past(t, first) == {first} \cup {activity[t][k].after : k \in Reassignments(t)}

OnTask(r, t) == request[r] # Idle /\ request[r].op # "create" /\ request[r].task = t

\* The present assignee of a task and the one a request has read have had it, and so have
\* those its log calls "before".
TracedFrom(t, first) ==
    /\ \A i \in Reassignments(t) : activity[t][i].before \in Had(t, first, i)
    /\ row[t].assignee \in Past(t, first)
    /\ \A r \in Requests : OnTask(r, t) => request[r].read.assignee \in Past(t, first)

Traced == \A t \in Tasks : \E first \in Assignees : TracedFrom(t, first)

LEMMA TracedOn ==
  ASSUME StoredOK, NEW t \in Tasks, NEW first, TracedFrom(t, first),
         NEW es \in Seq(Entry), activity'[t] = activity[t] \o es,
         \A k \in 1..Len(es) :
            es[k].type = "ASSIGNEE_CHANGED" => es[k].before \in Past(t, first),
         \/ row'[t].assignee = row[t].assignee
         \/ \E k \in 1..Len(es) :
               es[k].type = "ASSIGNEE_CHANGED" /\ es[k].after = row'[t].assignee,
         \A r \in Requests :
            OnTask(r, t)' => \/ OnTask(r, t) /\ request'[r].read = request[r].read
                            \/ request'[r].read = row[t]
  PROVE  TracedFrom(t, first)'
  <1> DEFINE old == activity[t]  new == activity'[t]
  <1>1. old \in Seq(Entry)
    BY DEF StoredOK
  <1>2. /\ Len(old) \in Nat /\ Len(es) \in Nat
        /\ DOMAIN old = 1..Len(old) /\ DOMAIN new = 1..Len(old) + Len(es)
        /\ \A k \in 1..Len(old) : new[k] = old[k]
        /\ \A k \in 1..Len(es) : new[Len(old) + k] = es[k]
        /\ \A k \in DOMAIN new \ DOMAIN old : k - Len(old) \in 1..Len(es) /\ new[k] = es[k - Len(old)]
    BY <1>1, Appended
  <1> DEFINE R == Reassignments(t)  S == Reassignments(t)'
  <1>3. /\ R \subseteq S /\ R \subseteq DOMAIN old /\ S \subseteq DOMAIN new
        /\ \A i \in S : i \in DOMAIN old => i \in R
        /\ \A i \in S : new[i].type = "ASSIGNEE_CHANGED"
    BY <1>2 DEF Reassignments
  <1>4. \A i \in R : new[i] = old[i] /\ i \in S
    BY <1>2, <1>3
  <1>5. Past(t, first) \subseteq Past(t, first)'
    BY <1>4 DEF Past
  <1>6. \A i \in R : Had(t, first, i) \subseteq Had(t, first, i)'
    BY <1>4 DEF Had
  <1>7. ASSUME NEW i \in S PROVE new[i].before \in Had(t, first, i)'
    <2>1. CASE i \in R
      <3>1. old[i].before \in Had(t, first, i)
        BY <2>1 DEF TracedFrom
      <3> QED
        BY <1>4, <1>6, <2>1, <3>1
    <2>2. CASE i \notin R
      <3>1. i \in DOMAIN new \ DOMAIN old
        BY <1>3, <2>2
      <3>2. new[i].before \in Past(t, first)
        <4> DEFINE k == i - Len(old)
        <4>1. k \in 1..Len(es) /\ new[i] = es[k] /\ new[i].type = "ASSIGNEE_CHANGED"
          BY <1>2, <1>3, <3>1
        <4> HIDE DEF k, new
        <4> QED
          BY <4>1
      <3>3. \A k \in R : k < i
        BY <1>2, <1>3, <3>1
      <3>4. Past(t, first) \subseteq Had(t, first, i)'
        BY <1>4, <3>3 DEF Past, Had
      <3> QED
        BY <3>2, <3>4
    <2> QED
      BY <2>1, <2>2
  <1>8. row'[t].assignee \in Past(t, first)'
    <2>1. CASE row'[t].assignee = row[t].assignee
      BY <1>5, <2>1 DEF TracedFrom
    <2>2. CASE \E k \in 1..Len(es) :
                  es[k].type = "ASSIGNEE_CHANGED" /\ es[k].after = row'[t].assignee
      <3>1. PICK k \in 1..Len(es) : es[k].type = "ASSIGNEE_CHANGED" /\ es[k].after = row'[t].assignee
        BY <2>2
      <3> DEFINE i == Len(old) + k
      <3>2. i \in DOMAIN new /\ new[i] = es[k]
        BY <1>2
      <3> HIDE DEF i
      <3>3. i \in S
        BY <3>1, <3>2 DEF Reassignments
      <3> QED
        BY <3>1, <3>2, <3>3 DEF Past
    <2> QED
      BY <2>1, <2>2
  <1>9. ASSUME NEW r \in Requests, OnTask(r, t)' PROVE request'[r].read.assignee \in Past(t, first)'
    BY <1>5, <1>9 DEF TracedFrom
  <1> QED
    BY <1>7, <1>8, <1>9 DEF TracedFrom

LEMMA TracedStep == Inv /\ Traced /\ [Next]_vars => Traced'
  <1> SUFFICES ASSUME Inv, Traced, [Next]_vars, NEW t \in Tasks
               PROVE  \E first \in Assignees : TracedFrom(t, first)'
    BY DEF Traced
  <1>0. StoredOK /\ RequestsFit
    BY DEF Inv
  <1>1. PICK first \in Assignees : TracedFrom(t, first)
    BY DEF Traced
  <1>2. activity[t] \in Seq(Entry) /\ activity[t] = activity[t] \o <<>> /\ <<>> \in Seq(Entry)
    <2>1. activity[t] \in Seq(Entry)
      BY <1>0 DEF StoredOK
    <2> QED
      BY <2>1, ConcatEmptySeq
  \* Neither the row's assignee nor the log of the task changes.
  <1>3. ASSUME activity'[t] = activity[t], row'[t].assignee = row[t].assignee,
               \A r \in Requests :
                  OnTask(r, t)' => \/ OnTask(r, t) /\ request'[r].read = request[r].read
                                  \/ request'[r].read = row[t]
        PROVE  TracedFrom(t, first)'
    <2> DEFINE es == <<>>
    <2>1. activity'[t] = activity[t] \o es /\ es \in Seq(Entry) /\ \A k \in 1..Len(es) : FALSE
      BY <1>2, <1>3
    <2> HIDE DEF es
    <2> QED
      BY <1>0, <1>1, <1>3, <2>1, TracedOn
  <1>4. ASSUME NEW r \in Requests, Answer(r)
        PROVE  \A q \in Requests : OnTask(q, t)' => OnTask(q, t) /\ request'[q].read = request[q].read
    <2>1. \A q \in Requests : request'[q] # Idle => request'[q] = request[q]
      BY <1>0, <1>4, AnswerTyped
    <2> QED
      BY <2>1 DEF OnTask
  <1>5. ASSUME NEW r \in Requests, Arrives(r) PROVE TracedFrom(t, first)'
    <2>1. PICK q \in Creation \cup Writing :
             request' = [request EXCEPT ![r] = q] /\ (q.op # "create" => q.read = row[q.task])
      BY <1>5, ArrivesEffect DEF Inv
    <2>2. row' = row /\ activity' = activity
      BY <1>5, ArrivesEffect DEF Inv
    <2>3. request'[r] = q /\ \A i \in Requests : i # r => request'[i] = request[i]
      BY <1>0, <2>1 DEF StoredOK
    <2>4. \A i \in Requests : OnTask(i, t)' => \/ OnTask(i, t) /\ request'[i].read = request[i].read
                                               \/ request'[i].read = row[t]
      BY <2>1, <2>3 DEF OnTask
    <2> QED
      BY <1>3, <2>2, <2>4
  <1>6. ASSUME NEW r \in Requests, ClaimNumber(r) \/ Abort(r) PROVE TracedFrom(t, first)'
    <2>1. row' = row /\ activity' = activity /\ (request' = request \/ Answer(r))
      BY <1>6 DEF ClaimNumber, Abort
    <2>2. request' = request =>
             \A q \in Requests : OnTask(q, t)' => OnTask(q, t) /\ request'[q].read = request[q].read
      BY DEF OnTask
    <2> QED
      BY <1>3, <1>4, <2>1, <2>2
  <1>7. ASSUME NEW r \in Requests, InsertTask(r)
        PROVE  \E u \in Assignees : TracedFrom(t, u)'
    <2>1. /\ FirstFree \in Tasks \ Inserted /\ row' = [row EXCEPT ![FirstFree] = Fresh(r)]
          /\ activity' = [activity EXCEPT ![FirstFree] = <<[type |-> "TASK_CREATED"]>>]
      BY <1>7, InsertEffect
    <2>2. Answer(r)
      BY <1>7 DEF InsertTask
    <2>3. CASE t # FirstFree
      <3>1. row'[t] = row[t] /\ activity'[t] = activity[t]
        BY <1>0, <2>1, <2>3 DEF StoredOK
      <3> QED
        BY <1>3, <1>4, <2>2, <3>1
    <2>4. CASE t = FirstFree
      <3>1. row'[t] = Fresh(r) /\ activity'[t] = <<[type |-> "TASK_CREATED"]>>
        BY <1>0, <2>1, <2>4 DEF StoredOK
      <3>2. Fresh(r) \in Row /\ Fresh(r).assignee \in Assignees
        BY <1>0, <1>7, FreshRow DEF InsertTask, Row
      <3>3. Reassignments(t)' = {}
        BY <3>1 DEF Reassignments
      <3>4. \A q \in Requests : ~OnTask(q, t)
        BY <1>0, <2>1, <2>4 DEF OnTask, RequestsFit, Fits
      <3>5. \A q \in Requests : ~OnTask(q, t)'
        BY <1>4, <2>2, <3>4
      <3>6. PICK u \in Assignees : u = row'[t].assignee
        BY <3>1, <3>2
      <3>7. TracedFrom(t, u)'
        BY <3>3, <3>5, <3>6 DEF TracedFrom, Past
      <3> QED
        BY <3>7
    <2> QED
      BY <2>3, <2>4
  <1>8. ASSUME NEW r \in Requests, WriteUpdate(r) PROVE TracedFrom(t, first)'
    <2> DEFINE q == request[r]  es == StatusEntries(q)
    <2>1. Answer(r)
      BY <1>8 DEF WriteUpdate
    <2>2. CASE UNCHANGED <<row, activity>>
      BY <1>3, <1>4, <2>1, <2>2
    <2>3. CASE /\ q \in Updates /\ row[q.task] \in Row
               /\ row' = [row EXCEPT ![q.task] = Patched(q, row[q.task])]
               /\ activity' = [activity EXCEPT ![q.task] = activity[q.task] \o es]
      <3>1. /\ q.task \in Tasks /\ es \in Seq(Entry)
            /\ \A k \in 1..Len(es) : es[k].type # "ASSIGNEE_CHANGED"
        BY <1>0, <2>3, EntriesTyped DEF StatusEntries, Updates
      <3>2. row'[t].assignee = row[t].assignee
        BY <1>0, <2>3, <3>1, PatchedRow, RowWritten
      <3> HIDE DEF q, es
      <3>3. CASE t = q.task
        <4>1. activity'[t] = activity[t] \o es
          BY <1>0, <2>3, <3>3 DEF StoredOK
        <4> QED
          BY <1>0, <1>1, <1>4, <2>1, <3>1, <3>2, <4>1, TracedOn
      <3>4. CASE t # q.task
        <4>1. activity'[t] = activity[t]
          BY <1>0, <2>3, <3>4 DEF StoredOK
        <4> QED
          BY <1>3, <1>4, <2>1, <3>2, <4>1
      <3> QED
        BY <3>3, <3>4
    <2> QED
      BY <1>0, <1>8, <2>2, <2>3, UpdateEffect
  <1>9. ASSUME NEW r \in Requests, WriteAssign(r) PROVE TracedFrom(t, first)'
    <2> DEFINE q == request[r]  es == AssigneeEntries(q)
    <2>1. /\ q \in Assigns /\ q.task \in Tasks /\ row[q.task] \in Row
          /\ row' = [row EXCEPT ![q.task] = Assigned(q, row[q.task])]
          /\ activity' = [activity EXCEPT ![q.task] = activity[q.task] \o es]
      BY <1>0, <1>9, AssignEffect
    <2>2. /\ row'[q.task].assignee = q.assignee
          /\ \A u \in Tasks : u # q.task => row'[u].assignee = row[u].assignee
      BY <1>0, <2>1, AssignedRow, RowWritten
    <2>3. /\ es \in Seq(Entry) /\ Len(es) = 1 /\ es[1].type = "ASSIGNEE_CHANGED"
          /\ es[1].before = q.read.assignee /\ es[1].after = q.assignee
      BY <1>0, <2>1, EntriesTyped DEF AssigneeEntries
    <2>4. Answer(r) /\ (t = q.task => OnTask(r, t))
      BY <1>9 DEF WriteAssign, Writes, OnTask
    <2>5. t = q.task => q.read.assignee \in Past(t, first)
      BY <1>1, <2>4 DEF TracedFrom
    <2> HIDE DEF q, es
    <2>6. CASE t = q.task
      <3>1. activity'[t] = activity[t] \o es
        BY <1>0, <2>1, <2>6 DEF StoredOK
      <3>2. /\ \A k \in 1..Len(es) :
                  es[k].type = "ASSIGNEE_CHANGED" => es[k].before \in Past(t, first)
            /\ \E k \in 1..Len(es) :
                  es[k].type = "ASSIGNEE_CHANGED" /\ es[k].after = row'[t].assignee
        BY <2>2, <2>3, <2>5, <2>6
      <3> QED
        BY <1>0, <1>1, <1>4, <2>3, <2>4, <3>1, <3>2, TracedOn
    <2>7. CASE t # q.task
      <3>1. activity'[t] = activity[t]
        BY <1>0, <2>1, <2>7 DEF StoredOK
      <3> QED
        BY <1>3, <1>4, <2>2, <2>4, <2>7, <3>1
    <2> QED
      BY <2>6, <2>7
  <1>10. ASSUME NEW r \in Requests, WriteRemove(r) PROVE TracedFrom(t, first)'
    <2> DEFINE q == request[r]
    <2>1. /\ q.task \in Tasks /\ row' = [row EXCEPT ![q.task] = Erased(row[q.task])]
          /\ activity' = activity /\ Erased(row[q.task]) \in Row
          /\ Content(Erased(row[q.task])) = Content(row[q.task])
      BY <1>0, <1>10, RemoveEffect
    <2>2. Erased(row[q.task]).assignee = row[q.task].assignee /\ Answer(r)
      BY <1>10, <2>1 DEF Content, WriteRemove
    <2> HIDE DEF q
    <2>3. row'[t].assignee = row[t].assignee
      BY <1>0, <2>1, <2>2, RowWritten
    <2> QED
      BY <1>3, <1>4, <2>1, <2>2, <2>3
  <1>11. CASE UNCHANGED stored
    BY <1>3, <1>11 DEF stored, OnTask
  <1> QED
    BY <1>5, <1>6, <1>7, <1>8, <1>9, <1>10, <1>11, NextCases DEF Writers

-----------------------------------------------------------------------------
(* Assignments one at a time.                                              *)

\* No two assignments of one task are under way at once.
OneAtATime ==
    \A r, q \in Requests :
        /\ Writes(r, "assign") /\ Writes(q, "assign")
        /\ request[r].task = request[q].task
        => r = q

\* An assignment replaces the assignee it has read, and one that may only take a task for
\* oneself has read that nobody had it.
AssignFits(r) ==
    LET q == request[r] IN
    Writes(r, "assign") =>
        /\ q.read.assignee = row[q.task].assignee
        /\ SelfOnly(q.actor) /\ q.assignee # Nobody => q.read.assignee = Nobody

AssignsFit == \A r \in Requests : AssignFits(r)

LEMMA AssignsStep == Inv /\ AssignsFit /\ OneAtATime /\ [Next]_vars => AssignsFit'
  <1> SUFFICES ASSUME Inv, AssignsFit, OneAtATime, [Next]_vars PROVE AssignsFit'
    OBVIOUS
  <1>0. StoredOK /\ RequestsFit
    BY DEF Inv
  <1>1. \A r \in Requests : Writes(r, "assign") => request[r].task \in Inserted
    BY <1>0 DEF Writes, RequestsFit, Fits
  \* Requests that stay, on tasks that keep their assignee.
  <1>2. ASSUME NEW i \in Requests, request'[i] = request[i],
               Writes(i, "assign") => row'[request[i].task].assignee = row[request[i].task].assignee
        PROVE  AssignFits(i)'
    BY <1>2 DEF AssignsFit, AssignFits, Writes
  <1>3. ASSUME NEW r \in Requests, Answer(r),
               \A i \in Requests \ {r} : Writes(i, "assign") =>
                  row'[request[i].task].assignee = row[request[i].task].assignee
        PROVE  AssignsFit'
    <2>1. request'[r] = Idle /\ \A i \in Requests \ {r} : request'[i] = request[i]
      BY <1>0, <1>3 DEF Answer, StoredOK
    <2>2. AssignFits(r)'
      BY <2>1 DEF AssignFits, Writes
    <2> QED
      BY <1>2, <1>3, <2>1, <2>2 DEF AssignsFit
  <1>4. ASSUME NEW r \in Requests, Arrives(r) PROVE AssignsFit'
    <2>1. PICK q \in Creation \cup Writing :
             /\ request' = [request EXCEPT ![r] = q]
             /\ q.op # "create" => q.read = row[q.task]
             /\ q.op = "assign" /\ q.assignee # Nobody => MayAssign(q.actor, q.task, q.assignee)
      BY <1>0, <1>4, ArrivesEffect
    <2>2. request'[r] = q /\ \A i \in Requests \ {r} : request'[i] = request[i]
      BY <1>0, <2>1 DEF StoredOK
    <2>3. row' = row
      BY <1>0, <1>4, ArrivesEffect
    <2>4. AssignFits(r)'
      BY <2>1, <2>2, <2>3 DEF AssignFits, Writes, MayAssign, SelfOnly
    <2> QED
      BY <1>2, <2>2, <2>3, <2>4 DEF AssignsFit
  <1>5. ASSUME NEW r \in Requests, ClaimNumber(r) \/ Abort(r) PROVE AssignsFit'
    <2>1. row' = row /\ (request' = request \/ Answer(r))
      BY <1>5 DEF ClaimNumber, Abort
    <2> QED
      BY <1>2, <1>3, <2>1 DEF AssignsFit
  <1>6. ASSUME NEW r \in Requests, InsertTask(r) PROVE AssignsFit'
    <2>1. \A t \in Inserted : row'[t] = row[t]
      BY <1>6, <1>0, InsertEffect DEF Inserted, StoredOK
    <2>2. Answer(r)
      BY <1>6 DEF InsertTask
    <2> QED
      BY <1>1, <1>3, <2>1, <2>2
  <1>7. ASSUME NEW r \in Requests, WriteUpdate(r) \/ WriteRemove(r) PROVE AssignsFit'
    <2> DEFINE q == request[r]
    <2>1. Answer(r)
      BY <1>7 DEF WriteUpdate, WriteRemove
    <2>2. \A t \in Tasks : row'[t].assignee = row[t].assignee
      <3>1. CASE UNCHANGED <<row, activity>>
        BY <3>1
      <3>2. CASE /\ q \in Updates /\ row[q.task] \in Row
                 /\ row' = [row EXCEPT ![q.task] = Patched(q, row[q.task])]
        <4>1. q.task \in Tasks
          BY <3>2 DEF Updates
        <4> QED
          BY <1>0, <3>2, <4>1, PatchedRow, RowWritten
      <3>3. CASE WriteRemove(r)
        <4>1. /\ q.task \in Tasks /\ row' = [row EXCEPT ![q.task] = Erased(row[q.task])]
              /\ Erased(row[q.task]) \in Row
              /\ Content(Erased(row[q.task])) = Content(row[q.task])
          BY <1>0, <3>3, RemoveEffect
        <4>2. Erased(row[q.task]).assignee = row[q.task].assignee
          BY <4>1 DEF Content
        <4> HIDE DEF q
        <4> QED
          BY <1>0, <4>1, <4>2, RowWritten
      <3> QED
        BY <1>0, <1>7, <3>1, <3>2, <3>3, UpdateEffect
    <2> QED
      BY <1>1, <1>3, <2>1, <2>2 DEF Inserted
  <1>8. ASSUME NEW r \in Requests, WriteAssign(r) PROVE AssignsFit'
    <2> DEFINE q == request[r]
    <2>1. /\ q \in Assigns /\ q.task \in Tasks /\ row[q.task] \in Row
          /\ row' = [row EXCEPT ![q.task] = Assigned(q, row[q.task])]
      BY <1>0, <1>8, AssignEffect
    <2>2. \A u \in Tasks : u # q.task => row'[u].assignee = row[u].assignee
      BY <1>0, <2>1, AssignedRow, RowWritten
    <2>3. Answer(r) /\ Writes(r, "assign")
      BY <1>8 DEF WriteAssign
    <2>4. \A i \in Requests \ {r} : Writes(i, "assign") => request[i].task # q.task
      BY <2>3 DEF OneAtATime
    <2> HIDE DEF q
    <2> QED
      BY <1>1, <1>3, <2>2, <2>3, <2>4 DEF Inserted
  <1>9. CASE UNCHANGED stored
    BY <1>2, <1>9 DEF stored, AssignsFit
  <1> QED
    BY <1>4, <1>5, <1>6, <1>7, <1>8, <1>9, NextCases DEF Writers

-----------------------------------------------------------------------------
(* Refinement: the status of the tasks is an AuditedField.                 *)

Mapped(s) == [i \in DOMAIN s |-> OfStatus(s[i])]
Pairs == {OfStatus(e) : e \in Entry}

LEMMA MappedSeq ==
  ASSUME NEW s \in Seq(Entry)
  PROVE  /\ Mapped(s) \in Seq(Pairs) /\ Len(Mapped(s)) = Len(s)
         /\ \A i \in 1..Len(s) : Mapped(s)[i] = OfStatus(s[i])
  <1>1. Len(s) \in Nat /\ DOMAIN s = 1..Len(s) /\ \A i \in 1..Len(s) : s[i] \in Entry
    BY LenProperties, ElementOfSeq
  <1>2. Mapped(s) \in [1..Len(s) -> Pairs]
    BY <1>1 DEF Mapped, Pairs
  <1>3. Mapped(s) \in Seq(Pairs)
    BY <1>1, <1>2, SeqDef
  <1>4. Len(Mapped(s)) \in Nat /\ DOMAIN Mapped(s) = 1..Len(Mapped(s))
    BY <1>3, LenProperties
  <1>5. Len(Mapped(s)) = Len(s)
    <2>1. 1..Len(Mapped(s)) = 1..Len(s)
      BY <1>2, <1>4
    <2> DEFINE m == Len(Mapped(s))  n == Len(s)
    <2>2. m \in Nat /\ n \in Nat
      BY <1>1, <1>4
    <2> HIDE DEF m, n
    <2>3. ~(m > n)
      <3>1. m > n => m \in 1..m /\ m \notin 1..n
        BY <2>2
      <3> QED
        BY <2>1, <3>1 DEF m, n
    <2>4. ~(n > m)
      <3>1. n > m => n \in 1..n /\ n \notin 1..m
        BY <2>2
      <3> QED
        BY <2>1, <3>1 DEF m, n
    <2>5. m = n
      BY <2>2, <2>3, <2>4
    <2> QED
      BY <2>5 DEF m, n
  <1> QED
    BY <1>1, <1>3, <1>5 DEF Mapped

LEMMA MappedAppend ==
  ASSUME NEW s \in Seq(Entry), NEW e \in Entry
  PROVE  Mapped(Append(s, e)) = Append(Mapped(s), OfStatus(e))
  <1> DEFINE a == Append(s, e)  m == Append(Mapped(s), OfStatus(e))
  <1>1. /\ a \in Seq(Entry) /\ Len(a) = Len(s) + 1 /\ a[Len(s) + 1] = e
        /\ \A i \in 1..Len(s) : a[i] = s[i]
    BY AppendProperties
  <1>2. OfStatus(e) \in Pairs /\ Mapped(s) \in Seq(Pairs) /\ Len(Mapped(s)) = Len(s)
    BY MappedSeq DEF Pairs
  <1>3. /\ m \in Seq(Pairs) /\ Len(m) = Len(s) + 1 /\ m[Len(s) + 1] = OfStatus(e)
        /\ \A i \in 1..Len(s) : m[i] = Mapped(s)[i]
    BY <1>2, AppendProperties
  <1> HIDE DEF a, m
  <1>4. /\ Mapped(a) \in Seq(Pairs) /\ Len(Mapped(a)) = Len(s) + 1
        /\ \A i \in 1..(Len(s) + 1) : Mapped(a)[i] = OfStatus(a[i])
    BY <1>1, MappedSeq
  <1>5. \A i \in 1..(Len(s) + 1) : Mapped(a)[i] = m[i]
    <2>1. Len(s) \in Nat
      BY LenProperties
    <2>2. \A i \in 1..(Len(s) + 1) : i = Len(s) + 1 \/ i \in 1..Len(s)
      BY <2>1
    <2>3. \A i \in 1..Len(s) : i \in 1..(Len(s) + 1) /\ Mapped(s)[i] = OfStatus(s[i])
      BY <2>1, MappedSeq
    <2>4. Len(s) + 1 \in 1..(Len(s) + 1)
      BY <2>1
    <2> QED
      BY <1>1, <1>3, <1>4, <2>2, <2>3, <2>4
  <1>6. Mapped(a) = m
    BY <1>3, <1>4, <1>5, SeqEqual
  <1> QED
    BY <1>6 DEF a, m

LEMMA StatusLogAppended ==
  ASSUME StoredOK, NEW t \in Tasks, NEW e \in Entry,
         activity' = [activity EXCEPT ![t] = Append(activity[t], e)]
  PROVE  statusLog' = [statusLog EXCEPT ![t] = Append(statusLog[t], OfStatus(e))]
  <1>1. activity \in [Tasks -> Seq(Entry)] /\ activity[t] \in Seq(Entry)
    BY DEF StoredOK
  <1>2. statusLog = [u \in Tasks |-> Mapped(activity[u])]
    BY DEF statusLog, Mapped
  <1>3. statusLog' = [u \in Tasks |-> Mapped(activity'[u])]
    BY DEF statusLog, Mapped
  <1>4. Mapped(activity'[t]) = Append(statusLog[t], OfStatus(e))
    BY <1>1, <1>2, MappedAppend
  <1>5. \A u \in Tasks : u # t => activity'[u] = activity[u]
    BY <1>1
  <1> QED
    BY <1>2, <1>3, <1>4, <1>5

AuditVars == <<status, statusLog>>

LEMMA AuditStutter ==
  ASSUME activity' = activity, \A t \in Tasks : row'[t].status = row[t].status
  PROVE  UNCHANGED AuditVars
  BY DEF AuditVars, status, statusLog, OfStatus

LEMMA AuditOther ==
  ASSUME StoredOK, NEW t \in Tasks, NEW e \in Entry, e.type # "STATUS_CHANGED",
         activity' = [activity EXCEPT ![t] = Append(activity[t], e)],
         \A u \in Tasks : row'[u].status = row[u].status
  PROVE  Audit!Next
  <1>1. status' = status
    BY DEF status
  <1>2. statusLog' = [statusLog EXCEPT ![t] = Append(statusLog[t], <<>>)]
    BY StatusLogAppended DEF OfStatus
  <1>3. Audit!Other(t)
    BY <1>1, <1>2 DEF Audit!Other
  <1> QED
    BY <1>3 DEF Audit!Next

LEMMA AuditStep == Inv /\ [Next]_vars => [Audit!Next]_AuditVars
  <1> SUFFICES ASSUME Inv, [Next]_vars PROVE [Audit!Next]_AuditVars
    OBVIOUS
  <1>1. ASSUME NEW r \in Requests, InsertTask(r) PROVE Audit!Next
    <2> DEFINE t == FirstFree  e == [type |-> "TASK_CREATED"]
    <2>1. /\ t \in Tasks /\ row' = [row EXCEPT ![t] = Fresh(r)] /\ row[t] = NoRow
      BY <1>1, InsertEffect
    <2>2. Fresh(r) \in Row /\ Fresh(r).status = "TODO" /\ NoRow.status = "TODO"
      BY <1>1, FreshRow DEF InsertTask, Inv, NoRow
    <2>3. \A u \in Tasks : row'[u].status = row[u].status
      BY <2>1, <2>2, RowWritten DEF Inv
    <2>4. activity' = [activity EXCEPT ![t] = Append(activity[t], e)]
      BY <1>1 DEF InsertTask
    <2>5. e \in Entry /\ e.type # "STATUS_CHANGED"
      BY EntriesTyped
    <2> HIDE DEF t, e
    <2> QED
      BY <2>1, <2>3, <2>4, <2>5, AuditOther DEF Inv
  <1>2. ASSUME NEW r \in Requests, WriteUpdate(r) PROVE [Audit!Next]_AuditVars
    <2> DEFINE q == request[r]  t == q.task
    <2>1. CASE UNCHANGED <<row, activity>>
      BY <2>1, AuditStutter
    <2>2. CASE /\ q \in Updates /\ row[t] \in Row /\ Content(q.read) = Content(row[t])
               /\ row' = [row EXCEPT ![t] = Patched(q, row[t])]
               /\ activity' = [activity EXCEPT ![t] = activity[t] \o StatusEntries(q)]
      <3>1. /\ t \in Tasks /\ activity[t] \in Seq(Entry) /\ activity \in [Tasks -> Seq(Entry)]
            /\ q.read.status = row[t].status
        BY <2>2 DEF Updates, Inv, StoredOK, Content
      <3>2. /\ row'[t].status = IF q.status = "unset" THEN row[t].status ELSE q.status
            /\ \A u \in Tasks : u # t => row'[u] = row[u]
        BY <2>2, <3>1, PatchedRow, RowWritten DEF Inv
      <3>3. CASE q.status = "unset" \/ q.status = q.read.status
        <4>1. StatusEntries(q) = <<>>
          BY <3>3 DEF StatusEntries
        <4>2. activity' = activity
          BY <2>2, <3>1, <4>1, ConcatEmptySeq
        <4>3. \A u \in Tasks : row'[u].status = row[u].status
          BY <3>1, <3>2, <3>3
        <4> QED
          BY <4>2, <4>3, AuditStutter
      <3>4. CASE q.status # "unset" /\ q.status # q.read.status
        <4> DEFINE e == [type |-> "STATUS_CHANGED", before |-> q.read.status,
                         after |-> q.status]
        <4>1. StatusEntries(q) = <<e>>
          BY <3>4 DEF StatusEntries
        <4>2. e \in Entry
          BY <2>2, <3>4 DEF Updates, Row, Entry
        <4>3. activity' = [activity EXCEPT ![t] = Append(activity[t], e)]
          <5> HIDE DEF e
          <5>1. Append(activity[t], e) = activity[t] \o <<e>>
            BY <3>1, <4>2, AppendIsConcat
          <5> QED
            BY <2>2, <4>1, <5>1
        <4>4. statusLog' = [statusLog EXCEPT ![t] = Append(statusLog[t], OfStatus(e))]
          <5> HIDE DEF e, t
          <5> QED
            BY <3>1, <4>2, <4>3, StatusLogAppended DEF Inv
        <4>5. status[t] = q.read.status /\ status'[t] = q.status
          BY <3>1, <3>2, <3>4 DEF status
        <4>6. OfStatus(e) = <<status[t], status'[t]>>
          BY <4>5 DEF OfStatus
        <4>7. status' = [status EXCEPT ![t] = status'[t]]
          BY <3>1, <3>2 DEF status
        <4>8. Audit!Change(t)
          BY <3>4, <4>4, <4>5, <4>6, <4>7 DEF Audit!Change
        <4> QED
          BY <3>1, <4>8 DEF Audit!Next
      <3> QED
        BY <3>3, <3>4
    <2> QED
      BY <1>2, <2>1, <2>2, UpdateEffect DEF Inv
  <1>3. ASSUME NEW r \in Requests, WriteAssign(r) PROVE Audit!Next
    <2> DEFINE q == request[r]  t == q.task
               e == [type |-> "ASSIGNEE_CHANGED", before |-> q.read.assignee,
                     after |-> q.assignee]
    <2>1. /\ q \in Assigns /\ t \in Tasks /\ row[t] \in Row
          /\ row' = [row EXCEPT ![t] = Assigned(q, row[t])]
          /\ activity' = [activity EXCEPT ![t] = activity[t] \o <<e>>]
      BY <1>3, AssignEffect DEF Inv, AssigneeEntries
    <2>2. \A u \in Tasks : row'[u].status = row[u].status
      BY <2>1, AssignedRow, RowWritten DEF Inv
    <2>3. e \in Entry /\ e.type # "STATUS_CHANGED"
      BY <2>1 DEF Assigns, Row, Entry
    <2>4. activity' = [activity EXCEPT ![t] = Append(activity[t], e)]
      <3> HIDE DEF e
      <3>1. Append(activity[t], e) = activity[t] \o <<e>>
        BY <2>1, <2>3, AppendIsConcat DEF Inv, StoredOK
      <3> QED
        BY <2>1, <3>1
    <2> HIDE DEF t, e
    <2> QED
      BY <2>1, <2>2, <2>3, <2>4, AuditOther DEF Inv
  <1>4. ASSUME NEW r \in Requests, WriteRemove(r) PROVE UNCHANGED AuditVars
    <2> DEFINE q == request[r]
    <2>1. /\ q.task \in Tasks /\ row' = [row EXCEPT ![q.task] = Erased(row[q.task])]
          /\ activity' = activity /\ Erased(row[q.task]) \in Row
          /\ Content(Erased(row[q.task])) = Content(row[q.task])
      BY <1>4, RemoveEffect DEF Inv
    <2>2. Erased(row[q.task]).status = row[q.task].status
      BY <2>1 DEF Content
    <2> HIDE DEF q
    <2> QED
      BY <2>1, <2>2, RowWritten, AuditStutter DEF Inv
  <1>5. ASSUME NEW r \in Requests, Arrives(r) \/ ClaimNumber(r) \/ Abort(r)
        PROVE  UNCHANGED AuditVars
    BY <1>5, ArrivesEffect, AuditStutter DEF ClaimNumber, Abort, Inv
  <1>6. CASE UNCHANGED stored
    BY <1>6, AuditStutter DEF stored
  <1> QED
    BY <1>1, <1>2, <1>3, <1>4, <1>5, <1>6, NextCases DEF Writers

-----------------------------------------------------------------------------
(* Walks through the lists.                                                *)

\* A client at a cursor knows its list, unless the task of a cursor of its left it.
WalkFits ==
    walk # Idle =>
        /\ walk.filter \in Filters
        /\ walk.seen \in Seq(1..Cardinality(Inserted))
        /\ ~unsure => Abreast(walk.seen, walk.cursor, walk.first, touched,
                              Listed(walk.filter), Place)

LEMMA ListedRows ==
  ASSUME Inv, NEW filter
  PROVE  /\ Placed(Listed(filter), Place) /\ Listed(filter) \subseteq DOMAIN Place
         /\ Listed(filter) \subseteq 1..Cardinality(Inserted)
         /\ \A n \in Listed(filter) : Place[n] = n
  <1>1. {row[t].number : t \in Inserted} = 1..Cardinality(Inserted)
    BY DEF Inv, NumberedWithoutGaps
  <1>2. /\ Listed(filter) \subseteq {row[t].number : t \in Inserted}
        /\ DOMAIN Place = {row[t].number : t \in Inserted}
        /\ \A n \in DOMAIN Place : Place[n] = n
    BY DEF Listed, Visible, Place
  <1>3. IsFiniteSet(1..Cardinality(Inserted)) /\ Cardinality(Inserted) \in Nat
    BY Finite, FS_Interval
  <1>4. IsFiniteSet(Listed(filter))
    BY <1>1, <1>2, <1>3, FS_Subset
  <1>5. \A n \in Listed(filter) : n \in Nat \ {0} /\ Place[n] \in Int
    BY <1>1, <1>2, <1>3
  <1> QED
    BY <1>1, <1>2, <1>4, <1>5 DEF Placed

LEMMA InsertedStay ==
  ASSUME Inv, [Next]_vars
  PROVE  Inserted \subseteq Inserted'
  <1>1. ASSUME \A t \in Tasks : row'[t].number = row[t].number PROVE Inserted' = Inserted
    BY <1>1 DEF Inserted
  <1>2. ASSUME row' = row PROVE Inserted' = Inserted
    BY <1>1, <1>2
  <1>3. ASSUME NEW r \in Requests, InsertTask(r) PROVE Inserted \subseteq Inserted'
    BY <1>3, InsertEffect
  <1>4. ASSUME NEW r \in Requests, Writers(r) PROVE Inserted \subseteq Inserted'
    BY <1>1, <1>4, WritersEffect
  <1>5. ASSUME NEW r \in Requests, Arrives(r) \/ ClaimNumber(r) \/ Abort(r)
        PROVE  Inserted \subseteq Inserted'
    BY <1>2, <1>5, ArrivesEffect DEF ClaimNumber, Abort, Inv
  <1>6. CASE UNCHANGED stored
    BY <1>2, <1>6 DEF stored
  <1> QED
    BY <1>3, <1>4, <1>5, <1>6, NextCases

LEMMA SeenStay ==
  ASSUME Inv, Inv', [Next]_vars
  PROVE  Seq(1..Cardinality(Inserted)) \subseteq Seq(1..Cardinality(Inserted'))
  <1>1. /\ IsFiniteSet(Inserted') /\ Cardinality(Inserted') \in Nat /\ Cardinality(Inserted) \in Nat
    <2>1. Inserted' \subseteq Tasks
      BY DEF Inserted
    <2> QED
      BY <2>1, Finite, TasksConstants, FS_Subset, FS_CardinalityType
  <1>2. Cardinality(Inserted) <= Cardinality(Inserted')
    BY <1>1, InsertedStay, FS_Subset
  <1>3. 1..Cardinality(Inserted) \subseteq 1..Cardinality(Inserted')
    BY <1>1, <1>2
  <1> QED
    BY <1>3, SeqOfMore

\* While tasks are written, what left the list counts as touched.
LEMMA WalkBeside ==
  ASSUME Inv, Inv', WalkFits, [Next]_vars, walk' = walk, Track \/ UNCHANGED <<touched, unsure, stored>>
  PROVE  WalkFits'
  <1> SUFFICES ASSUME walk # Idle
               PROVE  /\ walk.filter \in Filters
                      /\ walk.seen \in Seq(1..Cardinality(Inserted'))
                      /\ ~unsure' => Abreast(walk.seen, walk.cursor, walk.first, touched',
                                             Listed(walk.filter)', Place')
    BY DEF WalkFits
  <1>1. walk.filter \in Filters /\ walk.seen \in Seq(1..Cardinality(Inserted'))
    BY SeenStay DEF WalkFits
  <1>2. ASSUME ~unsure'
        PROVE  Abreast(walk.seen, walk.cursor, walk.first, touched', Listed(walk.filter)', Place')
    <2> DEFINE list == Listed(walk.filter)
    <2>1. \A n \in list : n \in list' => Place[n] = Place'[n]
      <3>1. \A n \in list : Place[n] = n
        BY ListedRows
      <3>2. \A n \in list' : Place'[n] = n
        BY DEF Place, Listed, Visible
      <3> QED
        BY <3>1, <3>2
    <2>2. /\ ~unsure /\ touched \subseteq touched'
          /\ walk.cursor # NoCursor => \A n \in list : n \notin list' => n \in touched' /\ n # walk.cursor
      <3>1. CASE UNCHANGED <<touched, unsure, stored>>
        <4>1. list' = list
          BY <3>1 DEF Listed, Visible, Inserted, stored
        <4> QED
          BY <1>2, <3>1, <4>1
      <3>2. CASE Track /\ Walking
        <4>1. list \ list' = [filter \in Filters |-> Leaves(filter)][walk.filter]
          BY <1>1 DEF Leaves, Listed, Visible
        <4> QED
          BY <1>2, <3>2, <4>1 DEF Track
      <3>3. CASE Track /\ ~Walking
        BY <1>2, <3>3 DEF Track, Walking
      <3> QED
        BY <3>1, <3>2, <3>3
    <2>3. Abreast(walk.seen, walk.cursor, walk.first, touched, list, Place)
      BY <2>2 DEF WalkFits
    <2> HIDE DEF list
    <2> QED
      BY <2>1, <2>2, <2>3, StaysAbreast DEF list
  <1> QED
    BY <1>1, <1>2

\* A page: nothing else changes meanwhile.
LEMMA WalkOn ==
  ASSUME Inv, WalkFits, [Next]_vars, UNCHANGED stored, Track,
         NextPage \/ \E filter \in Filters : StartWalk(filter)
  PROVE  WalkFits'
  <1>1. /\ Inserted' = Inserted /\ Place' = Place
        /\ \A filter \in Filters : Listed(filter)' = Listed(filter)
    BY DEF Inserted, Place, Listed, Visible, stored
  <1>2. PageSize \in Nat \ {0}
    BY TasksConstants
  <1>3. ASSUME NEW filter \in Filters, NEW seen \in Seq(1..Cardinality(Inserted)), NEW cursor,
               NEW first, HasPage(filter, seen, first, Page(filter, cursor)),
               ~unsure' => Abreast(seen \o Page(filter, cursor).data, Page(filter, cursor).nextCursor,
                                  first, touched', Listed(filter), Place)
        PROVE  WalkFits'
    <2> DEFINE page == Page(filter, cursor)
    <2>1. page = PageAfter(Listed(filter), Place, cursor, PageSize)
      BY DEF Page, PageAfter
    <2>2. page.data \in Seq(Listed(filter))
      BY <1>2, <2>1, ListedRows, PageIsListed
    <2>3. page.data \in Seq(1..Cardinality(Inserted))
      BY <2>2, ListedRows, SeqOfMore
    <2>4. seen \o page.data \in Seq(1..Cardinality(Inserted))
      BY <2>3, SeenGrows
    <2>5. /\ walk'.filter = filter /\ walk'.seen = seen \o page.data
          /\ walk'.cursor = page.nextCursor /\ walk'.first = first
      BY <1>3 DEF HasPage
    <2>6. Listed(filter)' = Listed(filter)
      BY <1>1
    <2>7. Listed(walk.filter)' = Listed(filter)
      BY <1>1, <2>5 DEF Listed, Visible, stored
    <2> HIDE DEF page
    <2> QED
      BY <1>1, <1>3, <2>4, <2>5, <2>7 DEF WalkFits, page
  <1>4. ASSUME NEW filter \in Filters, StartWalk(filter)
        PROVE  WalkFits'
    <2>1. HasPage(filter, <<>>, Listed(filter), Page(filter, NoCursor))
      BY <1>4 DEF StartWalk
    <2>2. Abreast(<<>> \o Page(filter, NoCursor).data, Page(filter, NoCursor).nextCursor,
                  Listed(filter), touched', Listed(filter), Place)
      BY <1>2, ListedRows, SetsOutAbreast DEF Page, PageAfter
    <2>3. <<>> \in Seq(1..Cardinality(Inserted))
      OBVIOUS
    <2> QED
      BY <1>3, <2>1, <2>2, <2>3
  <1>5. CASE NextPage
    <2> DEFINE list == Listed(walk.filter)
    <2>1. /\ walk # Idle /\ walk.cursor # NoCursor
          /\ HasPage(walk.filter, walk.seen, walk.first, Page(walk.filter, walk.cursor))
      BY <1>5 DEF NextPage, Walking
    <2>2. walk.filter \in Filters /\ walk.seen \in Seq(1..Cardinality(Inserted))
      BY <2>1 DEF WalkFits
    <2>3. [filter \in Filters |-> Leaves(filter)][walk.filter] = {}
      BY <1>1, <2>2 DEF Leaves
    <2>4. touched' = touched /\ (~unsure' => ~unsure)
      BY <2>1, <2>3 DEF Track, Walking
    <2>5. ASSUME ~unsure'
          PROVE  Abreast(walk.seen \o Page(walk.filter, walk.cursor).data,
                         Page(walk.filter, walk.cursor).nextCursor,
                         walk.first, touched', list, Place)
      <3>1. Abreast(walk.seen, walk.cursor, walk.first, touched, list, Place)
        BY <2>1, <2>4, <2>5 DEF WalkFits
      <3>2. Placed(list, Place) /\ list \subseteq DOMAIN Place /\ list \subseteq 1..Cardinality(Inserted)
        BY ListedRows
      <3>3. Page(walk.filter, walk.cursor) = PageAfter(list, Place, walk.cursor, PageSize)
        BY DEF Page, PageAfter
      <3> HIDE DEF list
      <3> QED
        BY <1>2, <2>1, <2>2, <2>4, <3>1, <3>2, <3>3, WalksOnAbreast
    <2> QED
      BY <1>3, <2>1, <2>2, <2>5
  <1> QED
    BY <1>4, <1>5

LEMMA WalkStep == Inv /\ Inv' /\ WalkFits /\ [Next]_vars => WalkFits'
  <1> SUFFICES ASSUME Inv, Inv', WalkFits, [Next]_vars PROVE WalkFits'
    OBVIOUS
  <1>1. CASE RequestStep /\ UNCHANGED walk /\ Track
    BY <1>1, WalkBeside
  <1>2. CASE (NextPage \/ \E filter \in Filters : StartWalk(filter)) /\ Track
    <2>1. UNCHANGED stored
      BY <1>2 DEF NextPage, StartWalk
    <2> QED
      BY <1>2, <2>1, WalkOn
  <1>3. CASE UNCHANGED vars
    BY <1>3, WalkBeside DEF vars
  <1> QED
    BY <1>1, <1>2, <1>3 DEF Next

-----------------------------------------------------------------------------
(* The theorems.                                                           *)

\* The inductive invariant holds: under READ COMMITTED and with every check made on the
\* row requireTask read, whatever transactions of tasksService overlap or roll back.
THEOREM InvHolds == Spec => []Inv
  <1>1. Inv /\ [Next]_vars => Inv'
    BY StoredStep, NumberedStep, CreationsStep, BlankStep, FitStep, CompletedStep, LogStep
       DEF Inv
  <1> QED
    BY <1>1, InvInit, PTL DEF Spec

\* The rows, the counter, the activity entries and the requests of tasksService keep
\* their types: every entry names statuses and assignees there are.
THEOREM StoredTyped == Spec => []StoredOK
  <1>1. Inv => StoredOK
    BY DEF Inv
  <1> QED
    BY <1>1, InvHolds, PTL

\* createWithNextNumber numbers the tasks of a project 1 to n, however many creations
\* overlap and whichever of them roll back.
THEOREM NumbersWithoutGaps == Spec => []NumberedWithoutGaps
  <1>1. Inv => NumberedWithoutGaps
    BY DEF Inv
  <1> QED
    BY <1>1, InvHolds, PTL

\* A task has completedAt exactly while it is DONE, although tasksService.update decides
\* that outside the transaction.
THEOREM CompletedExactlyWhileDone == Spec => []CompletedWhileDone
  <1>1. Inv => CompletedWhileDone
    BY DEF Inv
  <1> QED
    BY <1>1, InvHolds, PTL

\* The version that updateWithVersion compares names one content of the task.
THEOREM VersionsNameContents == Spec => []VersionNamesContent
  <1>1. Inv => VersionNamesContent
    BY DEF Inv, RequestsFit, Fits, VersionNamesContent
  <1> QED
    BY <1>1, InvHolds, PTL

\* Whoever is assigned a task now, was when a request read it, or is "before" in its log,
\* has been its assignee (tasksService.assign, which reads outside the transaction).
THEOREM AssigneesTraced == Spec => []Traced
  <1>1. Init => Traced
    <2> SUFFICES ASSUME Init, NEW t \in Tasks PROVE TracedFrom(t, Nobody)
      BY DEF Traced, Assignees
    <2>1. row[t].assignee = Nobody /\ activity[t] = <<>> /\ \A r \in Requests : ~OnTask(r, t)
      BY DEF Init, NoRow, OnTask
    <2>2. Reassignments(t) = {}
      BY <2>1 DEF Reassignments
    <2> QED
      BY <2>1, <2>2 DEF TracedFrom, Past
  <1> QED
    BY <1>1, TracedStep, InvHolds, PTL DEF Spec

\* The newest entry about the assignee that tasksRepository.assign logged names the
\* present one, whichever requests wrote in between, and no entry invents a "before".
THEOREM LogNamesAssignee == Spec => []LogTellsAssignee
  <1>1. Inv /\ Traced => LogTellsAssignee
    BY DEF Inv, Traced, TracedFrom, LogTellsAssignee, BeforesWere
  <1> QED
    BY <1>1, InvHolds, AssigneesTraced, PTL

\* Whoever walks through a list of tasks is abreast of it, page after page.
THEOREM WalksFit == Spec => []WalkFits
  <1>1. Init => WalkFits
    BY DEF Init, WalkFits
  <1> QED
    BY <1>1, WalkStep, InvHolds, PTL DEF Spec

\* The rows, the requests and what a client has seen of a list keep their types.
THEOREM TypeCorrect == Spec => []TypeOK
  <1>1. Inv /\ WalkFits => TypeOK
    BY DEF Inv, WalkFits, TypeOK
  <1> QED
    BY <1>1, InvHolds, WalksFit, PTL

\* findMany and buildPage: who walks through a list of tasks sees what stays in it, once,
\* however long the list, its pages and the walk, and whatever changes meanwhile.
THEOREM WalksSeeWhatStays == Spec => []ListSeesWhatStays
  <1>1. Inv /\ WalkFits => ListSeesWhatStays
    <2> SUFFICES ASSUME Inv, WalkFits, walk # Idle, ~unsure
                 PROVE  /\ walk.cursor = NoCursor
                              => walk.first \ touched \subseteq Range(walk.seen)
                        /\ \A i, j \in DOMAIN walk.seen :
                              walk.seen[i] = walk.seen[j] /\ walk.seen[i] \notin touched
                              => i = j
      BY DEF ListSeesWhatStays
    <2>1. DOMAIN walk.seen = 1..Len(walk.seen)
      BY DEF WalkFits
    <2> QED
      BY <2>1 DEF WalkFits, Abreast
  <1> QED
    BY <1>1, InvHolds, WalksFit, PTL

\* Every behaviour of the tasks is one of AuditedField: tasksService.update loses no change
\* of a status, and logs each with the status that was there.
THEOREM StatusKeepsAudit == Spec => StatusIsAudited
  <1>1. Init => Audit!Init
    BY DEF Init, Audit!Init, status, statusLog, NoRow
  <1>2. Inv /\ [Next]_vars => [Audit!Next]_<<status, statusLog>>
    BY AuditStep DEF AuditVars
  <1> QED
    BY <1>1, <1>2, InvHolds, PTL DEF Spec, StatusIsAudited, Audit!Spec

\* Where the assignments of a task come one at a time, task:assign:self only takes a task
\* that nobody has, as the comment on tasksService.assign says: it is only ever refuted by
\* another assignment of the same task between the read and the write.
THEOREM SelfAssignAlone == Spec /\ []OneAtATime => SelfAssignTakesUnassigned
  <1>1. Init => AssignsFit
    BY DEF Init, AssignsFit, AssignFits, Writes
  <1>2. AssignsFit =>
           \A r \in Requests :
              TakesFrom(r) => row[request[r].task].assignee \in {Nobody, request[r].actor}
    BY DEF AssignsFit, AssignFits, TakesFrom
  <1> QED
    BY <1>1, <1>2, AssignsStep, InvHolds, PTL DEF Spec, SelfAssignTakesUnassigned
=============================================================================
