------------------------------ MODULE Workspace ------------------------------
(***************************************************************************)
(* What the members of one organization and its API keys share: its        *)
(* labels, its projects, and of one task the labels and the comments.      *)
(* Clients walk through the lists of these page by page while they change. *)
(*                                                                         *)
(* A request is a step for each await that matters: the read of a row by   *)
(* requireLabel, requireComment or requireProject, the checks, the write   *)
(* by id.  The transaction that replaces the labels of a task is several   *)
(* steps: it runs at READ COMMITTED, each of its statements sees what is   *)
(* committed when it starts, and a DELETE waits for rows that another      *)
(* transaction has deleted and then leaves them alone.  A row that was     *)
(* inserted in the place of a deleted one is another row: the DELETE does  *)
(* not see it, and an INSERT of the same label fails.                      *)
(*                                                                         *)
(* Label names are folded to one case, as the index and the look-up see    *)
(* them; colours, texts and descriptions are left out.  Requests that the  *)
(* permission checks refuse change nothing and are left out.               *)
(***************************************************************************)
EXTENDS Permissions, Pagination

CONSTANTS
    Actors,         \* members with their roles and API keys with their scopes
    TaskCreator,    \* the user who created the task
    Requests,       \* requests, each made once; a walk through a list is one
    Names,          \* names of labels and keys of projects, in their order
    PageSize,
    \* bounds of a run
    MaxLabels, MaxComments, MaxProjects,
    MaxRollbacks    \* transactions that fail

ASSUME WorkspaceConstants ==
    /\ \A a \in Actors : a.type = "user" => a.user # "apiKey"
    /\ \E a \in Actors : a.type = "user" /\ a.user = TaskCreator
    /\ IsFiniteSet(Requests)
    /\ Names \subseteq Nat /\ {1, 2} \subseteq Names   \* as WorkspaceInit has them
    /\ PageSize \in Nat \ {0}
    /\ {MaxLabels, MaxComments, MaxProjects} \subseteq Nat \ {0, 1}
    /\ MaxRollbacks \in Nat

VARIABLES
    labels,       \* Label rows, in order of creation
    taskLabels,   \* the TaskLabel rows of the task
    comments,     \* Comment rows of the task, in order of creation
    projects,     \* Project rows, in order of creation
    activity,     \* TaskActivity rows of the task
    step,         \* where a request is
    req,          \* what it is about, and what it has read
    rollbacks,
    \* history, read by no action
    touched,      \* rows that left a list or moved in it during a walk through it
    unsure        \* walks whose cursor's row did

rows    == <<labels, taskLabels, comments, projects, activity>>
history == <<touched, unsure>>
vars == <<rows, step, req, rollbacks, history>>

None == [op |-> "none"]
Steps == {"new", "reading", "checking", "inserting", "writing",
          "listing", "deleting", "waiting", "replacing", "walking", "walked", "done"}

LabelRow   == [name : Names, erased : BOOLEAN]

\* "entry" is the entry of the log that the row's transaction made, 0 for a row from before
\* the log: it tells the row from others of the same label, which came and went.
TaskLabelRow == [label : Nat, entry : Nat]
LabelsOf(set) == {t.label : t \in set}

\* "editor" stands for the text: who wrote it, if the comment was ever edited.
Authors    == {a.user : a \in {b \in Actors : b.type = "user"}} \cup {"apiKey"}
CommentRow == [author : Authors, editor : Authors \cup {"nobody"}, deleted : BOOLEAN]
ProjectRow == [key : Names, status : {"ACTIVE", "ARCHIVED"}, deleted : BOOLEAN]

Erased == {l \in DOMAIN labels : labels[l].erased}
Live   == DOMAIN labels \ Erased

WorkspaceTypeOK ==
    /\ labels \in Seq(LabelRow) /\ Len(labels) <= MaxLabels
    /\ taskLabels \subseteq TaskLabelRow /\ LabelsOf(taskLabels) \subseteq Live
    /\ comments \in Seq(CommentRow) /\ Len(comments) <= MaxComments
    /\ projects \in Seq(ProjectRow) /\ Len(projects) <= MaxProjects
    /\ Len(activity) <= Cardinality(Requests)
    /\ \A e \in Range(activity) :
          \/ e.type = "COMMENT_ADDED" /\ e.comment \in DOMAIN comments
          \/ /\ e.type = "LABELS_CHANGED"
             /\ e.before \subseteq DOMAIN labels /\ e.after \subseteq DOMAIN labels
    /\ step \in [Requests -> Steps]
    /\ \A r \in Requests : req[r] = None <=> step[r] \in {"new", "done"}
    /\ rollbacks \in 0..MaxRollbacks
    \* the unique indexes: a label's name until it is erased, a project's key for ever, and
    \* the primary key of TaskLabel
    /\ \A t, u \in taskLabels : t.label = u.label => t = u
    /\ \A l, k \in Live : labels[l].name = labels[k].name => l = k
    /\ \A p, q \in DOMAIN projects : projects[p].key = projects[q].key => p = q

-----------------------------------------------------------------------------
At(r, s) == step[r] = s
Reads(r, op)  == At(r, "reading") /\ req[r].op = op
Writes(r, op) == At(r, "writing") /\ req[r].op = op

To(r, s) == step' = [step EXCEPT ![r] = s] /\ UNCHANGED req
Goes(r, s, what) == step' = [step EXCEPT ![r] = s] /\ req' = [req EXCEPT ![r] = what]
Ends(r) == Goes(r, "done", None)
EndsUnchanged(r) == Ends(r) /\ UNCHANGED <<rows, rollbacks>>

Named(n) == {l \in Live : labels[l].name = n}

\* isOwnTask; nobody is assigned to the task.
isOwnTask(a) == a.type = "user" /\ a.user = TaskCreator

\* Comment.authorId; a comment of a key has none.
AuthorOf(a) == IF a.type = "user" THEN a.user ELSE "apiKey"

LabelRoutes   == [createLabel |-> "label:manage", renameLabel |-> "label:manage",
                  eraseLabel |-> "label:manage"]
CommentRoutes == [comment |-> "comment:create", editComment |-> "comment:update:own"]
ProjectRoutes == [createProject |-> "project:create", archive |-> "project:update",
                  unarchive |-> "project:update", removeProject |-> "project:delete"]

Permitted(a, op) ==
    CASE op \in DOMAIN LabelRoutes   -> actorHasPermission(a, LabelRoutes[op])
      [] op \in DOMAIN CommentRoutes -> actorHasPermission(a, CommentRoutes[op])
      [] op \in DOMAIN ProjectRoutes -> actorHasPermission(a, ProjectRoutes[op])
      [] op = "setLabels" ->
            canActorActOnResource(a, "task:update:any", "task:update:own", isOwnTask(a))

\* requireUserId, and with it the check of the route of comments.
Author(a) == a.type = "user" /\ Permitted(a, "editComment")

\* A request is in hand: the caller and the body do not tell more about it than this.
Bodies ==
    LET Body(op, id, name) == [op |-> op, id |-> id, name |-> name] IN
         {Body("createLabel", 0, n) : n \in IF Len(labels) < MaxLabels THEN Names ELSE {}}
    \cup {Body("renameLabel", l, n) : l \in Live, n \in Names}
    \cup {Body("eraseLabel", l, 0) : l \in Live}
    \cup {[op |-> "setLabels", give |-> s] : s \in SUBSET Live}
    \cup {Body("createProject", 0, n) : n \in IF Len(projects) < MaxProjects THEN Names ELSE {}}
    \cup {Body(op, p, 0) : op \in {"archive", "unarchive", "removeProject"},
                           p \in {p \in DOMAIN projects : ~projects[p].deleted}}

Arrive(r) ==
    /\ At(r, "new")
    /\ \E q \in Bodies :
          /\ \E a \in Actors : Permitted(a, q.op)
          /\ Goes(r, IF q.op = "setLabels" THEN "checking" ELSE "reading", q)
    /\ UNCHANGED <<rows, rollbacks>>

-----------------------------------------------------------------------------
(* Labels *)

\* findByNameCaseInsensitive, of create.
CreateLabel(r) ==
    /\ Reads(r, "createLabel")
    /\ IF Named(req[r].name) = {} THEN To(r, "inserting") ELSE Ends(r)
    /\ UNCHANGED <<rows, rollbacks>>

\* FAULTY: without the index, what was looked up before decides.
InsertLabelUnindexed(r) ==
    /\ At(r, "inserting") /\ req[r].op = "createLabel"
    /\ Len(labels) < MaxLabels
    /\ labels' = Append(labels, [name |-> req[r].name, erased |-> FALSE])
    /\ Ends(r)
    /\ UNCHANGED <<taskLabels, comments, projects, activity, rollbacks>>

\* The index on the folded name decides.
InsertLabel(r) ==
    /\ At(r, "inserting") /\ req[r].op = "createLabel"
    /\ Len(labels) < MaxLabels
    /\ labels' = IF Named(req[r].name) = {}
                 THEN Append(labels, [name |-> req[r].name, erased |-> FALSE])
                 ELSE labels
    /\ Ends(r)
    /\ UNCHANGED <<taskLabels, comments, projects, activity, rollbacks>>

\* requireLabel.
FindLabel(r) ==
    /\ Reads(r, "renameLabel") \/ Reads(r, "eraseLabel")
    /\ IF req[r].id \notin Live THEN Ends(r)
       ELSE IF req[r].op = "renameLabel" /\ req[r].name # labels[req[r].id].name
            THEN To(r, "checking")
            ELSE To(r, "writing")
    /\ UNCHANGED <<rows, rollbacks>>

\* update asks for the name only if it is not the label's own.
CheckName(r) ==
    /\ At(r, "checking") /\ req[r].op = "renameLabel"
    /\ IF Named(req[r].name) = {} THEN To(r, "writing") ELSE Ends(r)
    /\ UNCHANGED <<rows, rollbacks>>

\* The update by id fails if the label has gone or the index has the name.
RenameLabel(r) ==
    /\ Writes(r, "renameLabel")
    /\ labels' = IF req[r].id \in Live /\ Named(req[r].name) \subseteq {req[r].id}
                 THEN [labels EXCEPT ![req[r].id].name = req[r].name]
                 ELSE labels
    /\ Ends(r)
    /\ UNCHANGED <<taskLabels, comments, projects, activity, rollbacks>>

\* Rows of the task that an open transaction has deleted; held in its request.
LockedRows == UNION {req[r].held : r \in {q \in Requests : At(q, "replacing")}}

\* The delete takes the label off every task (ON DELETE CASCADE), rows in the hands of
\* another transaction when that is over.
EraseLabel(r) ==
    /\ Writes(r, "eraseLabel")
    /\ req[r].id \notin LabelsOf(LockedRows)
    /\ IF req[r].id \in Live
       THEN /\ labels' = [labels EXCEPT ![req[r].id].erased = TRUE]
            /\ taskLabels' = {t \in taskLabels : t.label # req[r].id}
       ELSE UNCHANGED <<labels, taskLabels>>
    /\ Ends(r)
    /\ UNCHANGED <<comments, projects, activity, rollbacks>>

-----------------------------------------------------------------------------
(* The labels of the task *)

\* setTaskLabels, before its transaction: the labels are there.
FindLabels(r) ==
    /\ At(r, "checking") /\ req[r].op = "setLabels"
    /\ IF req[r].give \subseteq Live THEN To(r, "listing") ELSE Ends(r)
    /\ UNCHANGED <<rows, rollbacks>>

\* listForTask; "since" and "from", how long the log is by then, are for the properties.
ListForTask(r) ==
    /\ At(r, "listing")
    /\ Goes(r, "deleting", [op |-> "setLabels", give |-> req[r].give,
                            before |-> LabelsOf(taskLabels), since |-> Len(activity)])
    /\ UNCHANGED <<rows, rollbacks>>

\* deleteMany starts: these are the rows it sees, and it will see no others.
StartDelete(r) ==
    /\ At(r, "deleting")
    /\ Goes(r, "waiting", [op |-> "setLabels", give |-> req[r].give, before |-> req[r].before,
                           since |-> req[r].since, from |-> Len(activity), held |-> taskLabels])
    /\ UNCHANGED <<rows, rollbacks>>

\* deleteMany ends: no other transaction has any of its rows; those that have gone
\* meanwhile it skips, and it does not see what was inserted in their place.
FinishDelete(r) ==
    /\ At(r, "waiting")
    /\ req[r].held \cap LockedRows = {}
    /\ Goes(r, "replacing", [req[r] EXCEPT !.held = @ \cap taskLabels])
    /\ UNCHANGED <<rows, rollbacks>>

\* activityRepository.record, in the transaction of the change.
Recorded(entry) == Append(activity, entry)

Replaced(r) == [type |-> "LABELS_CHANGED", before |-> req[r].before, after |-> req[r].give,
                since |-> req[r].since, from |-> req[r].from]

\* createMany.
Inserted(set) == {[label |-> l, entry |-> Len(activity) + 1] : l \in set}

\* FAULTY: the new labels are added to the old ones.
ReplaceAdding(r) ==
    /\ At(r, "replacing")
    /\ IF req[r].give \subseteq Live
       THEN /\ taskLabels' = taskLabels \cup Inserted(req[r].give \ LabelsOf(taskLabels))
            /\ activity' = Append(activity, Replaced(r))
       ELSE UNCHANGED <<taskLabels, activity>>
    /\ Ends(r)
    /\ UNCHANGED <<labels, comments, projects, rollbacks>>

\* createMany, the entry and the commit.  An INSERT waits for a transaction that has deleted
\* the row of its label; a row that stands (primary key) or a label that has gone (foreign
\* key) rolls this one back.
Replace(r) ==
    /\ At(r, "replacing")
    /\ req[r].give \cap LabelsOf(LockedRows \ req[r].held) = {}
    /\ LET left == taskLabels \ req[r].held IN
       IF req[r].give \subseteq Live /\ req[r].give \cap LabelsOf(left) = {}
       THEN /\ taskLabels' = left \cup Inserted(req[r].give)
            /\ activity' = Recorded(Replaced(r))
       ELSE UNCHANGED <<taskLabels, activity>>
    /\ Ends(r)
    /\ UNCHANGED <<labels, comments, projects, rollbacks>>

\* A statement fails, as one of those that wait for each other does, or the process dies.
Rollback(r) ==
    /\ step[r] \in {"deleting", "waiting", "replacing"}
    /\ rollbacks < MaxRollbacks
    /\ rollbacks' = rollbacks + 1
    /\ Ends(r)
    /\ UNCHANGED rows

-----------------------------------------------------------------------------
(* Comments *)

\* create: the comment and its entry in one transaction.
CreateComment(r) ==
    /\ At(r, "new") /\ Len(comments) < MaxComments
    /\ \E a \in Actors :
          /\ Permitted(a, "comment")
          /\ comments' = Append(comments, [author |-> AuthorOf(a), editor |-> "nobody",
                                           deleted |-> FALSE])
          /\ activity' = Recorded([type |-> "COMMENT_ADDED", comment |-> Len(comments) + 1])
    /\ Ends(r)
    /\ UNCHANGED <<labels, taskLabels, projects, rollbacks>>

MayDelete(a, c) ==
    canActorActOnResource(a, "comment:delete:any", "comment:delete:own",
                          a.type = "user" /\ comments[c].author = a.user)

\* requireComment and the check of the author, of update and of remove.
FindComment(r, c) ==
    /\ At(r, "new")
    /\ ~comments[c].deleted
    /\ \E a \in Actors, op \in {"editComment", "deleteComment"} :
          /\ IF op = "deleteComment" THEN MayDelete(a, c)
             ELSE Author(a) /\ comments[c].author = a.user
          /\ Goes(r, "writing", [op |-> op, id |-> c, by |-> a, read |-> comments[c]])
    /\ UNCHANGED <<rows, rollbacks>>

\* FAULTY: the row that was read is written back as a whole.
EditWritingBack(r) ==
    /\ Writes(r, "editComment")
    /\ comments' = [comments EXCEPT ![req[r].id] = [req[r].read EXCEPT !.editor = AuthorOf(req[r].by)]]
    /\ Ends(r)
    /\ UNCHANGED <<labels, taskLabels, projects, activity, rollbacks>>

\* updateBody, by id alone: a comment deleted meanwhile is edited all the same.
EditComment(r) ==
    /\ Writes(r, "editComment")
    /\ comments' = [comments EXCEPT ![req[r].id].editor = AuthorOf(req[r].by)]
    /\ Ends(r)
    /\ UNCHANGED <<labels, taskLabels, projects, activity, rollbacks>>

DeleteComment(r) ==
    /\ Writes(r, "deleteComment")
    /\ comments' = [comments EXCEPT ![req[r].id].deleted = TRUE]
    /\ Ends(r)
    /\ UNCHANGED <<labels, taskLabels, projects, activity, rollbacks>>

-----------------------------------------------------------------------------
(* Projects *)

\* findByKey, of create: projects that were removed are not looked at.
CreateProject(r) ==
    /\ Reads(r, "createProject")
    /\ IF \E p \in Range(projects) : p.key = req[r].name /\ ~p.deleted
       THEN Ends(r) ELSE To(r, "inserting")
    /\ UNCHANGED <<rows, rollbacks>>

\* The index has their keys too: such an insert fails, whatever create has found.
InsertProject(r) ==
    /\ At(r, "inserting") /\ req[r].op = "createProject"
    /\ Len(projects) < MaxProjects
    /\ projects' = IF \E p \in Range(projects) : p.key = req[r].name THEN projects
                   ELSE Append(projects, [key |-> req[r].name, status |-> "ACTIVE",
                                          deleted |-> FALSE])
    /\ Ends(r)
    /\ UNCHANGED <<labels, taskLabels, comments, activity, rollbacks>>

\* requireProject, and the check of archive or unarchive.
FindProject(r) ==
    /\ \E op \in {"archive", "unarchive", "removeProject"} : Reads(r, op)
    /\ LET p == projects[req[r].id] IN
       IF \/ p.deleted
          \/ req[r].op = "archive" /\ p.status = "ARCHIVED"
          \/ req[r].op = "unarchive" /\ p.status = "ACTIVE"
       THEN Ends(r) ELSE To(r, "writing")
    /\ UNCHANGED <<rows, rollbacks>>

\* updateStatus, by id alone.
SetStatus(r) ==
    /\ Writes(r, "archive") \/ Writes(r, "unarchive")
    /\ projects' = [projects EXCEPT ![req[r].id].status =
                        IF req[r].op = "archive" THEN "ARCHIVED" ELSE "ACTIVE"]
    /\ Ends(r)
    /\ UNCHANGED <<labels, taskLabels, comments, activity, rollbacks>>

RemoveProject(r) ==
    /\ Writes(r, "removeProject")
    /\ projects' = [projects EXCEPT ![req[r].id].deleted = TRUE]
    /\ Ends(r)
    /\ UNCHANGED <<labels, taskLabels, comments, activity, rollbacks>>

-----------------------------------------------------------------------------
(* Walks: a client asks for the first page of a list and then for the page *)
(* of each cursor it is given.                                             *)

Lists == {"labels", "comments", "projects", "active projects", "activity"}

\* The where of each list.
Listed(list) ==
    CASE list = "labels"   -> Live
      [] list = "comments" -> {c \in DOMAIN comments : ~comments[c].deleted}
      [] list = "projects" -> {p \in DOMAIN projects : ~projects[p].deleted}
      [] list = "activity" -> DOMAIN activity
      [] list = "active projects" ->
            {p \in DOMAIN projects : ~projects[p].deleted /\ projects[p].status = "ACTIVE"}

NewestFirst(table) == [i \in DOMAIN table |-> -i]

\* The orderBy of each list, over the rows of its table: labels by name, comments from
\* the oldest on, projects and the activity log from the newest on.
Place(list) ==
    CASE list = "labels"   -> [l \in Live |-> labels[l].name]
      [] list = "comments" -> [c \in DOMAIN comments |-> c]
      [] list = "activity" -> NewestFirst(activity)
      [] OTHER             -> NewestFirst(projects)

Page(list, cursor) == buildPage(findMany(Listed(list), Place(list), cursor, PageSize), PageSize)

\* The client has the page; "first" is for the properties.
HasPage(r, list, seen, first, page) ==
    Goes(r, IF page.nextCursor = NoCursor THEN "walked" ELSE "walking",
         [op |-> "walk", list |-> list, seen |-> seen \o page.data,
          cursor |-> page.nextCursor, first |-> first])

StartWalk(r, list) ==
    /\ At(r, "new")
    /\ HasPage(r, list, <<>>, Listed(list), Page(list, NoCursor))
    /\ UNCHANGED <<rows, rollbacks>>

NextPage(r) ==
    /\ At(r, "walking")
    /\ HasPage(r, req[r].list, req[r].seen, req[r].first, Page(req[r].list, req[r].cursor))
    /\ UNCHANGED <<rows, rollbacks>>

-----------------------------------------------------------------------------
WorkspaceInit ==
    /\ labels = <<[name |-> 1, erased |-> FALSE], [name |-> 2, erased |-> FALSE]>>
    /\ taskLabels = {[label |-> 1, entry |-> 0]}
    /\ comments = <<[author |-> TaskCreator, editor |-> "nobody", deleted |-> FALSE],
                    [author |-> "apiKey", editor |-> "nobody", deleted |-> FALSE]>>
    /\ projects = <<[key |-> 1, status |-> "ACTIVE", deleted |-> FALSE],
                    [key |-> 2, status |-> "ACTIVE", deleted |-> FALSE]>>
    /\ activity = <<>>
    /\ step = [r \in Requests |-> "new"] /\ req = [r \in Requests |-> None]
    /\ rollbacks = 0
    /\ touched = [r \in Requests |-> {}] /\ unsure = {}

LabelStep(r) ==
    \/ CreateLabel(r) \/ InsertLabel(r)
    \/ FindLabel(r) \/ CheckName(r) \/ RenameLabel(r) \/ EraseLabel(r)
    \/ FindLabels(r) \/ ListForTask(r) \/ StartDelete(r) \/ FinishDelete(r) \/ Replace(r)
    \/ Rollback(r)

CommentStep(r) ==
    \/ CreateComment(r) \/ EditComment(r) \/ DeleteComment(r)
    \/ \E c \in DOMAIN comments : FindComment(r, c)

ProjectStep(r) ==
    CreateProject(r) \/ InsertProject(r) \/ FindProject(r) \/ SetStatus(r) \/ RemoveProject(r)

\* What of a list leaves it or moves in it in this step.
Moved(list) ==
    {i \in Listed(list) : i \notin Listed(list)' \/ Place(list)[i] # Place(list)'[i]}

Track ==
    LET moved == [list \in Lists |-> Moved(list)]
        walks == {r \in Requests : At(r, "walking")}
    IN /\ touched' = [r \in Requests |-> IF r \in walks THEN touched[r] \cup moved[req[r].list]
                                         ELSE touched[r]]
       /\ unsure' = unsure \cup {r \in walks : req[r].cursor \in moved[req[r].list]}

WorkspaceNext ==
    /\ \E r \in Requests :
          \/ Arrive(r)
          \/ LabelStep(r) \/ CommentStep(r) \/ ProjectStep(r)
          \/ \E list \in Lists : StartWalk(r, list)
          \/ NextPage(r)
    /\ Track

WorkspaceSpec == WorkspaceInit /\ [][WorkspaceNext]_vars

-----------------------------------------------------------------------------
(* Properties *)

\* The replacements of the task's labels that were committed, as entries of the log.
Replacements == {i \in DOMAIN activity : activity[i].type = "LABELS_CHANGED"}

\* Of the first n entries of the log, i is the last replacement.
Newest(i, n) == i \in Replacements /\ i <= n /\ \A k \in Replacements : k <= n => k <= i

\* What replacement i leaves, if no other follows: the labels it asked for, but for erased
\* ones, and of those the replacements asked for that committed after its DELETE began.
Leaves(i, set) ==
    LET meanwhile == {k \in Replacements : activity[i].from < k /\ k < i} IN
    /\ activity[i].after \ set \subseteq Erased
    /\ set \subseteq activity[i].after \cup UNION {activity[k].after : k \in meanwhile}

\* "Replaces a task's whole label set in one call" (labels.service.ts:40), at READ
\* COMMITTED: the labels of the task are those the last replacement has left.  And "the
\* before/after name lists" (labels.service.ts:41): the before of an entry is what the
\* replacement has left that was the last when its transaction read the labels.
LabelsAsAsked ==
    /\ \A i \in Replacements : Newest(i, Len(activity)) => Leaves(i, LabelsOf(taskLabels))
    /\ \A i, k \in Replacements : Newest(k, activity[i].since) => Leaves(k, activity[i].before)

\* The entries of the log about comment c.
EntriesOf(c) ==
    {i \in DOMAIN activity : activity[i].type = "COMMENT_ADDED" /\ activity[i].comment = c}

\* A deleted comment stays deleted, whatever request that read it before writes to it
\* afterwards.  Whoever edits a comment is the user who wrote it, so a comment of a key is
\* edited by nobody (comments.service.ts:33).  The transaction that creates a comment makes
\* its one entry, and no other makes or drops an entry about it.
CommentsSettle ==
    [][/\ \A c \in DOMAIN comments : comments[c].deleted => comments'[c].deleted
       /\ \A c \in DOMAIN comments' :
            comments'[c].editor # "nobody" => /\ comments'[c].editor = comments'[c].author
                                              /\ comments'[c].editor # "apiKey"
       /\ \A c \in DOMAIN comments' :
            IF c \in DOMAIN comments THEN EntriesOf(c)' = EntriesOf(c)
            ELSE \E i \in DOMAIN activity' \ DOMAIN activity : EntriesOf(c)' = {i}]_vars

\* "traverses the full set exactly once" (adr/0006): who walks a list to its end sees every
\* row that was in it all the time and did not move, and none of these twice, however the
\* list changes around them; but for walks whose cursor's row left the list or moved while
\* the client held the cursor.  Rows that come in are not seen twice either.
WalkSeesWhatStays ==
    \A r \in Requests \ unsure : step[r] \in {"walking", "walked"} =>
        LET seen == req[r].seen
            stay == req[r].first \ touched[r]
        IN /\ At(r, "walked") => stay \subseteq Range(seen)
           /\ \A i, j \in DOMAIN seen : seen[i] = seen[j] /\ seen[i] \notin touched[r] => i = j
=============================================================================
