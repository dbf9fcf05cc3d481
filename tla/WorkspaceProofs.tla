---------------------------- MODULE WorkspaceProofs ----------------------------
(***************************************************************************)
(* Theorems about Workspace, for any members, keys and requests and any    *)
(* number of labels, comments, projects and rollbacks; and about its run   *)
(* beside EmailVerification in MCWorkspace.                                *)
(***************************************************************************)
EXTENDS MCWorkspace, EmailVerificationProofs, PaginationProofs

-----------------------------------------------------------------------------
(* The inductive invariant.                                                *)

LabelsOK ==
    /\ labels \in Seq(LabelRow) /\ Len(labels) <= MaxLabels
    /\ taskLabels \subseteq TaskLabelRow /\ LabelsOf(taskLabels) \subseteq Live
    /\ \A t, u \in taskLabels : t.label = u.label => t = u
    /\ \A l, k \in Live : labels[l].name = labels[k].name => l = k

CommentsOK ==
    /\ comments \in Seq(CommentRow) /\ Len(comments) <= MaxComments
    /\ \A c \in DOMAIN comments :
          comments[c].editor # "nobody" => /\ comments[c].editor = comments[c].author
                                           /\ comments[c].editor # "apiKey"

ProjectsOK ==
    /\ projects \in Seq(ProjectRow) /\ Len(projects) <= MaxProjects
    /\ \A p, q \in DOMAIN projects : projects[p].key = projects[q].key => p = q

CommentEntry == [type : {"COMMENT_ADDED"}, comment : Nat]
LabelsEntry == [type : {"LABELS_CHANGED"}, before : SUBSET Nat, after : SUBSET Nat,
                since : Nat, from : Nat]

CommentEntries == {i \in DOMAIN activity : activity[i].type = "COMMENT_ADDED"}
Done == {r \in Requests : step[r] = "done"}

\* An entry is about rows that are there, and a replacement read what was committed before it.
LogOK ==
    /\ activity \in Seq(CommentEntry \cup LabelsEntry)
    /\ \A i \in CommentEntries : activity[i].comment \in DOMAIN comments
    /\ \A i \in Replacements :
          /\ activity[i].before \subseteq DOMAIN labels /\ activity[i].after \subseteq DOMAIN labels
          /\ activity[i].since < i
    /\ Len(activity) <= Cardinality(Done)

Replacing == [op : {"setLabels"}, give : SUBSET Nat, before : SUBSET Nat, since : Nat,
              from : Nat, held : SUBSET TaskLabelRow]

\* What a request that will write holds.
RequestOK(r) ==
    /\ req[r] = None <=> step[r] \in {"new", "done"}
    /\ step[r] \in {"reading", "inserting", "checking", "writing"}
       /\ req[r].op \in {"createLabel", "renameLabel", "createProject"}
       => req[r].name \in Names
    /\ Writes(r, "editComment") =>
          /\ req[r].id \in DOMAIN comments
          /\ AuthorOf(req[r].by) = comments[req[r].id].author
          /\ AuthorOf(req[r].by) # "apiKey"
    /\ step[r] \in {"listing", "deleting"} => req[r].give \in SUBSET Nat
    /\ step[r] \in {"waiting", "replacing"} =>
          /\ req[r] \in Replacing
          /\ req[r].from <= Len(activity)
    /\ step[r] \in {"deleting", "waiting", "replacing"} =>
          /\ req[r].before \subseteq DOMAIN labels
          /\ req[r].since \in Nat /\ req[r].since <= Len(activity)

RequestsOK ==
    /\ step \in [Requests -> Steps]
    /\ req = [r \in Requests |-> req[r]]
    /\ \A r \in Requests : RequestOK(r)
    /\ rollbacks \in 0..MaxRollbacks

\* A replacement under way has read what the last one before it had left, and what it has
\* not deleted by the end of its DELETE, others have put there since that began.
Foreseen(r) ==
    /\ step[r] \in {"deleting", "waiting", "replacing"} =>
          \A i \in Replacements : Newest(i, req[r].since) => Leaves(i, req[r].before)
    /\ step[r] \in {"waiting", "replacing"} =>
          \A t \in taskLabels \ req[r].held :
              \E i \in Replacements : req[r].from < i /\ t.label \in activity[i].after

Inv == /\ LabelsOK /\ CommentsOK /\ ProjectsOK /\ LogOK /\ RequestsOK /\ LabelsAsAsked
       /\ \A r \in Requests : Foreseen(r)

-----------------------------------------------------------------------------
(* Requests.                                                               *)

\* The rows a request may know of stay, and keep their authors.
RowsStay ==
    /\ DOMAIN labels \subseteq DOMAIN labels'
    /\ Len(activity) \in Nat /\ Len(activity') \in Nat /\ Len(activity) <= Len(activity')
    /\ \A c \in DOMAIN comments : c \in DOMAIN comments'
                                 /\ comments'[c].author = comments[c].author

LEMMA OpIsNotNone ==
  ASSUME NEW x, x.op # "none"
  PROVE  x # None
  BY DEF None

LEMMA GoesChanges ==
  ASSUME RequestsOK, NEW r \in Requests, NEW s \in Steps, NEW what, Goes(r, s, what)
  PROVE  /\ step' \in [Requests -> Steps] /\ req' = [q \in Requests |-> req'[q]]
         /\ step'[r] = s /\ req'[r] = what
         /\ \A q \in Requests \ {r} : step'[q] = step[q] /\ req'[q] = req[q]
  BY DEF RequestsOK, Goes

LEMMA ToIsGoes ==
  ASSUME RequestsOK, NEW r \in Requests, NEW s, To(r, s)
  PROVE  Goes(r, s, req[r])
  BY DEF RequestsOK, To, Goes

LEMMA RequestsStep ==
  ASSUME RequestsOK, RowsStay, NEW r \in Requests, NEW s \in Steps, NEW what,
         Goes(r, s, what), RequestOK(r)', rollbacks' \in 0..MaxRollbacks
  PROVE  RequestsOK'
  <1>1. /\ step' \in [Requests -> Steps] /\ req' = [q \in Requests |-> req'[q]]
        /\ \A q \in Requests \ {r} : step'[q] = step[q] /\ req'[q] = req[q]
    BY GoesChanges
  <1>2. ASSUME NEW q \in Requests \ {r}
        PROVE  RequestOK(q)'
    <2>1. step'[q] = step[q] /\ req'[q] = req[q]
      BY <1>1
    <2>2. RequestOK(q)
      BY DEF RequestsOK
    <2>3. /\ (req[q] = None <=> step[q] \in {"new", "done"})'
          /\ (step[q] \in {"reading", "inserting", "checking", "writing"}
              /\ req[q].op \in {"createLabel", "renameLabel", "createProject"}
              => req[q].name \in Names)'
          /\ (step[q] \in {"listing", "deleting"} => req[q].give \in SUBSET Nat)'
      BY <2>1, <2>2 DEF RequestOK, None
    <2>4. (Writes(q, "editComment") =>
              /\ req[q].id \in DOMAIN comments
              /\ AuthorOf(req[q].by) = comments[req[q].id].author
              /\ AuthorOf(req[q].by) # "apiKey")'
      BY <2>1, <2>2 DEF RequestOK, Writes, At, RowsStay, AuthorOf
    <2>5. (step[q] \in {"waiting", "replacing"} =>
              req[q] \in Replacing /\ req[q].from <= Len(activity))'
      BY <2>1, <2>2 DEF RequestOK, RowsStay, Replacing
    <2>6. (step[q] \in {"deleting", "waiting", "replacing"} =>
              /\ req[q].before \subseteq DOMAIN labels
              /\ req[q].since \in Nat /\ req[q].since <= Len(activity))'
      BY <2>1, <2>2 DEF RequestOK, RowsStay
    <2> QED
      BY <2>3, <2>4, <2>5, <2>6 DEF RequestOK
  <1> QED
    BY <1>1, <1>2 DEF RequestsOK

\* A request that is over knows nothing.
LEMMA EndedOK ==
  ASSUME RequestsOK, NEW r \in Requests, Ends(r)
  PROVE  /\ Goes(r, "done", None) /\ "done" \in Steps
         /\ RequestOK(r)' /\ Foreseen(r)'
  <1>1. Goes(r, "done", None) /\ "done" \in Steps
    BY DEF Ends, Steps
  <1>2. step'[r] = "done" /\ req'[r] = None
    BY <1>1, GoesChanges
  <1>3. RequestOK(r)'
    BY <1>2 DEF RequestOK, Writes, At, None
  <1>4. Foreseen(r)'
    BY <1>2 DEF Foreseen
  <1> QED
    BY <1>1, <1>3, <1>4

-----------------------------------------------------------------------------
(* The log.                                                                *)

LEMMA LogRows ==
  ASSUME LogOK
  PROVE  /\ Len(activity) \in Nat /\ DOMAIN activity = 1..Len(activity)
         /\ \A i \in DOMAIN activity : activity[i] \in CommentEntry \cup LabelsEntry
         /\ \A i \in Replacements : activity[i] \in LabelsEntry
         /\ \A i \in CommentEntries : activity[i] \in CommentEntry
  <1>1. /\ Len(activity) \in Nat /\ DOMAIN activity = 1..Len(activity)
        /\ \A i \in DOMAIN activity : activity[i] \in CommentEntry \cup LabelsEntry
    BY DEF LogOK
  <1>2. \A e \in CommentEntry : e.type = "COMMENT_ADDED"
    BY DEF CommentEntry
  <1>3. \A e \in LabelsEntry : e.type = "LABELS_CHANGED"
    BY DEF LabelsEntry
  <1> QED
    BY <1>1, <1>2, <1>3 DEF Replacements, CommentEntries

\* A request that is over has made at most one entry.
LEMMA LogCounted ==
  ASSUME RequestsOK, Len(activity) \in Nat, Len(activity) <= Cardinality(Done),
         NEW r \in Requests, NEW s \in Steps, NEW what, Goes(r, s, what), step[r] # "done",
         Len(activity') \in Nat,
         Len(activity') <= Len(activity) \/ (s = "done" /\ Len(activity') <= Len(activity) + 1)
  PROVE  Len(activity') <= Cardinality(Done')
  <1> DEFINE before == Done
             after == Done'
  <1>1. step'[r] = s /\ \A q \in Requests \ {r} : step'[q] = step[q]
    BY GoesChanges
  <1>2. before \in SUBSET Requests /\ after \in SUBSET Requests /\ r \notin before
    BY DEF Done
  <1>3. after = IF s = "done" THEN before \cup {r} ELSE before
    BY <1>1 DEF Done
  <1>4. Len(activity) <= Cardinality(before)
    OBVIOUS
  <1> HIDE DEF before, after
  <1>5. IsFiniteSet(before)
    BY <1>2, FS_Subset, WorkspaceConstants
  <1>6. Cardinality(before) \in Nat
    BY <1>5, FS_CardinalityType
  <1>7. Cardinality(before \cup {r}) = Cardinality(before) + 1
    BY <1>2, <1>5, FS_AddElement
  <1>8. Len(activity') <= Cardinality(after)
    BY <1>3, <1>4, <1>6, <1>7
  <1> QED
    BY <1>8 DEF after

\* Where the log is as it was and the task has lost erased labels at most, all that is
\* known of replacements holds on.
LEMMA HistoryKept ==
  ASSUME LabelsAsAsked, activity' = activity, Erased \subseteq Erased',
         taskLabels' \subseteq taskLabels, \A t \in taskLabels \ taskLabels' : t.label \in Erased'
  PROVE  /\ LabelsAsAsked'
         /\ \A q \in Requests :
               Foreseen(q) /\ step'[q] = step[q] /\ req'[q] = req[q] => Foreseen(q)'
  <1>1. Replacements' = Replacements /\ \A i, n : Newest(i, n)' <=> Newest(i, n)
    BY DEF Replacements, Newest
  <1>2. \A i, set : Leaves(i, set) => Leaves(i, set)'
    BY DEF Leaves, Replacements
  <1>3. /\ LabelsOf(taskLabels') \subseteq LabelsOf(taskLabels)
        /\ LabelsOf(taskLabels) \ LabelsOf(taskLabels') \subseteq Erased'
    BY DEF LabelsOf
  <1>4. \A i \in Replacements' :
            (Newest(i, Len(activity)) => Leaves(i, LabelsOf(taskLabels)))'
    <2> SUFFICES ASSUME NEW i \in Replacements', Newest(i, Len(activity))'
                 PROVE  Leaves(i, LabelsOf(taskLabels))'
      OBVIOUS
    <2>1. PICK old, new : old = LabelsOf(taskLabels) /\ new = LabelsOf(taskLabels')
      OBVIOUS
    <2>2. Leaves(i, old)
      BY <1>1, <2>1 DEF LabelsAsAsked, Newest
    <2>3. Leaves(i, new)'
      BY <1>3, <2>1, <2>2 DEF Leaves, Replacements
    <2> QED
      BY <2>1, <2>3 DEF Leaves, Replacements, LabelsOf
  <1>5. \A i, k \in Replacements' :
            (Newest(k, activity[i].since) => Leaves(k, activity[i].before))'
    <2> SUFFICES ASSUME NEW i \in Replacements', NEW k \in Replacements',
                        Newest(k, activity[i].since)'
                 PROVE  Leaves(k, activity[i].before)'
      OBVIOUS
    <2>1. Leaves(k, activity[i].before)
      BY <1>1 DEF LabelsAsAsked, Newest
    <2> QED
      BY <2>1 DEF Leaves, Replacements
  <1>6. ASSUME NEW q \in Requests, Foreseen(q), step'[q] = step[q], req'[q] = req[q]
        PROVE  Foreseen(q)'
    <2>1. ASSUME step[q] \in {"deleting", "waiting", "replacing"}, NEW i \in Replacements',
                 Newest(i, req[q].since)'
          PROVE  Leaves(i, req[q].before)'
      <3>1. Leaves(i, req[q].before)
        BY <1>1, <1>6, <2>1 DEF Foreseen, Newest
      <3> QED
        BY <1>6, <3>1 DEF Leaves, Replacements
    <2>2. step[q] \in {"waiting", "replacing"} =>
              \A t \in taskLabels' \ req[q].held :
                  \E i \in Replacements : req[q].from < i /\ t.label \in activity[i].after
      BY <1>6 DEF Foreseen
    <2> QED
      BY <1>1, <1>6, <2>1, <2>2 DEF Foreseen
  <1> QED
    BY <1>4, <1>5, <1>6 DEF LabelsAsAsked

\* An entry is added behind the others, which stay what they were.
LEMMA LogGrown ==
  ASSUME LogOK, NEW e \in CommentEntry \cup LabelsEntry, activity' = Append(activity, e)
  PROVE  /\ activity' \in Seq(CommentEntry \cup LabelsEntry)
         /\ Len(activity') = Len(activity) + 1
         /\ DOMAIN activity' = DOMAIN activity \cup {Len(activity) + 1}
         /\ \A i \in DOMAIN activity : activity'[i] = activity[i] /\ i \in Nat /\ i <= Len(activity)
         /\ activity'[Len(activity) + 1] = e
         /\ Replacements \subseteq Replacements'
         /\ Replacements' \subseteq Replacements \cup {Len(activity) + 1}
         /\ Len(activity) + 1 \in Replacements' <=> e.type = "LABELS_CHANGED"
  <1> DEFINE E == CommentEntry \cup LabelsEntry
             n == Len(activity)
  <1>1. n \in Nat /\ DOMAIN activity = 1..n
    BY LogRows
  <1>2. activity \in Seq(E) /\ e \in E
    BY DEF LogOK
  <1> HIDE DEF E
  <1>3. /\ activity' \in Seq(E) /\ Len(activity') = n + 1
        /\ \A i \in 1..n : activity'[i] = activity[i]
        /\ activity'[n + 1] = e
    BY <1>2, AppendProperties
  <1>4. DOMAIN activity' = 1..Len(activity')
    BY <1>3, LenProperties
  <1> HIDE DEF n
  <1>5. DOMAIN activity' = DOMAIN activity \cup {n + 1} /\ n + 1 \notin DOMAIN activity
    BY <1>1, <1>3, <1>4
  <1>6. \A i \in DOMAIN activity : activity'[i] = activity[i] /\ i \in Nat /\ i <= n
    BY <1>1, <1>3
  <1>7. /\ Replacements \subseteq Replacements'
        /\ Replacements' \subseteq Replacements \cup {n + 1}
        /\ n + 1 \in Replacements' <=> e.type = "LABELS_CHANGED"
    BY <1>3, <1>5, <1>6 DEF Replacements
  <1> QED
    BY <1>3, <1>5, <1>6, <1>7 DEF E, n

\* What the log says of its first entries does not change when it grows.
LEMMA PastKept ==
  ASSUME LogOK, NEW e \in CommentEntry \cup LabelsEntry, activity' = Append(activity, e),
         Erased \subseteq Erased'
  PROVE  /\ \A i, n : n \in Nat /\ n <= Len(activity) => (Newest(i, n)' <=> Newest(i, n))
         /\ \A i, set : i \in Replacements /\ Leaves(i, set) => Leaves(i, set)'
  <1>1. /\ \A i \in DOMAIN activity : activity'[i] = activity[i] /\ i \in Nat /\ i <= Len(activity)
        /\ Replacements \subseteq Replacements'
        /\ Replacements' \subseteq Replacements \cup {Len(activity) + 1}
    BY LogGrown
  <1>2. Len(activity) \in Nat /\ Replacements \subseteq DOMAIN activity
    BY LogRows DEF Replacements
  <1>3. ASSUME NEW i, NEW n \in Nat, n <= Len(activity)
        PROVE  Newest(i, n)' <=> Newest(i, n)
    <2>1. \A k \in Replacements' : k <= n => k \in Replacements
      BY <1>1, <1>2, <1>3
    <2> QED
      BY <1>1, <2>1 DEF Newest
  <1>4. ASSUME NEW i \in Replacements, NEW set, Leaves(i, set)
        PROVE  Leaves(i, set)'
    <2>1. activity'[i] = activity[i]
      BY <1>1, <1>2
    <2>2. \A k \in Replacements : k \in Replacements' /\ activity'[k].after = activity[k].after
      BY <1>1, <1>2
    <2> QED
      BY <1>4, <2>1, <2>2 DEF Leaves
  <1> QED
    BY <1>3, <1>4

-----------------------------------------------------------------------------
(* Steps that leave the log alone.                                         *)

\* Without an entry, the log is about rows that are still there.
LEMMA SameLog ==
  ASSUME LogOK, RequestsOK, activity' = activity,
         DOMAIN labels \subseteq DOMAIN labels', DOMAIN comments \subseteq DOMAIN comments',
         NEW r \in Requests, NEW s \in Steps, NEW what, Goes(r, s, what), step[r] # "done"
  PROVE  LogOK'
  <1>1. Len(activity) \in Nat /\ Len(activity) <= Cardinality(Done)
    BY LogRows DEF LogOK
  <1>2. Len(activity') <= Cardinality(Done')
    BY <1>1, LogCounted
  <1>3. CommentEntries' = CommentEntries /\ Replacements' = Replacements
    BY DEF CommentEntries, Replacements
  <1> QED
    BY <1>2, <1>3 DEF LogOK

\* A request goes on, and no row is changed.
LEMMA QuietStep ==
  ASSUME Inv, NEW r \in Requests, NEW s \in Steps, NEW what, Goes(r, s, what),
         step[r] # "done", UNCHANGED rows, rollbacks' \in 0..MaxRollbacks,
         RequestOK(r)', Foreseen(r)'
  PROVE  Inv'
  <1>1. /\ UNCHANGED <<labels, taskLabels, comments, projects, activity>>
        /\ LabelsOK /\ CommentsOK /\ ProjectsOK /\ LogOK /\ RequestsOK /\ LabelsAsAsked
    BY DEF Inv, rows
  <1>2. LabelsOK' /\ CommentsOK' /\ ProjectsOK' /\ Erased' = Erased
    BY <1>1 DEF LabelsOK, CommentsOK, ProjectsOK, Live, Erased
  <1>3. LogOK'
    BY <1>1, SameLog
  <1>4. RowsStay
    BY <1>1, LogRows DEF RowsStay
  <1>5. RequestsOK'
    BY <1>1, <1>4, RequestsStep
  <1>6. \A q \in Requests \ {r} : step'[q] = step[q] /\ req'[q] = req[q]
    BY <1>1, GoesChanges
  <1>7. LabelsAsAsked' /\ \A q \in Requests \ {r} : Foreseen(q)'
    BY <1>1, <1>2, <1>6, HistoryKept DEF Inv
  <1> QED
    BY <1>2, <1>3, <1>5, <1>7 DEF Inv

\* A request ends, and none of the rows it leaves breaks what holds of them.
LEMMA RowStep ==
  ASSUME Inv, NEW r \in Requests, Ends(r), step[r] # "done",
         rollbacks' \in 0..MaxRollbacks, activity' = activity,
         LabelsOK', CommentsOK', ProjectsOK',
         DOMAIN labels \subseteq DOMAIN labels', Erased \subseteq Erased',
         taskLabels' \subseteq taskLabels, \A t \in taskLabels \ taskLabels' : t.label \in Erased',
         \A c \in DOMAIN comments : c \in DOMAIN comments'
                                  /\ comments'[c].author = comments[c].author
  PROVE  Inv'
  <1>1. LogOK /\ RequestsOK /\ LabelsAsAsked
    BY DEF Inv
  <1>2. /\ Goes(r, "done", None) /\ "done" \in Steps
        /\ RequestOK(r)' /\ Foreseen(r)'
    BY <1>1, EndedOK
  <1>3. LogOK'
    BY <1>1, <1>2, SameLog
  <1>4. RowsStay
    BY <1>1, LogRows DEF RowsStay
  <1>5. RequestsOK'
    BY <1>1, <1>2, <1>4, RequestsStep
  <1>6. \A q \in Requests \ {r} : step'[q] = step[q] /\ req'[q] = req[q]
    BY <1>1, <1>2, GoesChanges
  <1>7. LabelsAsAsked' /\ \A q \in Requests \ {r} : Foreseen(q)'
    BY <1>1, <1>6, HistoryKept DEF Inv
  <1> QED
    BY <1>2, <1>3, <1>5, <1>7 DEF Inv

\* A request ends with an entry in the log.
LEMMA EntryStep ==
  ASSUME Inv, NEW r \in Requests, Ends(r), step[r] # "done", UNCHANGED rollbacks,
         NEW e \in CommentEntry \cup LabelsEntry, activity' = Append(activity, e),
         labels' = labels,
         LabelsOK', CommentsOK', ProjectsOK', LabelsAsAsked',
         \A q \in Requests \ {r} : Foreseen(q)',
         \A c \in DOMAIN comments : c \in DOMAIN comments'
                                  /\ comments'[c].author = comments[c].author,
         e.type = "COMMENT_ADDED" => e.comment \in DOMAIN comments',
         e.type = "LABELS_CHANGED" => /\ e.before \subseteq DOMAIN labels
                                      /\ e.after \subseteq DOMAIN labels
                                      /\ e.since <= Len(activity)
  PROVE  Inv'
  <1>1. LogOK /\ RequestsOK /\ LabelsAsAsked
    BY DEF Inv
  <1>2. /\ Goes(r, "done", None) /\ "done" \in Steps
        /\ RequestOK(r)' /\ Foreseen(r)'
    BY <1>1, EndedOK
  <1>3. /\ activity' \in Seq(CommentEntry \cup LabelsEntry)
        /\ Len(activity') = Len(activity) + 1
        /\ DOMAIN activity' = DOMAIN activity \cup {Len(activity) + 1}
        /\ \A i \in DOMAIN activity : activity'[i] = activity[i] /\ i \in Nat /\ i <= Len(activity)
        /\ activity'[Len(activity) + 1] = e
        /\ Replacements' \subseteq Replacements \cup {Len(activity) + 1}
        /\ Len(activity) + 1 \in Replacements' <=> e.type = "LABELS_CHANGED"
    BY <1>1, LogGrown
  <1>4. /\ Len(activity) \in Nat /\ DOMAIN activity = 1..Len(activity)
        /\ \A i \in Replacements : activity[i] \in LabelsEntry
    BY <1>1, LogRows
  <1>5. RowsStay
    BY <1>3, <1>4 DEF RowsStay
  <1>6. RequestsOK'
    BY <1>1, <1>2, <1>5, RequestsStep DEF RequestsOK
  <1>7. LogOK'
    <2>1. Len(activity') <= Cardinality(Done')
      <3>1. Len(activity) <= Cardinality(Done)
        BY <1>1 DEF LogOK
      <3>2. Len(activity') \in Nat /\ Len(activity') <= Len(activity) + 1
        BY <1>3, <1>4
      <3> QED
        BY <1>1, <1>2, <1>4, <3>1, <3>2, LogCounted
    <2>2. CommentEntries' \subseteq CommentEntries \cup {Len(activity) + 1}
          /\ (Len(activity) + 1 \in CommentEntries' => e.type = "COMMENT_ADDED")
          /\ \A i \in CommentEntries : activity'[i] = activity[i]
      BY <1>3 DEF CommentEntries
    <2>3. \A i \in CommentEntries' : activity'[i].comment \in DOMAIN comments'
      BY <1>1, <1>3, <2>2 DEF LogOK
    <2>4. \A i \in Replacements' :
              /\ activity'[i].before \subseteq DOMAIN labels
              /\ activity'[i].after \subseteq DOMAIN labels
              /\ activity'[i].since < i
      <3> SUFFICES ASSUME NEW i \in Replacements'
                   PROVE  /\ activity'[i].before \subseteq DOMAIN labels
                          /\ activity'[i].after \subseteq DOMAIN labels
                          /\ activity'[i].since < i
        OBVIOUS
      <3>1. CASE i \in Replacements
        <4>1. activity'[i] = activity[i]
          BY <1>3, <3>1 DEF Replacements
        <4> QED
          BY <1>1, <3>1, <4>1 DEF LogOK
      <3>2. CASE i = Len(activity) + 1
        <4>1. e.type = "LABELS_CHANGED" /\ activity'[i] = e
          BY <1>3, <3>2
        <4>2. e \in LabelsEntry
          BY <4>1 DEF CommentEntry
        <4>3. e.since \in Nat
          BY <4>2 DEF LabelsEntry
        <4> QED
          BY <1>4, <3>2, <4>1, <4>3
      <3> QED
        BY <1>3, <3>1, <3>2
    <2> QED
      BY <1>3, <2>1, <2>3, <2>4 DEF LogOK
  <1> QED
    BY <1>2, <1>6, <1>7 DEF Inv

-----------------------------------------------------------------------------
(* Arrivals, look-ups and walks.                                           *)

LEMMA EndStep ==
  ASSUME Inv, NEW r \in Requests, Ends(r), step[r] # "done", UNCHANGED rows,
         rollbacks' \in 0..MaxRollbacks
  PROVE  Inv'
  <1>1. RequestsOK
    BY DEF Inv
  <1>2. /\ Goes(r, "done", None) /\ "done" \in Steps
        /\ RequestOK(r)' /\ Foreseen(r)'
    BY <1>1, EndedOK
  <1> QED
    BY <1>2, QuietStep

\* What the body asks for is carried on from check to check.
LEMMA ToStep ==
  ASSUME Inv, NEW r \in Requests, NEW s \in {"inserting", "checking", "writing"}, To(r, s),
         step[r] \in {"reading", "checking"}, s = "writing" => req[r].op # "editComment",
         UNCHANGED <<rows, rollbacks>>
  PROVE  Inv'
  <1>1. RequestsOK /\ s \in Steps
    BY DEF Inv, Steps
  <1>2. Goes(r, s, req[r])
    BY <1>1, ToIsGoes
  <1>3. step'[r] = s /\ req'[r] = req[r]
    BY <1>1, <1>2, GoesChanges
  <1>4. RequestOK(r)
    BY <1>1 DEF RequestsOK
  <1>5. RequestOK(r)'
    BY <1>3, <1>4 DEF RequestOK, Writes, At, None
  <1>6. Foreseen(r)'
    BY <1>3 DEF Foreseen
  <1>7. UNCHANGED rows /\ rollbacks' \in 0..MaxRollbacks
    BY <1>1 DEF RequestsOK
  <1> QED
    BY <1>1, <1>2, <1>5, <1>6, <1>7, QuietStep

LEMMA BodiesTell ==
  ASSUME NEW q \in Bodies
  PROVE  /\ q # None
         /\ q.op \in {"createLabel", "renameLabel", "createProject"} => q.name \in Names
  <1> DEFINE Body(op, id, name) == [op |-> op, id |-> id, name |-> name]
  <1>1. \/ q \in {Body("createLabel", 0, n) : n \in IF Len(labels) < MaxLabels THEN Names ELSE {}}
        \/ q \in {Body("renameLabel", l, n) : l \in Live, n \in Names}
        \/ q \in {Body("eraseLabel", l, 0) : l \in Live}
        \/ q \in {[op |-> "setLabels", give |-> set] : set \in SUBSET Live}
        \/ q \in {Body("createProject", 0, n) : n \in IF Len(projects) < MaxProjects THEN Names ELSE {}}
        \/ q \in {Body(op, p, 0) : op \in {"archive", "unarchive", "removeProject"},
                                 p \in {p \in DOMAIN projects : ~projects[p].deleted}}
    BY DEF Bodies
  <1>2. /\ q.op # "none"
        /\ q.op \in {"createLabel", "renameLabel", "createProject"} => q.name \in Names
    BY <1>1
  <1> QED
    BY <1>2, OpIsNotNone

LEMMA ArriveStep ==
  ASSUME Inv, NEW r \in Requests, Arrive(r)
  PROVE  Inv'
  <1> DEFINE Stage(q) == IF q.op = "setLabels" THEN "checking" ELSE "reading"
  <1>1. PICK q \in Bodies : Goes(r, Stage(q), q)
    BY DEF Arrive
  <1>2. step[r] # "done" /\ UNCHANGED rows /\ rollbacks' \in 0..MaxRollbacks
    BY DEF Arrive, At, Inv, RequestsOK
  <1>3. Stage(q) \in Steps /\ Stage(q) \in {"checking", "reading"}
    BY DEF Steps
  <1> HIDE DEF Stage
  <1>4. step'[r] = Stage(q) /\ req'[r] = q
    BY <1>1, <1>3, GoesChanges DEF Inv
  <1>5. /\ q # None
        /\ q.op \in {"createLabel", "renameLabel", "createProject"} => q.name \in Names
    BY BodiesTell
  <1>6. RequestOK(r)'
    BY <1>3, <1>4, <1>5 DEF RequestOK, Writes, At, None
  <1>7. Foreseen(r)'
    BY <1>3, <1>4 DEF Foreseen
  <1> QED
    BY <1>1, <1>2, <1>3, <1>6, <1>7, QuietStep

LEMMA LookUpStep ==
  ASSUME Inv, NEW r \in Requests,
         CreateLabel(r) \/ FindLabel(r) \/ CheckName(r) \/ CreateProject(r) \/ FindProject(r)
  PROVE  Inv'
  <1>1. rollbacks \in 0..MaxRollbacks
    BY DEF Inv, RequestsOK
  <1>2. CASE CreateLabel(r)
    <2>1. step[r] = "reading" /\ UNCHANGED <<rows, rollbacks>>
          /\ (To(r, "inserting") \/ Ends(r))
      BY <1>2 DEF CreateLabel, Reads, At
    <2> QED
      BY <1>1, <2>1, ToStep, EndStep
  <1>3. CASE FindLabel(r)
    <2>1. /\ step[r] = "reading" /\ UNCHANGED <<rows, rollbacks>>
          /\ req[r].op # "editComment"
          /\ (To(r, "checking") \/ To(r, "writing") \/ Ends(r))
      BY <1>3 DEF FindLabel, Reads, At
    <2> QED
      BY <1>1, <2>1, ToStep, EndStep
  <1>4. CASE CheckName(r)
    <2>1. /\ step[r] = "checking" /\ UNCHANGED <<rows, rollbacks>>
          /\ req[r].op # "editComment"
          /\ (To(r, "writing") \/ Ends(r))
      BY <1>4 DEF CheckName, At
    <2> QED
      BY <1>1, <2>1, ToStep, EndStep
  <1>5. CASE CreateProject(r)
    <2>1. step[r] = "reading" /\ UNCHANGED <<rows, rollbacks>>
          /\ (To(r, "inserting") \/ Ends(r))
      BY <1>5 DEF CreateProject, Reads, At
    <2> QED
      BY <1>1, <2>1, ToStep, EndStep
  <1>6. CASE FindProject(r)
    <2>1. /\ step[r] = "reading" /\ UNCHANGED <<rows, rollbacks>>
          /\ req[r].op # "editComment"
          /\ (To(r, "writing") \/ Ends(r))
      BY <1>6 DEF FindProject, Reads, At
    <2> QED
      BY <1>1, <2>1, ToStep, EndStep
  <1> QED
    BY <1>2, <1>3, <1>4, <1>5, <1>6

\* Only the author of a comment is let through to edit it, and a key is nobody's author.
LEMMA FindCommentStep ==
  ASSUME Inv, NEW r \in Requests, NEW c \in DOMAIN comments, FindComment(r, c)
  PROVE  Inv'
  <1>1. PICK a \in Actors, op \in {"editComment", "deleteComment"} :
            /\ IF op = "deleteComment" THEN MayDelete(a, c)
               ELSE Author(a) /\ comments[c].author = a.user
            /\ Goes(r, "writing", [op |-> op, id |-> c, by |-> a, read |-> comments[c]])
    BY DEF FindComment
  <1> DEFINE what == [op |-> op, id |-> c, by |-> a, read |-> comments[c]]
  <1>2. step[r] # "done" /\ UNCHANGED rows /\ rollbacks' \in 0..MaxRollbacks
    BY DEF FindComment, At, Inv, RequestsOK
  <1>3. "writing" \in Steps /\ RequestsOK
    BY DEF Steps, Inv
  <1>4. step'[r] = "writing" /\ req'[r] = what
    BY <1>1, <1>3, GoesChanges
  <1>5. what.op = op /\ what.id = c /\ what.by = a /\ what # None
    BY OpIsNotNone
  <1> HIDE DEF what
  <1>6. op = "editComment" => AuthorOf(a) = comments[c].author /\ AuthorOf(a) # "apiKey"
    <2>1. op = "editComment" => a.type = "user" /\ comments[c].author = a.user
      BY <1>1 DEF Author
    <2> QED
      BY <2>1, WorkspaceConstants DEF AuthorOf
  <1>7. comments' = comments
    BY <1>2 DEF rows
  <1>8. RequestOK(r)'
    <2>1. AuthorOf(req[r].by)' = AuthorOf(a)
      BY <1>4, <1>5 DEF AuthorOf
    <2> QED
      BY <1>4, <1>5, <1>6, <1>7, <2>1 DEF RequestOK, Writes, At, None
  <1>9. Foreseen(r)'
    BY <1>4 DEF Foreseen
  <1> QED
    BY <1>1, <1>2, <1>3, <1>8, <1>9, QuietStep DEF what

LEMMA WalkStep ==
  ASSUME Inv, NEW r \in Requests,
         NextPage(r) \/ \E list \in Lists : StartWalk(r, list)
  PROVE  Inv'
  <1>1. /\ step[r] # "done" /\ UNCHANGED rows /\ rollbacks' \in 0..MaxRollbacks
        /\ \E list, seen, first, page : HasPage(r, list, seen, first, page)
    BY DEF NextPage, StartWalk, At, Inv, RequestsOK
  <1>2. PICK list, seen, first, page : HasPage(r, list, seen, first, page)
    BY <1>1
  <1> DEFINE s == IF page.nextCursor = NoCursor THEN "walked" ELSE "walking"
             what == [op |-> "walk", list |-> list, seen |-> seen \o page.data,
                      cursor |-> page.nextCursor, first |-> first]
  <1>3. Goes(r, s, what)
    BY <1>2 DEF HasPage
  <1>4. s \in Steps /\ s \in {"walked", "walking"}
    BY DEF Steps
  <1>5. what.op = "walk"
    OBVIOUS
  <1> HIDE DEF s, what
  <1>6. step'[r] = s /\ req'[r] = what /\ what # None
    BY <1>3, <1>4, <1>5, GoesChanges, OpIsNotNone DEF Inv
  <1>7. RequestOK(r)'
    BY <1>4, <1>6 DEF RequestOK, Writes, At, None
  <1>8. Foreseen(r)'
    BY <1>4, <1>6 DEF Foreseen
  <1> QED
    BY <1>1, <1>3, <1>4, <1>7, <1>8, QuietStep

-----------------------------------------------------------------------------
(* The replacement of the task's labels, up to its DELETE.                 *)

LEMMA LabelIds ==
  ASSUME LabelsOK
  PROVE  /\ Len(labels) \in Nat /\ DOMAIN labels = 1..Len(labels) /\ DOMAIN labels \subseteq Nat
         /\ Live \subseteq DOMAIN labels /\ LabelsOf(taskLabels) \subseteq DOMAIN labels
         /\ taskLabels \subseteq TaskLabelRow
  <1>1. Len(labels) \in Nat /\ DOMAIN labels = 1..Len(labels)
    BY DEF LabelsOK
  <1>2. /\ Live \subseteq DOMAIN labels /\ LabelsOf(taskLabels) \subseteq DOMAIN labels
        /\ taskLabels \subseteq TaskLabelRow
    BY DEF LabelsOK, Live
  <1> QED
    BY <1>1, <1>2

LEMMA SameHistory ==
  ASSUME UNCHANGED rows
  PROVE  /\ Replacements' = Replacements
         /\ \A i, n : Newest(i, n)' <=> Newest(i, n)
         /\ \A i, set : Leaves(i, set)' <=> Leaves(i, set)
  BY DEF rows, Replacements, Newest, Leaves, Erased

\* What is known of the labels a request has read, with nothing changed but what it holds.
LEMMA BeforeKept ==
  ASSUME UNCHANGED rows, NEW since, NEW before, NEW r,
         \A i \in Replacements : Newest(i, since) => Leaves(i, before),
         req'[r].since = since, req'[r].before = before
  PROVE  \A i \in Replacements' : (Newest(i, req[r].since) => Leaves(i, req[r].before))'
  <1> SUFFICES ASSUME NEW i \in Replacements', Newest(i, req[r].since)'
               PROVE  Leaves(i, req[r].before)'
    OBVIOUS
  <1>1. activity' = activity /\ labels' = labels
    BY DEF rows
  <1>2. i \in Replacements /\ Newest(i, since)
    BY <1>1 DEF Newest, Replacements
  <1>3. Leaves(i, before)
    BY <1>2
  <1> QED
    BY <1>1, <1>3 DEF Leaves, Replacements, Erased

LEMMA FindLabelsStep ==
  ASSUME Inv, NEW r \in Requests, FindLabels(r)
  PROVE  Inv'
  <1>1. /\ step[r] # "done" /\ UNCHANGED rows /\ rollbacks' \in 0..MaxRollbacks
        /\ RequestsOK /\ LabelsOK
    BY DEF FindLabels, At, Inv, RequestsOK
  <1>2. CASE Ends(r)
    BY <1>1, <1>2, EndStep
  <1>3. CASE req[r].give \subseteq Live
    <2>1. Goes(r, "listing", req[r])
      BY <1>1, <1>3, ToIsGoes DEF FindLabels
    <2>2. "listing" \in Steps
      BY DEF Steps
    <2>3. req[r].give \in SUBSET Nat
      BY <1>1, <1>3, LabelIds
    <2>4. req[r] # None
      BY <1>1 DEF FindLabels, At, RequestsOK, RequestOK
    <2>5. step'[r] = "listing" /\ req'[r] = req[r]
      BY <1>1, <2>1, <2>2, GoesChanges
    <2>6. RequestOK(r)'
      BY <2>3, <2>4, <2>5 DEF RequestOK, Writes, At, None
    <2>7. Foreseen(r)'
      BY <2>5 DEF Foreseen
    <2> QED
      BY <1>1, <2>1, <2>2, <2>6, <2>7, QuietStep
  <1> QED
    BY <1>2, <1>3 DEF FindLabels

\* listForTask sees what the last replacement has left.
LEMMA ListForTaskStep ==
  ASSUME Inv, NEW r \in Requests, ListForTask(r)
  PROVE  Inv'
  <1> DEFINE what == [op |-> "setLabels", give |-> req[r].give,
                      before |-> LabelsOf(taskLabels), since |-> Len(activity)]
  <1>1. /\ step[r] = "listing" /\ UNCHANGED rows /\ rollbacks' \in 0..MaxRollbacks
        /\ RequestsOK /\ LabelsOK /\ LogOK /\ LabelsAsAsked /\ RequestOK(r)
        /\ Goes(r, "deleting", what)
    BY DEF ListForTask, At, Inv, RequestsOK
  <1>2. "deleting" \in Steps
    BY DEF Steps
  <1>3. req[r].give \in SUBSET Nat
    BY <1>1 DEF RequestOK
  <1>4. /\ what.give \in SUBSET Nat /\ what # None
        /\ what.before = LabelsOf(taskLabels) /\ what.since = Len(activity)
    BY <1>3, OpIsNotNone
  <1> HIDE DEF what
  <1>5. step'[r] = "deleting" /\ req'[r] = what
    BY <1>1, <1>2, GoesChanges
  <1>6. LabelsOf(taskLabels) \subseteq DOMAIN labels /\ Len(activity) \in Nat
    BY <1>1, LabelIds, LogRows
  <1>7. UNCHANGED <<labels, activity>>
    BY <1>1 DEF rows
  <1>8. RequestOK(r)'
    BY <1>4, <1>5, <1>6, <1>7 DEF RequestOK, Writes, At, None
  <1>9. \A i \in Replacements : Newest(i, what.since) => Leaves(i, what.before)
    BY <1>1, <1>4 DEF LabelsAsAsked
  <1>10. Foreseen(r)'
    <2>1. \A i \in Replacements' : (Newest(i, req[r].since) => Leaves(i, req[r].before))'
      BY <1>1, <1>5, <1>9, BeforeKept
    <2> QED
      BY <1>5, <2>1 DEF Foreseen
  <1> QED
    BY <1>1, <1>2, <1>8, <1>10, QuietStep

\* The DELETE is about the rows there are.
LEMMA StartDeleteStep ==
  ASSUME Inv, NEW r \in Requests, StartDelete(r)
  PROVE  Inv'
  <1> DEFINE what == [op |-> "setLabels", give |-> req[r].give, before |-> req[r].before,
                      since |-> req[r].since, from |-> Len(activity), held |-> taskLabels]
  <1>1. /\ step[r] = "deleting" /\ UNCHANGED rows /\ rollbacks' \in 0..MaxRollbacks
        /\ RequestsOK /\ LabelsOK /\ LogOK /\ RequestOK(r) /\ Foreseen(r)
        /\ Goes(r, "waiting", what)
    BY DEF StartDelete, At, Inv, RequestsOK
  <1>2. "waiting" \in Steps
    BY DEF Steps
  <1>3. /\ req[r].give \in SUBSET Nat /\ req[r].before \subseteq DOMAIN labels
        /\ req[r].since \in Nat /\ req[r].since <= Len(activity)
    BY <1>1 DEF RequestOK
  <1>4. /\ taskLabels \subseteq TaskLabelRow /\ DOMAIN labels \subseteq Nat
        /\ Len(activity) \in Nat
    BY <1>1, LabelIds, LogRows
  <1>5. /\ what \in Replacing /\ what # None
        /\ what.before = req[r].before /\ what.since = req[r].since
        /\ what.from = Len(activity) /\ what.held = taskLabels
    BY <1>3, <1>4, OpIsNotNone DEF Replacing
  <1> HIDE DEF what
  <1>6. step'[r] = "waiting" /\ req'[r] = what
    BY <1>1, <1>2, GoesChanges
  <1>7. UNCHANGED <<labels, taskLabels, activity>>
    BY <1>1 DEF rows
  <1>8. RequestOK(r)'
    BY <1>3, <1>4, <1>5, <1>6, <1>7 DEF RequestOK, Writes, At, None, Replacing
  <1>9. Foreseen(r)'
    <2>1. \A i \in Replacements : Newest(i, req[r].since) => Leaves(i, req[r].before)
      BY <1>1 DEF Foreseen
    <2>2. \A i \in Replacements' : (Newest(i, req[r].since) => Leaves(i, req[r].before))'
      BY <1>1, <1>5, <1>6, <2>1, BeforeKept
    <2>3. taskLabels' \ req'[r].held = {}
      BY <1>5, <1>6, <1>7
    <2> QED
      BY <1>6, <2>2, <2>3 DEF Foreseen
  <1> QED
    BY <1>1, <1>2, <1>8, <1>9, QuietStep

\* It deletes those of them that are still there.
LEMMA FinishDeleteStep ==
  ASSUME Inv, NEW r \in Requests, FinishDelete(r)
  PROVE  Inv'
  <1> DEFINE what == [req[r] EXCEPT !.held = @ \cap taskLabels]
  <1>1. /\ step[r] = "waiting" /\ UNCHANGED rows /\ rollbacks' \in 0..MaxRollbacks
        /\ RequestsOK /\ LabelsOK /\ LogOK /\ RequestOK(r) /\ Foreseen(r)
        /\ Goes(r, "replacing", what)
    BY DEF FinishDelete, At, Inv, RequestsOK
  <1>2. "replacing" \in Steps
    BY DEF Steps
  <1>3. req[r] \in Replacing
    BY <1>1 DEF RequestOK
  <1>4. /\ what \in Replacing /\ what.op = "setLabels"
        /\ what.before = req[r].before /\ what.since = req[r].since
        /\ what.from = req[r].from /\ what.held = req[r].held \cap taskLabels
    BY <1>3 DEF Replacing
  <1> HIDE DEF what
  <1>5. step'[r] = "replacing" /\ req'[r] = what /\ what # None
    BY <1>1, <1>2, <1>4, GoesChanges, OpIsNotNone
  <1>6. UNCHANGED <<labels, taskLabels, activity>>
    BY <1>1 DEF rows
  <1>7. RequestOK(r)'
    BY <1>1, <1>4, <1>5, <1>6 DEF RequestOK, Writes, At, None
  <1>8. Foreseen(r)'
    <2>1. \A i \in Replacements : Newest(i, req[r].since) => Leaves(i, req[r].before)
      BY <1>1 DEF Foreseen
    <2>2. \A i \in Replacements' : (Newest(i, req[r].since) => Leaves(i, req[r].before))'
      BY <1>1, <1>4, <1>5, <2>1, BeforeKept
    <2>3. \A t \in taskLabels' \ req'[r].held :
              \E i \in Replacements' : req'[r].from < i /\ t.label \in activity'[i].after
      BY <1>1, <1>4, <1>5, <1>6, SameHistory DEF Foreseen
    <2> QED
      BY <1>5, <2>2, <2>3 DEF Foreseen
  <1> QED
    BY <1>1, <1>2, <1>7, <1>8, QuietStep

LEMMA RollbackStep ==
  ASSUME Inv, NEW r \in Requests, Rollback(r)
  PROVE  Inv'
  <1>1. rollbacks < MaxRollbacks /\ rollbacks' = rollbacks + 1 /\ rollbacks \in 0..MaxRollbacks
    BY DEF Rollback, Inv, RequestsOK
  <1>2. rollbacks' \in 0..MaxRollbacks
    BY <1>1, WorkspaceConstants
  <1> QED
    BY <1>2, EndStep DEF Rollback

-----------------------------------------------------------------------------
(* Writes to labels, comments and projects.                                *)

\* A row written over keeps the others and the length of the table.
LEMMA RowWritten ==
  ASSUME NEW S, NEW table \in Seq(S), NEW i \in DOMAIN table, NEW x \in S
  PROVE  /\ [table EXCEPT ![i] = x] \in Seq(S)
         /\ Len([table EXCEPT ![i] = x]) = Len(table)
         /\ DOMAIN [table EXCEPT ![i] = x] = DOMAIN table
         /\ [table EXCEPT ![i] = x][i] = x
         /\ \A j \in DOMAIN table \ {i} : [table EXCEPT ![i] = x][j] = table[j]
  <1>1. DOMAIN table = 1..Len(table) /\ Len(table) \in Nat
    BY LenProperties
  <1>2. i \in 1..Len(table)
    BY <1>1
  <1>3. /\ [table EXCEPT ![i] = x] \in Seq(S)
        /\ Len([table EXCEPT ![i] = x]) = Len(table)
    BY <1>2, ExceptSeq
  <1> QED
    BY <1>3

LEMMA RowAdded ==
  ASSUME NEW S, NEW table \in Seq(S), NEW x \in S
  PROVE  /\ Append(table, x) \in Seq(S) /\ Len(table) \in Nat
         /\ Len(Append(table, x)) = Len(table) + 1
         /\ DOMAIN table = 1..Len(table) /\ Len(table) + 1 \notin DOMAIN table
         /\ DOMAIN Append(table, x) = DOMAIN table \cup {Len(table) + 1}
         /\ \A i \in DOMAIN table : Append(table, x)[i] = table[i]
         /\ Append(table, x)[Len(table) + 1] = x
  <1>1. DOMAIN table = 1..Len(table) /\ Len(table) \in Nat
    BY LenProperties
  <1>2. /\ Append(table, x) \in Seq(S)
        /\ Len(Append(table, x)) = Len(table) + 1
        /\ \A i \in 1..Len(table) : Append(table, x)[i] = table[i]
        /\ Append(table, x)[Len(table) + 1] = x
    BY AppendProperties
  <1>3. DOMAIN Append(table, x) = 1..(Len(table) + 1)
    BY <1>2, LenProperties
  <1> QED
    BY <1>1, <1>2, <1>3

LEMMA InsertLabelStep ==
  ASSUME Inv, NEW r \in Requests, InsertLabel(r)
  PROVE  Inv'
  <1> DEFINE name == req[r].name
             row == [name |-> name, erased |-> FALSE]
  <1>1. /\ step[r] # "done" /\ Ends(r)
        /\ UNCHANGED <<taskLabels, comments, projects, activity, rollbacks>>
        /\ LabelsOK /\ CommentsOK /\ ProjectsOK /\ RequestsOK /\ RequestOK(r)
        /\ rollbacks' \in 0..MaxRollbacks
    BY DEF InsertLabel, At, Inv, RequestsOK
  <1>2. name \in Names
    BY <1>1 DEF InsertLabel, At, RequestOK
  <1>3. CommentsOK' /\ ProjectsOK'
    BY <1>1 DEF CommentsOK, ProjectsOK
  <1>4. CASE labels' = labels
    <2>1. LabelsOK' /\ Erased' = Erased
      BY <1>1, <1>4 DEF LabelsOK, Live, Erased
    <2> QED
      BY <1>1, <1>3, <1>4, <2>1, RowStep
  <1>5. CASE labels' = Append(labels, row) /\ Named(name) = {} /\ Len(labels) < MaxLabels
    <2>1. row \in LabelRow /\ labels \in Seq(LabelRow)
      BY <1>1, <1>2 DEF LabelRow, LabelsOK
    <2>2. row.name = name /\ row.erased = FALSE
      OBVIOUS
    <2> HIDE DEF row
    <2>3. /\ labels' \in Seq(LabelRow) /\ Len(labels) \in Nat
          /\ Len(labels') = Len(labels) + 1
          /\ Len(labels) + 1 \notin DOMAIN labels
          /\ DOMAIN labels' = DOMAIN labels \cup {Len(labels) + 1}
          /\ \A i \in DOMAIN labels : labels'[i] = labels[i]
          /\ labels'[Len(labels) + 1] = row
      BY <1>5, <2>1, RowAdded
    <2>4. Erased' = Erased /\ Live' = Live \cup {Len(labels) + 1}
      BY <2>2, <2>3 DEF Erased, Live
    <2>5. \A l, k \in Live' : labels'[l].name = labels'[k].name => l = k
      <3>1. \A l \in Live : labels'[l] = labels[l] /\ labels[l].name # name
        BY <1>5, <2>3 DEF Live, Named
      <3> QED
        BY <1>1, <2>2, <2>3, <2>4, <3>1 DEF LabelsOK
    <2>6. Len(labels') <= MaxLabels
      BY <1>5, <2>3, WorkspaceConstants
    <2>7. LabelsOK'
      BY <1>1, <2>3, <2>4, <2>5, <2>6 DEF LabelsOK
    <2> QED
      BY <1>1, <1>3, <2>3, <2>4, <2>7, RowStep
  <1> QED
    BY <1>4, <1>5 DEF InsertLabel

LEMMA RenameLabelStep ==
  ASSUME Inv, NEW r \in Requests, RenameLabel(r)
  PROVE  Inv'
  <1> DEFINE name == req[r].name
             id == req[r].id
             row == [labels[id] EXCEPT !.name = name]
  <1>1. /\ step[r] # "done" /\ Ends(r)
        /\ UNCHANGED <<taskLabels, comments, projects, activity, rollbacks>>
        /\ LabelsOK /\ CommentsOK /\ ProjectsOK /\ RequestsOK /\ RequestOK(r)
        /\ rollbacks' \in 0..MaxRollbacks
    BY DEF RenameLabel, Writes, At, Inv, RequestsOK
  <1>2. name \in Names
    BY <1>1 DEF RenameLabel, Writes, At, RequestOK
  <1>3. CommentsOK' /\ ProjectsOK'
    BY <1>1 DEF CommentsOK, ProjectsOK
  <1>4. CASE labels' = labels
    <2>1. LabelsOK' /\ Erased' = Erased
      BY <1>1, <1>4 DEF LabelsOK, Live, Erased
    <2> QED
      BY <1>1, <1>3, <1>4, <2>1, RowStep
  <1>5. CASE labels' = [labels EXCEPT ![id] = row] /\ id \in Live /\ Named(name) \subseteq {id}
    <2>1. id \in DOMAIN labels /\ ~labels[id].erased /\ labels \in Seq(LabelRow)
      BY <1>1, <1>5 DEF Live, Erased, LabelsOK
    <2>2. labels[id] \in LabelRow
      BY <2>1, LabelIds, <1>1
    <2>3. row \in LabelRow /\ row.name = name /\ ~row.erased
      BY <1>2, <2>1, <2>2 DEF LabelRow
    <2> HIDE DEF row, id, name
    <2>4. /\ labels' \in Seq(LabelRow) /\ Len(labels') = Len(labels)
          /\ DOMAIN labels' = DOMAIN labels /\ labels'[id] = row
          /\ \A l \in DOMAIN labels \ {id} : labels'[l] = labels[l]
      BY <1>5, <2>1, <2>3, RowWritten
    <2>5. Erased' = Erased /\ Live' = Live
      BY <2>1, <2>3, <2>4 DEF Erased, Live
    <2>6. \A l, k \in Live' : labels'[l].name = labels'[k].name => l = k
      <3>1. \A l \in Live \ {id} : labels'[l] = labels[l] /\ labels[l].name # name
        BY <1>5, <2>4 DEF Live, Named
      <3> QED
        BY <1>1, <2>3, <2>4, <2>5, <3>1 DEF LabelsOK
    <2>7. LabelsOK'
      BY <1>1, <2>4, <2>5, <2>6 DEF LabelsOK
    <2> QED
      BY <1>1, <1>3, <2>4, <2>5, <2>7, RowStep
  <1> QED
    BY <1>4, <1>5 DEF RenameLabel

LEMMA EraseLabelStep ==
  ASSUME Inv, NEW r \in Requests, EraseLabel(r)
  PROVE  Inv'
  <1> DEFINE id == req[r].id
             row == [labels[id] EXCEPT !.erased = TRUE]
  <1>1. /\ step[r] # "done" /\ Ends(r)
        /\ UNCHANGED <<comments, projects, activity, rollbacks>>
        /\ LabelsOK /\ CommentsOK /\ ProjectsOK
        /\ rollbacks' \in 0..MaxRollbacks
    BY DEF EraseLabel, Writes, At, Inv, RequestsOK
  <1>2. CommentsOK' /\ ProjectsOK'
    BY <1>1 DEF CommentsOK, ProjectsOK
  <1>3. CASE labels' = labels /\ taskLabels' = taskLabels
    <2>1. LabelsOK' /\ Erased' = Erased
      BY <1>3, <1>1 DEF LabelsOK, Live, Erased
    <2> QED
      BY <1>1, <1>2, <1>3, <2>1, RowStep
  <1>4. CASE /\ labels' = [labels EXCEPT ![id] = row] /\ id \in Live
             /\ taskLabels' = {t \in taskLabels : t.label # id}
    <2>1. id \in DOMAIN labels /\ labels \in Seq(LabelRow)
      BY <1>1, <1>4 DEF Live, LabelsOK
    <2>2. labels[id] \in LabelRow
      BY <1>1, <2>1, LabelIds
    <2>3. row \in LabelRow /\ row.erased
      BY <2>2 DEF LabelRow
    <2> HIDE DEF row, id
    <2>4. /\ labels' \in Seq(LabelRow) /\ Len(labels') = Len(labels)
          /\ DOMAIN labels' = DOMAIN labels /\ labels'[id] = row
          /\ \A l \in DOMAIN labels \ {id} : labels'[l] = labels[l]
      BY <1>4, <2>1, <2>3, RowWritten
    <2>5. Erased' = Erased \cup {id} /\ Live' = Live \ {id}
      BY <2>1, <2>3, <2>4 DEF Erased, Live
    <2>6. \A l, k \in Live' : labels'[l].name = labels'[k].name => l = k
      BY <1>1, <2>4, <2>5 DEF LabelsOK, Live
    <2>7. /\ taskLabels' \subseteq taskLabels
          /\ \A t \in taskLabels \ taskLabels' : t.label = id
          /\ LabelsOf(taskLabels') \subseteq LabelsOf(taskLabels) \ {id}
      BY <1>4 DEF LabelsOf
    <2>8. LabelsOK'
      BY <1>1, <2>4, <2>5, <2>6, <2>7 DEF LabelsOK
    <2> QED
      BY <1>1, <1>2, <2>4, <2>5, <2>7, <2>8, RowStep
  <1> QED
    BY <1>3, <1>4 DEF EraseLabel

\* A write by the id of no row changes nothing.
LEMMA NoSuchRow ==
  ASSUME NEW S, NEW table \in Seq(S), NEW i, i \notin DOMAIN table, NEW x
  PROVE  [table EXCEPT ![i] = x] = table
  <1>1. table = [j \in DOMAIN table |-> table[j]]
    OBVIOUS
  <1> QED
    BY <1>1

\* No step brings a deleted comment back, or an entry about a comment to the log but the
\* one that creates it.
CommentsStay ==
    /\ \A c \in DOMAIN comments : comments[c].deleted => comments'[c].deleted
    /\ \A c \in DOMAIN comments' :
          IF c \in DOMAIN comments THEN EntriesOf(c)' = EntriesOf(c)
          ELSE \E i \in DOMAIN activity' \ DOMAIN activity : EntriesOf(c)' = {i}

LEMMA SameEntries ==
  ASSUME activity' = activity, DOMAIN comments' = DOMAIN comments,
         \A c \in DOMAIN comments : comments[c].deleted => comments'[c].deleted
  PROVE  CommentsStay
  BY DEF CommentsStay, EntriesOf

\* A comment is edited by its author, deleted by whoever may, and stays where it is.
LEMMA WriteCommentStep ==
  ASSUME Inv, NEW r \in Requests, EditComment(r) \/ DeleteComment(r)
  PROVE  Inv' /\ CommentsStay
  <1> DEFINE id == req[r].id
  <1>1. /\ step[r] # "done" /\ Ends(r)
        /\ UNCHANGED <<labels, taskLabels, projects, activity, rollbacks>>
        /\ LabelsOK /\ CommentsOK /\ ProjectsOK /\ RequestsOK /\ RequestOK(r)
        /\ rollbacks' \in 0..MaxRollbacks
    BY DEF EditComment, DeleteComment, Writes, At, Inv, RequestsOK
  <1>2. LabelsOK' /\ ProjectsOK' /\ Erased' = Erased
    BY <1>1 DEF LabelsOK, ProjectsOK, Live, Erased
  <1>3. comments \in Seq(CommentRow) /\ DOMAIN comments = 1..Len(comments)
    BY <1>1 DEF CommentsOK
  <1>4. PICK row : /\ comments' = [comments EXCEPT ![id] = row]
                   /\ \/ EditComment(r) /\ row = [comments[id] EXCEPT !.editor = AuthorOf(req[r].by)]
                      \/ DeleteComment(r) /\ row = [comments[id] EXCEPT !.deleted = TRUE]
    BY DEF EditComment, DeleteComment
  <1>5. EditComment(r) => /\ id \in DOMAIN comments
                          /\ AuthorOf(req[r].by) = comments[id].author
                          /\ AuthorOf(req[r].by) # "apiKey"
    BY <1>1 DEF EditComment, RequestOK
  <1>6. CASE id \in DOMAIN comments
    <2>1. comments[id] \in CommentRow
      BY <1>3, <1>6
    <2>2. /\ row \in CommentRow /\ row.author = comments[id].author
          /\ (comments[id].deleted => row.deleted)
          /\ \/ row.editor = comments[id].editor
             \/ row.editor = comments[id].author /\ row.editor # "apiKey"
      BY <1>4, <1>5, <2>1 DEF CommentRow
    <2> HIDE DEF id
    <2>3. /\ comments' \in Seq(CommentRow) /\ Len(comments') = Len(comments)
          /\ DOMAIN comments' = DOMAIN comments /\ comments'[id] = row
          /\ \A c \in DOMAIN comments \ {id} : comments'[c] = comments[c]
      BY <1>3, <1>4, <1>6, <2>2, RowWritten
    <2>4. \A c \in DOMAIN comments' :
              comments'[c].editor # "nobody" => /\ comments'[c].editor = comments'[c].author
                                                /\ comments'[c].editor # "apiKey"
      BY <1>1, <2>2, <2>3 DEF CommentsOK
    <2>5. CommentsOK'
      BY <1>1, <2>3, <2>4 DEF CommentsOK
    <2>6. \A c \in DOMAIN comments : c \in DOMAIN comments'
                                   /\ comments'[c].author = comments[c].author
      BY <2>2, <2>3
    <2>7. CommentsStay
      BY <1>1, <2>2, <2>3, SameEntries
    <2> QED
      BY <1>1, <1>2, <2>5, <2>6, <2>7, RowStep
  <1>7. CASE id \notin DOMAIN comments
    <2>1. comments' = comments
      BY <1>3, <1>4, <1>7, NoSuchRow
    <2>2. CommentsOK'
      BY <1>1, <2>1 DEF CommentsOK
    <2>3. CommentsStay
      BY <1>1, <2>1, SameEntries
    <2> QED
      BY <1>1, <1>2, <2>1, <2>2, <2>3, RowStep
  <1> QED
    BY <1>6, <1>7

LEMMA InsertProjectStep ==
  ASSUME Inv, NEW r \in Requests, InsertProject(r)
  PROVE  Inv'
  <1> DEFINE row == [key |-> req[r].name, status |-> "ACTIVE", deleted |-> FALSE]
  <1>1. /\ step[r] # "done" /\ Ends(r)
        /\ UNCHANGED <<labels, taskLabels, comments, activity, rollbacks>>
        /\ LabelsOK /\ CommentsOK /\ ProjectsOK /\ RequestsOK /\ RequestOK(r)
        /\ rollbacks' \in 0..MaxRollbacks
    BY DEF InsertProject, At, Inv, RequestsOK
  <1>2. LabelsOK' /\ CommentsOK' /\ Erased' = Erased
    BY <1>1 DEF LabelsOK, CommentsOK, Live, Erased
  <1>3. req[r].name \in Names
    BY <1>1 DEF InsertProject, At, RequestOK
  <1>4. CASE projects' = projects
    <2>1. ProjectsOK'
      BY <1>1, <1>4 DEF ProjectsOK
    <2> QED
      BY <1>1, <1>2, <2>1, RowStep
  <1>5. CASE /\ projects' = Append(projects, row) /\ Len(projects) < MaxProjects
             /\ ~\E p \in Range(projects) : p.key = req[r].name
    <2>1. row \in ProjectRow /\ projects \in Seq(ProjectRow) /\ row.key = req[r].name
      BY <1>1, <1>3 DEF ProjectRow, ProjectsOK
    <2> HIDE DEF row
    <2>2. /\ projects' \in Seq(ProjectRow) /\ Len(projects) \in Nat
          /\ Len(projects') = Len(projects) + 1
          /\ DOMAIN projects' = DOMAIN projects \cup {Len(projects) + 1}
          /\ \A p \in DOMAIN projects : projects'[p] = projects[p]
          /\ projects'[Len(projects) + 1] = row
      BY <1>5, <2>1, RowAdded
    <2>3. \A p \in DOMAIN projects : projects[p].key # req[r].name
      BY <1>5 DEF Range
    <2>4. \A p, q \in DOMAIN projects' : projects'[p].key = projects'[q].key => p = q
      BY <1>1, <2>1, <2>2, <2>3 DEF ProjectsOK
    <2>5. Len(projects') <= MaxProjects
      BY <1>5, <2>2, WorkspaceConstants
    <2>6. ProjectsOK'
      BY <2>2, <2>4, <2>5 DEF ProjectsOK
    <2> QED
      BY <1>1, <1>2, <2>6, RowStep
  <1> QED
    BY <1>4, <1>5 DEF InsertProject

LEMMA WriteProjectStep ==
  ASSUME Inv, NEW r \in Requests, SetStatus(r) \/ RemoveProject(r)
  PROVE  Inv'
  <1> DEFINE id == req[r].id
             status == IF req[r].op = "archive" THEN "ARCHIVED" ELSE "ACTIVE"
  <1>1. /\ step[r] # "done" /\ Ends(r)
        /\ UNCHANGED <<labels, taskLabels, comments, activity, rollbacks>>
        /\ LabelsOK /\ CommentsOK /\ ProjectsOK
        /\ rollbacks' \in 0..MaxRollbacks
    BY DEF SetStatus, RemoveProject, Writes, At, Inv, RequestsOK
  <1>2. LabelsOK' /\ CommentsOK' /\ Erased' = Erased
    BY <1>1 DEF LabelsOK, CommentsOK, Live, Erased
  <1>3. projects \in Seq(ProjectRow) /\ DOMAIN projects = 1..Len(projects)
    BY <1>1 DEF ProjectsOK
  <1>4. PICK row : /\ projects' = [projects EXCEPT ![id] = row]
                   /\ \/ row = [projects[id] EXCEPT !.status = status]
                      \/ row = [projects[id] EXCEPT !.deleted = TRUE]
    BY DEF SetStatus, RemoveProject
  <1>5. status \in {"ACTIVE", "ARCHIVED"}
    OBVIOUS
  <1> HIDE DEF status
  <1>6. CASE id \in DOMAIN projects
    <2>1. projects[id] \in ProjectRow
      BY <1>3, <1>6
    <2>2. row \in ProjectRow /\ row.key = projects[id].key
      BY <1>4, <1>5, <2>1 DEF ProjectRow
    <2> HIDE DEF id
    <2>3. /\ projects' \in Seq(ProjectRow) /\ Len(projects') = Len(projects)
          /\ DOMAIN projects' = DOMAIN projects /\ projects'[id] = row
          /\ \A p \in DOMAIN projects \ {id} : projects'[p] = projects[p]
      BY <1>3, <1>4, <1>6, <2>2, RowWritten
    <2>4. \A p \in DOMAIN projects : projects'[p].key = projects[p].key
      BY <2>2, <2>3
    <2>5. ProjectsOK'
      BY <1>1, <2>3, <2>4 DEF ProjectsOK
    <2> QED
      BY <1>1, <1>2, <2>5, RowStep
  <1>7. CASE id \notin DOMAIN projects
    <2>1. projects' = projects
      BY <1>3, <1>4, <1>7, NoSuchRow
    <2>2. ProjectsOK'
      BY <1>1, <2>1 DEF ProjectsOK
    <2> QED
      BY <1>1, <1>2, <2>2, RowStep
  <1> QED
    BY <1>6, <1>7

-----------------------------------------------------------------------------
(* The two writes that are logged.                                         *)

\* With another entry in the log, the entries before it tell what they told,
LEMMA EntriesKept ==
  ASSUME LogOK, LabelsAsAsked, labels' = labels,
         NEW e \in CommentEntry \cup LabelsEntry, activity' = Append(activity, e)
  PROVE  \A i \in Replacements, k \in Replacements' :
             (Newest(k, activity[i].since) => Leaves(k, activity[i].before))'
  <1> SUFFICES ASSUME NEW i \in Replacements, NEW k \in Replacements',
                      Newest(k, activity[i].since)'
               PROVE  Leaves(k, activity[i].before)'
    OBVIOUS
  <1>1. /\ Len(activity) \in Nat
        /\ activity'[i] = activity[i] /\ i \in Nat /\ i <= Len(activity)
        /\ activity[i].since \in Nat /\ activity[i].since < i
    BY LogGrown, LogRows DEF Replacements, LabelsEntry, LogOK
  <1>2. /\ \A j, m : m \in Nat /\ m <= Len(activity) => (Newest(j, m)' <=> Newest(j, m))
        /\ \A j, set : j \in Replacements /\ Leaves(j, set) => Leaves(j, set)'
    BY PastKept DEF Erased
  <1>3. PICK m, set : m = activity[i].since /\ set = activity[i].before
    OBVIOUS
  <1>4. m \in Nat /\ m <= Len(activity)
    BY <1>1, <1>3
  <1>5. Newest(k, m)'
    BY <1>1, <1>3 DEF Newest
  <1>6. Newest(k, m) /\ k \in Replacements
    BY <1>2, <1>4, <1>5 DEF Newest
  <1>7. Leaves(k, set)'
    BY <1>2, <1>3, <1>6 DEF LabelsAsAsked
  <1> QED
    BY <1>1, <1>3, <1>7 DEF Leaves

\* and so do the requests under way, if the entry asked for what the task has got.
LEMMA ForeseenKept ==
  ASSUME LogOK, labels' = labels,
         NEW e \in CommentEntry \cup LabelsEntry, activity' = Append(activity, e),
         \A t \in taskLabels' \ taskLabels : e.type = "LABELS_CHANGED" /\ t.label \in e.after,
         NEW q \in Requests, RequestOK(q), Foreseen(q), step'[q] = step[q], req'[q] = req[q]
  PROVE  Foreseen(q)'
  <1>1. /\ \A j, m : m \in Nat /\ m <= Len(activity) => (Newest(j, m)' <=> Newest(j, m))
        /\ \A j, set : j \in Replacements /\ Leaves(j, set) => Leaves(j, set)'
    BY PastKept DEF Erased
  <1>2. ASSUME step[q] \in {"deleting", "waiting", "replacing"}, NEW i \in Replacements',
               Newest(i, req[q].since)'
        PROVE  Leaves(i, req[q].before)'
    <2>1. PICK m, set : m = req[q].since /\ set = req[q].before
      OBVIOUS
    <2>2. m \in Nat /\ m <= Len(activity)
      BY <1>2, <2>1 DEF RequestOK
    <2>3. Newest(i, m)'
      BY <1>2, <2>1 DEF Newest
    <2>4. Newest(i, m) /\ i \in Replacements
      BY <1>1, <2>2, <2>3 DEF Newest
    <2>5. Leaves(i, set)'
      BY <1>1, <1>2, <2>1, <2>4 DEF Foreseen
    <2> QED
      BY <2>1, <2>5 DEF Leaves
  <1>3. ASSUME step[q] \in {"waiting", "replacing"}, NEW t \in taskLabels' \ req'[q].held
        PROVE  \E i \in Replacements' : req'[q].from < i /\ t.label \in activity'[i].after
    <2>1. /\ \A i \in Replacements : i \in Replacements' /\ activity'[i] = activity[i]
          /\ activity'[Len(activity) + 1] = e
          /\ Len(activity) + 1 \in Replacements' <=> e.type = "LABELS_CHANGED"
      BY LogGrown DEF Replacements
    <2>2. CASE t \in taskLabels
      BY <1>3, <2>1, <2>2 DEF Foreseen
    <2>3. CASE t \notin taskLabels
      <3>1. Len(activity) + 1 \in Replacements' /\ t.label \in activity'[Len(activity) + 1].after
        BY <1>3, <2>1, <2>3
      <3>2. req[q].from \in Nat /\ req[q].from <= Len(activity) /\ Len(activity) \in Nat
        BY <1>3, LogRows DEF RequestOK, Replacing
      <3>3. req'[q].from < Len(activity) + 1
        BY <3>2
      <3> QED
        BY <3>1, <3>3
    <2> QED
      BY <2>2, <2>3
  <1> QED
    BY <1>2, <1>3 DEF Foreseen

\* The entry of a comment is written with it, and changes nothing of replacements.
LEMMA CreateCommentStep ==
  ASSUME Inv, NEW r \in Requests, CreateComment(r)
  PROVE  Inv' /\ CommentsStay
  <1> DEFINE n == Len(comments)
             e == [type |-> "COMMENT_ADDED", comment |-> n + 1]
  <1>1. /\ step[r] # "done" /\ Ends(r)
        /\ UNCHANGED <<labels, taskLabels, projects, rollbacks>>
        /\ LabelsOK /\ CommentsOK /\ ProjectsOK /\ LogOK /\ RequestsOK /\ LabelsAsAsked
        /\ n < MaxComments
    BY DEF CreateComment, At, Inv
  <1>2. PICK a \in Actors :
            /\ comments' = Append(comments, [author |-> AuthorOf(a), editor |-> "nobody",
                                             deleted |-> FALSE])
            /\ activity' = Append(activity, e)
    BY DEF CreateComment, Recorded
  <1> DEFINE row == [author |-> AuthorOf(a), editor |-> "nobody", deleted |-> FALSE]
  <1>3. row \in CommentRow /\ row.editor = "nobody"
    BY DEF CommentRow, Authors, AuthorOf
  <1>4. comments \in Seq(CommentRow)
    BY <1>1 DEF CommentsOK
  <1> HIDE DEF row
  <1>5. /\ comments' \in Seq(CommentRow) /\ Len(comments) \in Nat
        /\ Len(comments') = Len(comments) + 1
        /\ DOMAIN comments = 1..Len(comments) /\ Len(comments) + 1 \notin DOMAIN comments
        /\ DOMAIN comments' = DOMAIN comments \cup {Len(comments) + 1}
        /\ \A c \in DOMAIN comments : comments'[c] = comments[c]
        /\ comments'[Len(comments) + 1] = row
    BY <1>2, <1>3, <1>4, RowAdded DEF row
  <1>6. e \in CommentEntry \cup LabelsEntry /\ e.type = "COMMENT_ADDED" /\ e.comment = n + 1
    BY <1>5 DEF CommentEntry
  <1>7. e.comment \in DOMAIN comments' \ DOMAIN comments
    BY <1>5, <1>6
  <1> HIDE DEF e
  <1>8. LabelsOK' /\ ProjectsOK' /\ Erased' = Erased
    BY <1>1 DEF LabelsOK, ProjectsOK, Live, Erased
  <1>9. CommentsOK'
    <2>1. Len(comments') <= MaxComments
      BY <1>1, <1>5, WorkspaceConstants
    <2> QED
      BY <1>1, <1>3, <1>5, <2>1 DEF CommentsOK
  <1>10. /\ \A i \in DOMAIN activity : activity'[i] = activity[i] /\ i \in Nat /\ i <= Len(activity)
         /\ Replacements' = Replacements /\ Len(activity') = Len(activity) + 1
         /\ DOMAIN activity' = DOMAIN activity \cup {Len(activity) + 1}
         /\ activity'[Len(activity) + 1] = e
         /\ Len(activity) \in Nat /\ DOMAIN activity = 1..Len(activity)
    BY <1>1, <1>2, <1>6, LogGrown, LogRows
  <1>11. LabelsAsAsked'
    <2>1. \A i \in Replacements' : (Newest(i, Len(activity)) => Leaves(i, LabelsOf(taskLabels)))'
      <3> SUFFICES ASSUME NEW i \in Replacements', Newest(i, Len(activity))'
                   PROVE  Leaves(i, LabelsOf(taskLabels))'
        OBVIOUS
      <3>1. Newest(i, Len(activity))
        BY <1>10 DEF Newest, Replacements
      <3>2. Leaves(i, LabelsOf(taskLabels))
        BY <1>1, <1>10, <3>1 DEF LabelsAsAsked
      <3>3. PICK set : set = LabelsOf(taskLabels)
        OBVIOUS
      <3>4. Leaves(i, set)'
        BY <1>1, <1>2, <1>6, <1>8, <1>10, <3>2, <3>3, PastKept
      <3> QED
        BY <1>1, <3>3, <3>4 DEF Leaves, LabelsOf
    <2>2. \A i, k \in Replacements' :
              (Newest(k, activity[i].since) => Leaves(k, activity[i].before))'
      BY <1>1, <1>2, <1>6, <1>10, EntriesKept
    <2> QED
      BY <2>1, <2>2 DEF LabelsAsAsked
  <1>12. ASSUME NEW q \in Requests \ {r}
         PROVE  Foreseen(q)'
    <2>1. step'[q] = step[q] /\ req'[q] = req[q]
      BY <1>1, EndedOK, GoesChanges
    <2>2. Foreseen(q) /\ RequestOK(q)
      BY DEF Inv, RequestsOK
    <2> QED
      BY <1>1, <1>2, <1>6, <2>1, <2>2, ForeseenKept
  <1>13. Inv'
    BY <1>1, <1>2, <1>5, <1>6, <1>7, <1>8, <1>9, <1>11, <1>12, EntryStep
  <1>14. \A c \in DOMAIN comments' \ DOMAIN comments : EntriesOf(c)' = {Len(activity) + 1}
    <2> SUFFICES ASSUME NEW c \in DOMAIN comments' \ DOMAIN comments
                 PROVE  EntriesOf(c)' = {Len(activity) + 1}
      OBVIOUS
    <2>1. c = n + 1
      BY <1>5
    <2>2. \A i \in DOMAIN activity : activity[i].type = "COMMENT_ADDED" => activity[i].comment # c
      BY <1>1 DEF LogOK, CommentEntries
    <2> QED
      BY <1>6, <1>10, <2>1, <2>2 DEF EntriesOf
  <1>15. \A c \in DOMAIN comments : EntriesOf(c)' = EntriesOf(c)
    BY <1>6, <1>7, <1>10 DEF EntriesOf
  <1>16. CommentsStay
    BY <1>5, <1>10, <1>14, <1>15 DEF CommentsStay
  <1> QED
    BY <1>13, <1>16

\* What createMany inserts are rows of their own, one for each label.
LEMMA NewRows ==
  ASSUME NEW set
  PROVE  /\ \A t \in Inserted(set) : /\ t.label \in set
                                     /\ t = [label |-> t.label, entry |-> Len(activity) + 1]
         /\ LabelsOf(Inserted(set)) = set
         /\ set \subseteq Nat /\ Len(activity) \in Nat => Inserted(set) \subseteq TaskLabelRow
  <1>1. \A t \in Inserted(set) :
            t.label \in set /\ t = [label |-> t.label, entry |-> Len(activity) + 1]
    BY DEF Inserted
  <1>2. ASSUME NEW l \in set
        PROVE  l \in LabelsOf(Inserted(set))
    <2>1. [label |-> l, entry |-> Len(activity) + 1] \in Inserted(set)
      BY DEF Inserted
    <2>2. [label |-> l, entry |-> Len(activity) + 1].label = l
      OBVIOUS
    <2> QED
      BY <2>1, <2>2 DEF LabelsOf
  <1>3. LabelsOf(Inserted(set)) \subseteq set
    BY <1>1 DEF LabelsOf
  <1>4. ASSUME set \subseteq Nat, Len(activity) \in Nat
        PROVE  Inserted(set) \subseteq TaskLabelRow
    BY <1>4 DEF Inserted, TaskLabelRow
  <1> QED
    BY <1>1, <1>2, <1>3, <1>4

\* The transaction commits: the task has the labels asked for, and those of others whose
\* rows its DELETE did not see.
LEMMA ReplaceStep ==
  ASSUME Inv, NEW r \in Requests, Replace(r)
  PROVE  Inv' /\ CommentsStay
  <1> DEFINE left == taskLabels \ req[r].held
             e == Replaced(r)
             n == Len(activity) + 1
  <1>1. /\ step[r] = "replacing" /\ step[r] # "done" /\ Ends(r)
        /\ UNCHANGED <<labels, comments, projects, rollbacks>>
        /\ LabelsOK /\ CommentsOK /\ ProjectsOK /\ LogOK /\ RequestsOK /\ LabelsAsAsked
        /\ RequestOK(r) /\ Foreseen(r) /\ rollbacks' \in 0..MaxRollbacks
    BY DEF Replace, At, Inv, RequestsOK
  <1>2. CommentsOK' /\ ProjectsOK' /\ Erased' = Erased /\ Live' = Live
    BY <1>1 DEF CommentsOK, ProjectsOK, Live, Erased
  <1>3. CASE UNCHANGED <<taskLabels, activity>>
    <2>1. LabelsOK'
      BY <1>1, <1>2, <1>3 DEF LabelsOK
    <2> QED
      BY <1>1, <1>2, <1>3, <2>1, RowStep, SameEntries
  <1>4. CASE /\ req[r].give \subseteq Live
             /\ req[r].give \cap LabelsOf(left) = {}
             /\ taskLabels' = left \cup Inserted(req[r].give)
             /\ activity' = Append(activity, e)
    <2>1. /\ req[r] \in Replacing /\ req[r].before \subseteq DOMAIN labels
          /\ req[r].since \in Nat /\ req[r].since <= Len(activity)
          /\ req[r].from \in Nat /\ req[r].from <= Len(activity)
      BY <1>1 DEF RequestOK, Replacing
    <2>2. /\ e \in CommentEntry \cup LabelsEntry /\ e.type = "LABELS_CHANGED"
          /\ e.before = req[r].before /\ e.after = req[r].give
          /\ e.since = req[r].since /\ e.from = req[r].from
      BY <2>1 DEF Replaced, Replacing, LabelsEntry
    <2> HIDE DEF e
    <2>3. LabelsOK'
      <3>1. Inserted(req[r].give) \subseteq TaskLabelRow
        BY <1>1, <2>1, LogRows, NewRows DEF Replacing
      <3>2. taskLabels' \subseteq TaskLabelRow
        BY <1>1, <1>4, <3>1 DEF LabelsOK
      <3>3. LabelsOf(taskLabels') \subseteq Live'
        <4>1. LabelsOf(taskLabels') \subseteq LabelsOf(taskLabels) \cup LabelsOf(Inserted(req[r].give))
          BY <1>4 DEF LabelsOf
        <4>2. LabelsOf(Inserted(req[r].give)) = req[r].give
          BY NewRows
        <4> QED
          BY <1>1, <1>2, <1>4, <4>1, <4>2 DEF LabelsOK
      <3>4. ASSUME NEW t \in taskLabels', NEW u \in taskLabels', t.label = u.label
            PROVE  t = u
        <4>1. CASE t \in left /\ u \in left
          BY <1>1, <3>4, <4>1 DEF LabelsOK
        <4>2. CASE t \in Inserted(req[r].give) /\ u \in Inserted(req[r].give)
          BY <3>4, <4>2, NewRows
        <4>3. \A v \in left, w \in Inserted(req[r].give) : v.label # w.label
          BY <1>4, NewRows DEF LabelsOf
        <4> QED
          BY <1>4, <3>4, <4>1, <4>2, <4>3
      <3> QED
        BY <1>1, <1>2, <3>2, <3>3, <3>4 DEF LabelsOK
    <2>4. /\ req[r].give \subseteq DOMAIN labels
          /\ LabelsOf(taskLabels') = LabelsOf(left) \cup req[r].give
      <3>1. LabelsOf(taskLabels') = LabelsOf(left) \cup LabelsOf(Inserted(req[r].give))
        BY <1>4 DEF LabelsOf
      <3> QED
        BY <1>1, <1>4, <3>1, LabelIds, NewRows
    <2>5. /\ Len(activity') = n /\ activity'[n] = e /\ n \in Replacements'
          /\ Replacements' \subseteq Replacements \cup {n}
          /\ \A i \in Replacements : i \in Replacements' /\ activity'[i] = activity[i]
                                  /\ i \in Nat /\ i < n
          /\ Len(activity) \in Nat
      BY <1>1, <1>4, <2>2, LogGrown, LogRows DEF Replacements
    <2> HIDE DEF n
    <2>6. LabelsAsAsked'
      <3>1. \A i \in Replacements' : (Newest(i, Len(activity)) => Leaves(i, LabelsOf(taskLabels)))'
        <4> SUFFICES ASSUME NEW i \in Replacements', Newest(i, Len(activity))'
                     PROVE  Leaves(i, LabelsOf(taskLabels))'
          OBVIOUS
        <4>1. i = n
          BY <2>5 DEF Newest, n
        <4>2. \A l \in LabelsOf(left) : \E k \in Replacements' :
                  /\ activity'[n].from < k /\ k < n /\ l \in activity'[k].after
          BY <1>1, <2>2, <2>5 DEF Foreseen, LabelsOf
        <4>3. \A l \in LabelsOf(taskLabels') : \/ l \in activity'[n].after
                                      \/ \E k \in Replacements' :
                                            /\ activity'[n].from < k /\ k < n
                                            /\ l \in activity'[k].after
          BY <2>2, <2>4, <2>5, <4>2
        <4>4. activity'[n].after \ LabelsOf(taskLabels') = {}
          BY <2>2, <2>4, <2>5
        <4>5. PICK set : set = LabelsOf(taskLabels')
          OBVIOUS
        <4>6. Leaves(i, set)'
          BY <4>1, <4>3, <4>4, <4>5 DEF Leaves
        <4> QED
          BY <4>5, <4>6 DEF Leaves, LabelsOf
      <3>2. ASSUME NEW i \in Replacements', NEW k \in Replacements',
                   Newest(k, activity[i].since)'
            PROVE  Leaves(k, activity[i].before)'
        <4>1. CASE i \in Replacements
          BY <1>1, <1>4, <2>2, <3>2, <4>1, EntriesKept
        <4>2. CASE i = n
          <5>1. PICK m, set : m = req[r].since /\ set = req[r].before
            OBVIOUS
          <5>2. /\ \A j, l : l \in Nat /\ l <= Len(activity) => (Newest(j, l)' <=> Newest(j, l))
                /\ \A j, s : j \in Replacements /\ Leaves(j, s) => Leaves(j, s)'
            BY <1>1, <1>2, <1>4, <2>2, PastKept
          <5>3. activity'[i].since = m /\ activity'[i].before = set
            BY <2>2, <2>5, <4>2, <5>1
          <5>4. Newest(k, m)'
            BY <3>2, <5>3 DEF Newest
          <5>5. Newest(k, m) /\ k \in Replacements
            BY <2>1, <5>1, <5>2, <5>4 DEF Newest
          <5>6. Leaves(k, set)'
            BY <1>1, <5>1, <5>2, <5>5 DEF Foreseen
          <5> QED
            BY <5>3, <5>6 DEF Leaves
        <4> QED
          BY <2>5, <4>1, <4>2
      <3> QED
        BY <3>1, <3>2 DEF LabelsAsAsked
    <2>7. ASSUME NEW q \in Requests \ {r}
          PROVE  Foreseen(q)'
      <3>1. step'[q] = step[q] /\ req'[q] = req[q]
        BY <1>1, EndedOK, GoesChanges
      <3>2. Foreseen(q) /\ RequestOK(q)
        BY DEF Inv, RequestsOK
      <3>3. \A t \in taskLabels' \ taskLabels : t.label \in e.after
        BY <1>4, <2>2 DEF Inserted
      <3> QED
        BY <1>1, <1>4, <2>2, <3>1, <3>2, <3>3, ForeseenKept
    <2>8. Inv'
      BY <1>1, <1>2, <1>4, <2>1, <2>2, <2>3, <2>4, <2>6, <2>7, EntryStep
    <2>9. CommentsStay
      <3>1. /\ DOMAIN activity' = DOMAIN activity \cup {Len(activity) + 1}
            /\ \A i \in DOMAIN activity : activity'[i] = activity[i]
            /\ activity'[Len(activity) + 1] = e
        BY <1>1, <1>4, <2>2, LogGrown
      <3>2. \A c : EntriesOf(c)' = EntriesOf(c)
        BY <2>2, <3>1 DEF EntriesOf
      <3> QED
        BY <1>1, <3>2 DEF CommentsStay
    <2> QED
      BY <2>8, <2>9
  <1> QED
    BY <1>3, <1>4 DEF Replace, Recorded

-----------------------------------------------------------------------------
(* The initial state, and every step.                                      *)

LEMMA TwoRows ==
  ASSUME NEW S, NEW a \in S, NEW b \in S
  PROVE  /\ <<a, b>> \in Seq(S) /\ Len(<<a, b>>) = 2 /\ DOMAIN <<a, b>> = {1, 2}
         /\ <<a, b>>[1] = a /\ <<a, b>>[2] = b
  <1>1. <<a, b>> \in Seq(S) /\ Len(<<a, b>>) = 2 /\ <<a, b>>[1] = a /\ <<a, b>>[2] = b
    OBVIOUS
  <1>2. DOMAIN <<a, b>> = 1..2
    BY <1>1, LenProperties
  <1>3. 1..2 = {1, 2}
    OBVIOUS
  <1> QED
    BY <1>1, <1>2, <1>3

LEMMA InvInit == WorkspaceInit => Inv
  <1> SUFFICES ASSUME WorkspaceInit PROVE Inv
    OBVIOUS
  <1>1. LabelsOK
    <2> DEFINE one == [name |-> 1, erased |-> FALSE]
               two == [name |-> 2, erased |-> FALSE]
    <2>1. one \in LabelRow /\ two \in LabelRow
      BY WorkspaceConstants DEF LabelRow
    <2>2. /\ one.name = 1 /\ ~one.erased /\ two.name = 2 /\ ~two.erased
          /\ labels = <<one, two>> /\ taskLabels = {[label |-> 1, entry |-> 0]}
      BY DEF WorkspaceInit
    <2> HIDE DEF one, two
    <2>3. /\ labels \in Seq(LabelRow) /\ Len(labels) = 2 /\ DOMAIN labels = {1, 2}
          /\ labels[1] = one /\ labels[2] = two
      BY <2>1, <2>2, TwoRows
    <2>4. Live = {1, 2}
      BY <2>2, <2>3 DEF Live, Erased
    <2>5. Len(labels) <= MaxLabels
      BY <2>3, WorkspaceConstants
    <2>6. taskLabels \subseteq TaskLabelRow /\ LabelsOf(taskLabels) = {1}
      BY <2>2 DEF TaskLabelRow, LabelsOf
    <2> QED
      BY <2>2, <2>3, <2>4, <2>5, <2>6 DEF LabelsOK
  <1>2. CommentsOK
    <2> DEFINE one == [author |-> TaskCreator, editor |-> "nobody", deleted |-> FALSE]
               two == [author |-> "apiKey", editor |-> "nobody", deleted |-> FALSE]
    <2>1. one \in CommentRow /\ two \in CommentRow
      BY WorkspaceConstants DEF CommentRow, Authors
    <2>2. one.editor = "nobody" /\ two.editor = "nobody" /\ comments = <<one, two>>
      BY DEF WorkspaceInit
    <2> HIDE DEF one, two
    <2>3. /\ comments \in Seq(CommentRow) /\ Len(comments) = 2 /\ DOMAIN comments = {1, 2}
          /\ comments[1] = one /\ comments[2] = two
      BY <2>1, <2>2, TwoRows
    <2>4. Len(comments) <= MaxComments
      BY <2>3, WorkspaceConstants
    <2> QED
      BY <2>2, <2>3, <2>4 DEF CommentsOK
  <1>3. ProjectsOK
    <2> DEFINE one == [key |-> 1, status |-> "ACTIVE", deleted |-> FALSE]
               two == [key |-> 2, status |-> "ACTIVE", deleted |-> FALSE]
    <2>1. one \in ProjectRow /\ two \in ProjectRow
      BY WorkspaceConstants DEF ProjectRow
    <2>2. one.key = 1 /\ two.key = 2 /\ projects = <<one, two>>
      BY DEF WorkspaceInit
    <2> HIDE DEF one, two
    <2>3. /\ projects \in Seq(ProjectRow) /\ Len(projects) = 2 /\ DOMAIN projects = {1, 2}
          /\ projects[1] = one /\ projects[2] = two
      BY <2>1, <2>2, TwoRows
    <2>4. Len(projects) <= MaxProjects
      BY <2>3, WorkspaceConstants
    <2> QED
      BY <2>2, <2>3, <2>4 DEF ProjectsOK
  <1>4. activity \in Seq(CommentEntry \cup LabelsEntry) /\ DOMAIN activity = {} /\ Len(activity) = 0
    BY DEF WorkspaceInit
  <1>5. Replacements = {} /\ CommentEntries = {}
    BY <1>4 DEF Replacements, CommentEntries
  <1>6. LogOK
    <2> DEFINE D == Done
    <2>1. D \in SUBSET Requests
      BY DEF Done
    <2> HIDE DEF D
    <2>2. Cardinality(D) \in Nat
      BY <2>1, FS_Subset, FS_CardinalityType, WorkspaceConstants
    <2>3. Len(activity) <= Cardinality(Done)
      BY <1>4, <2>2 DEF D
    <2> QED
      BY <1>4, <1>5, <2>3 DEF LogOK
  <1>7. \A r \in Requests : RequestOK(r) /\ Foreseen(r)
    BY DEF WorkspaceInit, RequestOK, Foreseen, Writes, At, None
  <1>8. RequestsOK
    <2>1. step \in [Requests -> Steps]
      BY DEF WorkspaceInit, Steps
    <2>2. rollbacks \in 0..MaxRollbacks
      BY WorkspaceConstants DEF WorkspaceInit
    <2> QED
      BY <1>7, <2>1, <2>2 DEF WorkspaceInit, RequestsOK
  <1>9. LabelsAsAsked
    BY <1>5 DEF LabelsAsAsked
  <1> QED
    BY <1>1, <1>2, <1>3, <1>6, <1>7, <1>8, <1>9 DEF Inv

LEMMA RequestStep ==
  ASSUME Inv, NEW r \in Requests,
         \/ Arrive(r)
         \/ LabelStep(r) \/ CommentStep(r) \/ ProjectStep(r)
         \/ \E list \in Lists : StartWalk(r, list)
         \/ NextPage(r)
  PROVE  Inv' /\ CommentsStay
  <1>1. CASE LabelStep(r)
    <2>1. CASE Replace(r)
      BY <2>1, ReplaceStep
    <2>2. CASE ~Replace(r)
      <3>1. comments' = comments /\ activity' = activity
        BY <1>1, <2>2 DEF LabelStep, CreateLabel, InsertLabel, FindLabel, CheckName, RenameLabel,
                    EraseLabel, FindLabels, ListForTask, StartDelete, FinishDelete, Rollback,
                    rows
      <3>2. Inv'
        BY <1>1, <2>2, LookUpStep, InsertLabelStep, RenameLabelStep, EraseLabelStep,
           FindLabelsStep, ListForTaskStep, StartDeleteStep, FinishDeleteStep, RollbackStep
           DEF LabelStep
      <3> QED
        BY <3>1, <3>2, SameEntries
    <2> QED
      BY <2>1, <2>2
  <1>2. CASE CreateComment(r) \/ EditComment(r) \/ DeleteComment(r)
    BY <1>2, CreateCommentStep, WriteCommentStep
  <1>3. ASSUME NEW c \in DOMAIN comments, FindComment(r, c)
        PROVE  Inv' /\ CommentsStay
    <2>1. comments' = comments /\ activity' = activity
      BY <1>3 DEF FindComment, rows
    <2> QED
      BY <1>3, <2>1, FindCommentStep, SameEntries
  <1>4. CASE ProjectStep(r)
    <2>1. comments' = comments /\ activity' = activity
      BY <1>4 DEF ProjectStep, CreateProject, InsertProject, FindProject, SetStatus,
                  RemoveProject, rows
    <2>2. Inv'
      BY <1>4, LookUpStep, InsertProjectStep, WriteProjectStep DEF ProjectStep
    <2> QED
      BY <2>1, <2>2, SameEntries
  <1>5. CASE Arrive(r)
    <2>1. comments' = comments /\ activity' = activity
      BY <1>5 DEF Arrive, rows
    <2> QED
      BY <1>5, <2>1, ArriveStep, SameEntries
  <1>6. CASE NextPage(r) \/ \E list \in Lists : StartWalk(r, list)
    <2>1. comments' = comments /\ activity' = activity
      BY <1>6 DEF NextPage, StartWalk, rows
    <2> QED
      BY <1>6, <2>1, WalkStep, SameEntries
  <1> QED
    BY <1>1, <1>2, <1>3, <1>4, <1>5, <1>6 DEF CommentStep

LEMMA InvStep == Inv /\ [WorkspaceNext]_vars => Inv' /\ CommentsStay
  <1> SUFFICES ASSUME Inv, [WorkspaceNext]_vars
               PROVE  Inv' /\ CommentsStay
    OBVIOUS
  <1>1. CASE WorkspaceNext
    <2>1. ASSUME NEW r \in Requests,
                 \/ Arrive(r)
                 \/ LabelStep(r) \/ CommentStep(r) \/ ProjectStep(r)
                 \/ \E list \in Lists : StartWalk(r, list)
                 \/ NextPage(r)
          PROVE  Inv' /\ CommentsStay
      BY <2>1, RequestStep
    <2> QED
      BY <1>1, <2>1 DEF WorkspaceNext
  <1>2. CASE UNCHANGED vars
    <2>1. UNCHANGED <<labels, taskLabels, comments, projects, activity, step, req, rollbacks>>
      BY <1>2 DEF vars, rows
    <2>2. /\ LabelsOK' /\ CommentsOK' /\ ProjectsOK' /\ LogOK'
      BY <2>1 DEF Inv, LabelsOK, CommentsOK, ProjectsOK, LogOK, Live, Erased, CommentEntries,
                  Replacements, Done
    <2>3. RequestsOK'
      BY <2>1 DEF Inv, RequestsOK, RequestOK, Writes, At
    <2>4. LabelsAsAsked' /\ \A q \in Requests : Foreseen(q)'
      BY <2>1, HistoryKept DEF Inv, Erased, LabelsOf
    <2>5. CommentsStay
      BY <2>1, SameEntries
    <2> QED
      BY <2>2, <2>3, <2>4, <2>5 DEF Inv
  <1> QED
    BY <1>1, <1>2

-----------------------------------------------------------------------------
(* Walks through the lists.                                                *)

\* A client at a cursor knows its list, unless the row of a cursor of its left it or moved.
WalkFits(r) ==
    step[r] \in {"walking", "walked"} =>
        /\ req[r].list \in Lists /\ req[r].seen \in Seq(Nat)
        /\ step[r] = "walked" <=> req[r].cursor = NoCursor
        /\ r \notin unsure => Abreast(req[r].seen, req[r].cursor, req[r].first, touched[r],
                                      Listed(req[r].list), Place(req[r].list))

LEMMA TableRows ==
  ASSUME NEW S, NEW table \in Seq(S)
  PROVE  /\ DOMAIN table \subseteq Nat \ {0} /\ IsFiniteSet(DOMAIN table)
         /\ DOMAIN NewestFirst(table) = DOMAIN table
         /\ \A i \in DOMAIN table : NewestFirst(table)[i] \in Int
  <1>1. DOMAIN table = 1..Len(table) /\ Len(table) \in Nat
    OBVIOUS
  <1>2. IsFiniteSet(1..Len(table))
    BY <1>1, FS_Interval
  <1> QED
    BY <1>1, <1>2 DEF NewestFirst

LEMMA ListedRows ==
  ASSUME Inv, NEW list \in Lists
  PROVE  /\ Placed(Listed(list), Place(list)) /\ Listed(list) \subseteq DOMAIN Place(list)
         /\ Listed(list) \subseteq Nat
  <1>0. LabelsOK /\ CommentsOK /\ ProjectsOK /\ LogOK
    BY DEF Inv
  <1>1. CASE list = "labels"
    <2>1. Listed(list) = Live /\ Place(list) = [l \in Live |-> labels[l].name]
      BY <1>1 DEF Listed, Place
    <2>2. Live \subseteq DOMAIN labels /\ DOMAIN labels \subseteq Nat \ {0}
          /\ IsFiniteSet(DOMAIN labels) /\ \A l \in DOMAIN labels : labels[l] \in LabelRow
      BY <1>0, TableRows DEF LabelsOK, Live
    <2>3. IsFiniteSet(Live)
      BY <2>2, FS_Subset
    <2>4. \A l \in Live : labels[l].name \in Int
      <3>1. \A n \in Names : n \in Int
        BY WorkspaceConstants
      <3>2. \A l \in Live : labels[l].name \in Names
        BY <2>2 DEF LabelRow
      <3> QED
        BY <3>1, <3>2
    <2> QED
      BY <2>1, <2>2, <2>3, <2>4 DEF Placed
  <1>2. CASE list = "comments"
    <2>1. /\ Listed(list) = {c \in DOMAIN comments : ~comments[c].deleted}
          /\ Place(list) = [c \in DOMAIN comments |-> c]
      BY <1>2 DEF Listed, Place
    <2>2. DOMAIN comments \subseteq Nat \ {0} /\ IsFiniteSet(DOMAIN comments)
      BY <1>0, TableRows DEF CommentsOK
    <2>3. Listed(list) \subseteq DOMAIN comments /\ IsFiniteSet(Listed(list))
      BY <2>1, <2>2, FS_Subset
    <2> QED
      BY <2>1, <2>2, <2>3 DEF Placed
  <1>3. CASE list = "activity"
    <2>1. Listed(list) = DOMAIN activity /\ Place(list) = NewestFirst(activity)
      BY <1>3 DEF Listed, Place
    <2>2. /\ DOMAIN activity \subseteq Nat \ {0} /\ IsFiniteSet(DOMAIN activity)
          /\ DOMAIN NewestFirst(activity) = DOMAIN activity
          /\ \A i \in DOMAIN activity : NewestFirst(activity)[i] \in Int
      BY <1>0, TableRows DEF LogOK
    <2> QED
      BY <2>1, <2>2 DEF Placed
  <1>4. CASE list \in {"projects", "active projects"}
    <2>1. Listed(list) \subseteq DOMAIN projects /\ Place(list) = NewestFirst(projects)
      BY <1>4 DEF Listed, Place
    <2>2. /\ DOMAIN projects \subseteq Nat \ {0} /\ IsFiniteSet(DOMAIN projects)
          /\ DOMAIN NewestFirst(projects) = DOMAIN projects
          /\ \A i \in DOMAIN projects : NewestFirst(projects)[i] \in Int
      BY <1>0, TableRows DEF ProjectsOK
    <2>3. IsFiniteSet(Listed(list))
      BY <2>1, <2>2, FS_Subset
    <2> QED
      BY <2>1, <2>2, <2>3 DEF Placed
  <1> QED
    BY <1>1, <1>2, <1>3, <1>4 DEF Lists

\* While others write, what left the list or moved in it counts as touched.
LEMMA WalkBeside ==
  ASSUME Inv, Track, NEW r \in Requests, WalkFits(r), step'[r] = step[r], req'[r] = req[r]
  PROVE  WalkFits(r)'
  <1> SUFFICES ASSUME step[r] \in {"walking", "walked"}
               PROVE  /\ req[r].list \in Lists /\ req[r].seen \in Seq(Nat)
                      /\ step[r] = "walked" <=> req[r].cursor = NoCursor
                      /\ r \notin unsure' =>
                            Abreast(req[r].seen, req[r].cursor, req[r].first, touched'[r],
                                    Listed(req[r].list)', Place(req[r].list)')
    BY DEF WalkFits
  <1>1. /\ req[r].list \in Lists /\ req[r].seen \in Seq(Nat)
        /\ step[r] = "walked" <=> req[r].cursor = NoCursor
    BY DEF WalkFits
  <1>2. PICK list \in Lists : list = req[r].list
    BY <1>1
  <1>3. Listed(req[r].list)' = Listed(list)' /\ Place(req[r].list)' = Place(list)'
    BY <1>2 DEF Listed, Place
  <1>4. ASSUME r \notin unsure'
        PROVE  Abreast(req[r].seen, req[r].cursor, req[r].first, touched'[r], Listed(list)', Place(list)')
    <2> DEFINE moved == [l \in Lists |-> Moved(l)]
               walks == {q \in Requests : At(q, "walking")}
    <2>1. /\ touched'[r] = IF r \in walks THEN touched[r] \cup moved[list] ELSE touched[r]
          /\ unsure' = unsure \cup {q \in walks : req[q].cursor \in moved[req[q].list]}
      BY <1>2 DEF Track
    <2>2. moved[list] = {i \in Listed(list) : i \notin Listed(list)' \/ Place(list)[i] # Place(list)'[i]}
      BY DEF Moved
    <2> HIDE DEF moved
    <2>3. r \in walks <=> req[r].cursor # NoCursor
      BY <1>1 DEF At
    <2>4. r \notin unsure /\ touched[r] \subseteq touched'[r]
      BY <1>4, <2>1
    <2>5. ASSUME req[r].cursor # NoCursor
          PROVE  \A i \in Listed(list) : i \notin Listed(list)' \/ Place(list)[i] # Place(list)'[i]
                     => i \in touched'[r] /\ i # req[r].cursor
      <3>1. r \in walks /\ req[r].cursor \notin moved[list]
        BY <1>2, <1>4, <2>1, <2>3, <2>5
      <3> QED
        BY <2>1, <2>2, <3>1
    <2>6. Abreast(req[r].seen, req[r].cursor, req[r].first, touched[r], Listed(list), Place(list))
      BY <1>2, <2>4 DEF WalkFits
    <2> HIDE DEF walks
    <2> QED
      BY <2>4, <2>5, <2>6, StaysAbreast
  <1> QED
    BY <1>1, <1>2, <1>3, <1>4

ClientsAbreast == \A r \in Requests : WalkFits(r)

\* No other action sets out on a walk or ends one.
StaysOff(r) == \E s \in Steps \ {"walking", "walked"} : \E what : Goes(r, s, what)

LEMMA OffWalks ==
  ASSUME RequestsOK, NEW r \in Requests,
         Arrive(r) \/ LabelStep(r) \/ CommentStep(r) \/ ProjectStep(r)
  PROVE  /\ step'[r] \notin {"walking", "walked"}
         /\ \A q \in Requests \ {r} : step'[q] = step[q] /\ req'[q] = req[q]
  <1>1. ASSUME NEW s \in Steps \ {"walking", "walked"}, NEW what, Goes(r, s, what)
        PROVE  StaysOff(r)
    BY <1>1 DEF StaysOff
  <1>2. ASSUME NEW s \in Steps \ {"walking", "walked"}, To(r, s)
        PROVE  StaysOff(r)
    BY <1>1, <1>2, ToIsGoes
  <1>3. Ends(r) => StaysOff(r)
    BY <1>1 DEF Ends, Steps
  <1>4. {"reading", "checking", "inserting", "writing", "listing", "deleting", "waiting",
         "replacing"} \subseteq Steps \ {"walking", "walked"}
    BY DEF Steps
  <1>5. ASSUME Arrive(r) PROVE StaysOff(r)
    <2>1. PICK q \in Bodies :
              Goes(r, IF q.op = "setLabels" THEN "checking" ELSE "reading", q)
      BY <1>5 DEF Arrive
    <2>2. Goes(r, "checking", q) \/ Goes(r, "reading", q)
      BY <2>1
    <2> QED
      BY <1>1, <1>4, <2>2
  <1>6. ASSUME LabelStep(r) PROVE StaysOff(r)
    <2>1. \/ Ends(r)
          \/ To(r, "inserting") \/ To(r, "checking") \/ To(r, "writing") \/ To(r, "listing")
          \/ \E what : \/ Goes(r, "deleting", what)
                       \/ Goes(r, "waiting", what) \/ Goes(r, "replacing", what)
      BY <1>6 DEF LabelStep, CreateLabel, InsertLabel, FindLabel, CheckName, RenameLabel,
                  EraseLabel, FindLabels, ListForTask, StartDelete, FinishDelete, Replace,
                  Rollback
    <2> QED
      BY <1>1, <1>2, <1>3, <1>4, <2>1
  <1>7. ASSUME CommentStep(r) PROVE StaysOff(r)
    <2>1. Ends(r) \/ \E what : Goes(r, "writing", what)
      BY <1>7 DEF CommentStep, CreateComment, EditComment, DeleteComment, FindComment
    <2> QED
      BY <1>1, <1>3, <1>4, <2>1
  <1>8. ASSUME ProjectStep(r) PROVE StaysOff(r)
    <2>1. Ends(r) \/ To(r, "inserting") \/ To(r, "writing")
      BY <1>8 DEF ProjectStep, CreateProject, InsertProject, FindProject, SetStatus,
                  RemoveProject
    <2> QED
      BY <1>2, <1>3, <1>4, <2>1
  <1>9. StaysOff(r)
    BY <1>5, <1>6, <1>7, <1>8
  <1> QED
    BY <1>9, GoesChanges DEF StaysOff

\* A page: nothing else changes meanwhile.
LEMMA WalkOn ==
  ASSUME Inv, Track, NEW r \in Requests, WalkFits(r),
         NextPage(r) \/ \E list \in Lists : StartWalk(r, list)
  PROVE  /\ WalkFits(r)'
         /\ \A q \in Requests \ {r} : step'[q] = step[q] /\ req'[q] = req[q]
  <1>1. UNCHANGED <<labels, comments, projects, activity>>
    BY DEF NextPage, StartWalk, rows
  <1>2. \A list \in Lists : Listed(list)' = Listed(list) /\ Place(list)' = Place(list)
    BY <1>1 DEF Listed, Place, NewestFirst, Live, Erased
  <1>3. [list \in Lists |-> Moved(list)] = [list \in Lists |-> {}]
    BY <1>2 DEF Moved
  <1>4. unsure \subseteq unsure'
    BY DEF Track
  <1>5. PageSize \in Nat \ {0}
    BY WorkspaceConstants
  <1>6. ASSUME NEW list \in Lists, NEW seen \in Seq(Nat), NEW cursor, NEW first,
               HasPage(r, list, seen, first, Page(list, cursor)),
               r \notin unsure' => Abreast(seen \o Page(list, cursor).data,
                                         Page(list, cursor).nextCursor, first, touched'[r],
                                         Listed(list), Place(list))
        PROVE  /\ WalkFits(r)'
               /\ \A q \in Requests \ {r} : step'[q] = step[q] /\ req'[q] = req[q]
    <2> DEFINE page == Page(list, cursor)
               s == IF page.nextCursor = NoCursor THEN "walked" ELSE "walking"
               what == [op |-> "walk", list |-> list, seen |-> seen \o page.data,
                        cursor |-> page.nextCursor, first |-> first]
    <2>1. page.data \in Seq(Listed(list))
      BY <1>5, ListedRows, PageIsListed DEF Page, PageAfter
    <2>2. page.data \in Seq(Nat)
      BY <2>1, ListedRows, SeqOfMore
    <2>3. seen \o page.data \in Seq(Nat)
      BY <2>2, SeenGrows
    <2>4. Goes(r, s, what) /\ s \in Steps
      BY <1>6 DEF HasPage, Steps
    <2>5. /\ step'[r] = s /\ req'[r] = what
          /\ \A q \in Requests \ {r} : step'[q] = step[q] /\ req'[q] = req[q]
      BY <2>4, GoesChanges DEF Inv
    <2>6. /\ req'[r].list = list /\ req'[r].seen = seen \o page.data
          /\ req'[r].cursor = page.nextCursor /\ req'[r].first = first
      BY <2>5
    <2>7. Listed(req[r].list)' = Listed(list) /\ Place(req[r].list)' = Place(list)
      <3>1. Listed(req[r].list)' = Listed(list)' /\ Place(req[r].list)' = Place(list)'
        BY <2>6 DEF Listed, Place
      <3> QED
        BY <1>2, <3>1
    <2>8. step'[r] = "walked" <=> page.nextCursor = NoCursor
      BY <2>5
    <2> HIDE DEF page, s, what
    <2>9. WalkFits(r)'
      BY <1>6, <2>3, <2>6, <2>7, <2>8 DEF WalkFits, page
    <2> QED
      BY <2>5, <2>9
  <1>7. ASSUME NEW list \in Lists, StartWalk(r, list)
        PROVE  /\ WalkFits(r)'
               /\ \A q \in Requests \ {r} : step'[q] = step[q] /\ req'[q] = req[q]
    <2>1. HasPage(r, list, <<>>, Listed(list), Page(list, NoCursor))
      BY <1>7 DEF StartWalk
    <2>2. Abreast(<<>> \o Page(list, NoCursor).data, Page(list, NoCursor).nextCursor,
                  Listed(list), touched'[r], Listed(list), Place(list))
      BY <1>5, ListedRows, SetsOutAbreast DEF Page, PageAfter
    <2>3. <<>> \in Seq(Nat)
      OBVIOUS
    <2> QED
      BY <1>6, <2>1, <2>2, <2>3
  <1>8. CASE NextPage(r)
    <2>1. /\ At(r, "walking")
          /\ HasPage(r, req[r].list, req[r].seen, req[r].first, Page(req[r].list, req[r].cursor))
      BY <1>8 DEF NextPage
    <2>2. /\ req[r].list \in Lists /\ req[r].seen \in Seq(Nat) /\ req[r].cursor # NoCursor
      BY <2>1 DEF WalkFits, At
    <2>3. touched'[r] = touched[r]
      BY <1>3, <2>1, <2>2 DEF Track
    <2>4. ASSUME r \notin unsure'
          PROVE  Abreast(req[r].seen \o Page(req[r].list, req[r].cursor).data,
                         Page(req[r].list, req[r].cursor).nextCursor, req[r].first, touched'[r],
                         Listed(req[r].list), Place(req[r].list))
      <3>1. Abreast(req[r].seen, req[r].cursor, req[r].first, touched[r],
                    Listed(req[r].list), Place(req[r].list))
        BY <1>4, <2>1, <2>4 DEF WalkFits, At
      <3> QED
        BY <1>5, <2>2, <2>3, <3>1, ListedRows, WalksOnAbreast DEF Page, PageAfter
    <2> QED
      BY <1>6, <2>1, <2>2, <2>4
  <1> QED
    BY <1>7, <1>8

LEMMA WalksStep == Inv /\ ClientsAbreast /\ [WorkspaceNext]_vars => ClientsAbreast'
  <1> SUFFICES ASSUME Inv, \A q \in Requests : WalkFits(q), [WorkspaceNext]_vars,
                      NEW p \in Requests
               PROVE  WalkFits(p)'
    BY DEF ClientsAbreast
  <1>1. ASSUME NEW r \in Requests, Track,
               Arrive(r) \/ LabelStep(r) \/ CommentStep(r) \/ ProjectStep(r)
        PROVE  WalkFits(p)'
    <2>1. /\ step'[r] \notin {"walking", "walked"}
          /\ \A q \in Requests \ {r} : step'[q] = step[q] /\ req'[q] = req[q]
      BY <1>1, OffWalks DEF Inv
    <2>2. CASE p = r
      BY <2>1, <2>2 DEF WalkFits
    <2>3. CASE p # r
      BY <1>1, <2>1, <2>3, WalkBeside
    <2> QED
      BY <2>2, <2>3
  <1>2. ASSUME NEW r \in Requests, Track,
               NextPage(r) \/ \E list \in Lists : StartWalk(r, list)
        PROVE  WalkFits(p)'
    <2>1. /\ WalkFits(r)'
          /\ \A q \in Requests \ {r} : step'[q] = step[q] /\ req'[q] = req[q]
      BY <1>2, WalkOn
    <2> QED
      BY <1>2, <2>1, WalkBeside
  <1>3. CASE UNCHANGED vars
    BY <1>3 DEF vars, rows, history, WalkFits, Listed, Place, NewestFirst, Live, Erased
  <1> QED
    BY <1>1, <1>2, <1>3 DEF WorkspaceNext

-----------------------------------------------------------------------------
(* The theorems.                                                           *)

\* The inductive invariant holds in every state: what requests under way still know of the
\* rows and of the log (labels.service.ts, comments.service.ts, projects.service.ts).
THEOREM InvHolds == WorkspaceSpec => []Inv
  <1>1. Inv /\ [WorkspaceNext]_vars => Inv'
    BY InvStep
  <1> QED
    BY <1>1, InvInit, PTL DEF WorkspaceSpec

\* The state keeps its types, and the unique indexes on names and keys hold.
THEOREM TypeCorrect == WorkspaceSpec => []WorkspaceTypeOK
  <1>1. Inv => WorkspaceTypeOK
    <2> SUFFICES ASSUME Inv PROVE WorkspaceTypeOK
      OBVIOUS
    <2>1. LabelsOK /\ CommentsOK /\ ProjectsOK /\ LogOK /\ RequestsOK
      BY DEF Inv
    <2>2. Len(activity) <= Cardinality(Requests)
      <3> DEFINE D == Done
      <3>1. D \in SUBSET Requests /\ Len(activity) <= Cardinality(D) /\ Len(activity) \in Nat
        BY <2>1, LogRows DEF LogOK, Done
      <3> HIDE DEF D
      <3>2. IsFiniteSet(Requests)
        BY WorkspaceConstants
      <3>3. Cardinality(D) <= Cardinality(Requests) /\ IsFiniteSet(D)
        BY <3>1, <3>2, FS_Subset
      <3>4. Cardinality(D) \in Nat /\ Cardinality(Requests) \in Nat
        BY <3>2, <3>3, FS_CardinalityType
      <3> QED
        BY <3>1, <3>3, <3>4
    <2>3. ASSUME NEW e \in Range(activity)
          PROVE  \/ e.type = "COMMENT_ADDED" /\ e.comment \in DOMAIN comments
                 \/ /\ e.type = "LABELS_CHANGED"
                    /\ e.before \subseteq DOMAIN labels /\ e.after \subseteq DOMAIN labels
      <3>1. PICK i \in DOMAIN activity : activity[i] = e
        BY DEF Range
      <3>2. e \in CommentEntry \/ e \in LabelsEntry
        BY <2>1, <3>1, LogRows
      <3>3. CASE e \in CommentEntry
        <4>1. e.type = "COMMENT_ADDED"
          BY <3>3 DEF CommentEntry
        <4> QED
          BY <2>1, <3>1, <4>1 DEF LogOK, CommentEntries
      <3>4. CASE e \in LabelsEntry
        <4>1. e.type = "LABELS_CHANGED"
          BY <3>4 DEF LabelsEntry
        <4> QED
          BY <2>1, <3>1, <4>1 DEF LogOK, Replacements
      <3> QED
        BY <3>2, <3>3, <3>4
    <2>4. \A r \in Requests : req[r] = None <=> step[r] \in {"new", "done"}
      BY <2>1 DEF RequestsOK, RequestOK
    <2> QED
      BY <2>1, <2>2, <2>3, <2>4
         DEF LabelsOK, CommentsOK, ProjectsOK, RequestsOK, WorkspaceTypeOK
  <1> QED
    BY <1>1, InvHolds, PTL

\* labels.service.ts:40: the labels of the task are those that the last replacement left,
\* and every entry tells what the last one before its read had left, for any number of
\* concurrent replacements, erasures and rollbacks.
THEOREM LastReplacementStands == WorkspaceSpec => []LabelsAsAsked
  <1>1. Inv => LabelsAsAsked
    BY DEF Inv
  <1> QED
    BY <1>1, InvHolds, PTL

\* comments.service.ts: no request brings a deleted comment back, a comment is edited by the
\* user who wrote it or not at all, and every comment created gets one entry of the log, in
\* the step that creates it and in no other.
THEOREM CommentsAreSettled == WorkspaceSpec => CommentsSettle
  <1>1. Inv /\ [WorkspaceNext]_vars =>
          [/\ \A c \in DOMAIN comments : comments[c].deleted => comments'[c].deleted
           /\ \A c \in DOMAIN comments' :
                comments'[c].editor # "nobody" => /\ comments'[c].editor = comments'[c].author
                                                  /\ comments'[c].editor # "apiKey"
           /\ \A c \in DOMAIN comments' :
                IF c \in DOMAIN comments THEN EntriesOf(c)' = EntriesOf(c)
                ELSE \E i \in DOMAIN activity' \ DOMAIN activity : EntriesOf(c)' = {i}]_vars
    BY InvStep DEF Inv, CommentsOK, CommentsStay
  <1> QED
    BY <1>1, InvHolds, PTL DEF WorkspaceSpec, CommentsSettle

\* Wherever a walk is in a list of labels, comments, projects or entries, its client is
\* abreast of it (pagination.ts), unless the cursor's row left or moved.
THEOREM WalksFit == WorkspaceSpec => []ClientsAbreast
  <1>1. WorkspaceInit => ClientsAbreast
    BY DEF WorkspaceInit, ClientsAbreast, WalkFits
  <1> QED
    BY <1>1, WalksStep, InvHolds, PTL DEF WorkspaceSpec

\* adr/0006: who walks a list to its end sees every row that stayed in its place, and none
\* twice, for lists, pages and walks of any number and length.
THEOREM WalksSeeWhatStays == WorkspaceSpec => []WalkSeesWhatStays
  <1>1. ClientsAbreast => WalkSeesWhatStays
    <2> SUFFICES ASSUME NEW r \in Requests \ unsure, WalkFits(r),
                        step[r] \in {"walking", "walked"}
                 PROVE  /\ At(r, "walked") => req[r].first \ touched[r] \subseteq Range(req[r].seen)
                        /\ \A i, j \in DOMAIN req[r].seen :
                              req[r].seen[i] = req[r].seen[j] /\ req[r].seen[i] \notin touched[r]
                              => i = j
      BY DEF ClientsAbreast, WalkSeesWhatStays
    <2>1. DOMAIN req[r].seen = 1..Len(req[r].seen)
      BY DEF WalkFits
    <2>2. Abreast(req[r].seen, req[r].cursor, req[r].first, touched[r], Listed(req[r].list),
                  Place(req[r].list))
      BY DEF WalkFits
    <2>3. At(r, "walked") => req[r].cursor = NoCursor
      BY DEF At, WalkFits
    <2> QED
      BY <2>1, <2>2, <2>3 DEF Abreast
  <1> QED
    BY <1>1, WalksFit, PTL

-----------------------------------------------------------------------------
(* The two halves of MCWorkspace.                                          *)

\* A behaviour of the run is one of Workspace and one of EmailVerification, so what is
\* proved of either holds of it.
THEOREM RunImplementsBoth == Spec => WorkspaceSpec /\ VerificationSpec
  <1>1. Init => WorkspaceInit /\ VerificationInit
    BY DEF Init
  <1>2. ASSUME [Next]_<<vars, verification, moves>>
        PROVE  [WorkspaceNext]_vars /\ [VerificationNext]_verification
    <2>1. CASE Next
      BY <2>1 DEF Next
    <2>2. CASE UNCHANGED <<vars, verification, moves>>
      BY <2>2
    <2> QED
      BY <1>2, <2>1, <2>2
  <1> QED
    BY <1>1, <1>2, PTL DEF Spec, WorkspaceSpec, VerificationSpec

\* The state of both keeps its types, for any members, requests, attempts and sendings.
THEOREM BothTypeCorrect == Spec => []TypeOK
  BY RunImplementsBoth, TypeCorrect, VerificationTypeCorrect, PTL DEF TypeOK
=============================================================================
