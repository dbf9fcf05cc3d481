-------------------------- MODULE OrganizationProofs --------------------------
(***************************************************************************)
(* Theorems about Organization, for any users, any number of requests and  *)
(* of faults, and any roles and scopes that are asked for.                 *)
(***************************************************************************)
EXTENDS Organization, FiniteSetTheorems, SequenceTheorems, TLAPS

-----------------------------------------------------------------------------
(* The inductive invariant.                                                *)

MemberOps == {"updateRole", "remove", "leave", "transfer"}
Ops == MemberOps \cup {"delete", "list", "invite", "revoke", "createKey", "revokeKey"}

\* What the middlewares let through, and the other things a request is about.
Asked == [op : Ops, id : Nat, give : Given \cup {"none"}, scopes : SUBSET PERMISSIONS,
          on : Users \cup {Key}, by : Users \cup {Key}, row : Nat, as : Roles \cup {"none"}]
Acceptances == [op : {"accept"}, id : Nat, by : Users]
Founding == [op |-> "create", by |-> Founder]
Replies == [op : {"answered"}, status : Nat]
Forms == Asked \cup Acceptances \cup {None, Founding} \cup Replies

\* The unique indexes.
OneRowEach ==
    \A i, j \in DOMAIN members :
        members[i].user = members[j].user /\ members[i].role # Gone /\ members[j].role # Gone
            => i = j
OnePendingEach ==
    \A i, j \in DOMAIN invitations :
        invitations[i].email = invitations[j].email /\ Pending(i) /\ Pending(j) => i = j

MembersOK == members \in Seq(MembershipRow) /\ OneRowEach

InvitationsOK ==
    /\ invitations \in Seq(InvitationRow) /\ OnePendingEach
    /\ mailed \subseteq DOMAIN invitations
    /\ admitted \in Seq(Nat) /\ Len(admitted) = Len(invitations)
    /\ \A i \in DOMAIN invitations : ~invitations[i].accepted => admitted[i] = 0

KeysOK ==
    /\ keys \in Seq(ApiKeyRow)
    /\ \A k \in DOMAIN keys : \A p \in keys[k].scopes : isPermissionGrantableToApiKey(p)

RowsOK ==
    /\ organization \in {"none", "live", "deleted"} /\ verified \subseteq Users
    /\ MembersOK /\ InvitationsOK /\ KeysOK
    /\ faults \in 0..MaxFaults /\ orphaned \in BOOLEAN

\* What every request holds, overtaken or not: the rows it names are those of the people
\* it names, and what the middlewares and the checks have established once.
Fits(q) ==
    /\ q \in Asked
    /\ q.by = Key => q.op = "list"
    /\ q.by # Key => /\ q.row \in DOMAIN members /\ members[q.row].user = q.by
                     /\ q.as \in Roles
                     /\ roleHasPermission(q.as, RoutePermission(q.op))
    /\ q.op \in MemberOps \cup {"invite"} => q.on \in Users
    /\ q.op = "leave" => q.on = q.by
    /\ q.op \in {"updateRole", "invite"} => q.give \in Given
    /\ q.op = "revoke" => q.id \in DOMAIN invitations
    /\ q.op = "revokeKey" => q.id \in DOMAIN keys

Accepts(q) ==
    /\ q \in Acceptances
    /\ q.id \in DOMAIN invitations /\ q.by = invitations[q.id].email

WritesMember(q) ==
    /\ Fits(q) /\ q.op \in MemberOps
    /\ q.id \in DOMAIN members /\ members[q.id].user = q.on
    /\ q.op = "updateRole" => q.give # "OWNER"

Inviting == {"lookup", "retiring", "inserting", "mailing"}

RequestFits(r) ==
    /\ At(r, "new") => req[r] = None
    /\ At(r, "done") => req[r] \in Replies
    /\ At(r, "owning") => req[r] = Founding
    /\ At(r, "reading") => Fits(req[r])
    /\ step[r] \in Inviting => Fits(req[r]) /\ req[r].op = "invite" /\ req[r].give # "OWNER"
    /\ step[r] \in {"retiring", "mailing"} =>
          req[r].id \in DOMAIN invitations /\ invitations[req[r].id].email = req[r].on
    /\ At(r, "writing") =>
          \/ Accepts(req[r])
          \/ Fits(req[r]) /\ req[r].op \in {"revoke", "revokeKey"}
          \/ WritesMember(req[r])

\* What a request has read is still so, as long as nobody has overtaken it.
Knows(r) ==
    LET q == req[r] IN
    /\ step[r] \in {"reading", "writing"} \cup Inviting /\ q.op # "accept" /\ q.by # Key
          => members[q.row].role = q.as
    /\ At(r, "writing") /\ q.op \in MemberOps =>
          /\ members[q.id].role \notin {Gone, "OWNER"}
          /\ q.op \in {"updateRole", "remove"} => canManageRole(q.as, members[q.id].role)
    /\ At(r, "writing") /\ q.op = "accept" => Pending(q.id) /\ ~IsMember(q.by)
    /\ At(r, "writing") /\ q.op = "revoke" => Pending(q.id)
    /\ step[r] \in {"lookup", "retiring", "inserting"} => ~IsMember(q.on)
    /\ At(r, "retiring") => Pending(q.id)
    /\ At(r, "inserting") => PendingFor(q.on) = {}

RequestsOK ==
    /\ step \in [Requests -> Steps] /\ req \in [Requests -> Forms]
    /\ overtaken \subseteq Requests
    /\ \A r \in Requests : RequestFits(r) /\ (r \notin overtaken => Knows(r))

\* As long as nobody owns the organization there is nobody and nothing in it.
Unowned == organization = "none" \/ orphaned \/ \E r \in Requests : At(r, "owning")
FoundedOnce ==
    /\ Unowned => /\ members = <<>> /\ invitations = <<>> /\ keys = <<>>
                  /\ \A r \in Requests : step[r] \in {"new", "owning", "done"}
    /\ organization = "none" => ~orphaned /\ \A r \in Requests : ~At(r, "owning")
    /\ \A r \in Requests : At(r, "owning") =>
          ~orphaned /\ \A q \in Requests : At(q, "owning") => q = r

\* A request writes to a member once.
StaleOnce ==
    /\ IsFiniteSet(stale)
    /\ \A s \in stale : s.op \in MemberOps \cup {"accept"} => s.r \in Requests /\ At(s.r, "done")

Inv ==
    /\ RowsOK /\ RequestsOK /\ FoundedOnce /\ StaleOnce
    /\ SoleOwner /\ AdmittedOnce /\ PendingInvitations

-----------------------------------------------------------------------------
(* The matrix, as far as the proofs need it.                               *)

LEMMA TransferIsOwners ==
  ASSUME NEW role \in Roles, roleHasPermission(role, RoutePermission("transfer"))
  PROVE  role = "OWNER"
  <1>1. RoutePermission("transfer") = "ownership:transfer"
    BY DEF RoutePermission, OrganizationRoutes, MemberRoutes, InvitationRoutes, ApiKeyRoutes
  <1>2. /\ "ownership:transfer" \notin ADMIN_PERMISSIONS
        /\ "ownership:transfer" \notin MEMBER_PERMISSIONS
        /\ "ownership:transfer" \notin VIEWER_PERMISSIONS
    BY DEF ADMIN_PERMISSIONS, MEMBER_PERMISSIONS, VIEWER_PERMISSIONS
  <1> QED
    BY <1>1, <1>2 DEF roleHasPermission, ROLE_PERMISSIONS, Roles

\* Of what a key may ask a route for, only the list of members is no matter of people alone.
LEMMA KeyRoutes ==
  ASSUME NEW op \in Ops, isPermissionGrantableToApiKey(RoutePermission(op))
  PROVE  op = "list"
  <1>1. \A p \in {"organization:delete", "ownership:transfer", "member:update-role",
                  "member:remove", "member:leave", "invitation:create", "invitation:revoke",
                  "apikey:manage"} : ~isPermissionGrantableToApiKey(p)
    BY DEF isPermissionGrantableToApiKey, API_KEY_READ_SCOPES, API_KEY_WRITE_SCOPES
  <1>2. /\ RoutePermission("delete") = "organization:delete"
        /\ RoutePermission("transfer") = "ownership:transfer"
    BY DEF RoutePermission, OrganizationRoutes, MemberRoutes, InvitationRoutes, ApiKeyRoutes
  <1>3. /\ RoutePermission("updateRole") = "member:update-role"
        /\ RoutePermission("remove") = "member:remove"
        /\ RoutePermission("leave") = "member:leave"
    BY DEF RoutePermission, OrganizationRoutes, MemberRoutes, InvitationRoutes, ApiKeyRoutes
  <1>4. /\ RoutePermission("invite") = "invitation:create"
        /\ RoutePermission("revoke") = "invitation:revoke"
    BY DEF RoutePermission, OrganizationRoutes, MemberRoutes, InvitationRoutes, ApiKeyRoutes
  <1>5. /\ RoutePermission("createKey") = "apikey:manage"
        /\ RoutePermission("revokeKey") = "apikey:manage"
    BY DEF RoutePermission, OrganizationRoutes, MemberRoutes, InvitationRoutes, ApiKeyRoutes
  <1> QED
    BY <1>1, <1>2, <1>3, <1>4, <1>5 DEF Ops, MemberOps

-----------------------------------------------------------------------------
(* What one request may do to what others have read.                       *)

\* The rows change for the users of W only, and no row becomes another's.
Evolves(W) ==
    /\ DOMAIN members \subseteq DOMAIN members'
    /\ \A i \in DOMAIN members :
          /\ members'[i].user = members[i].user
          /\ members[i].user \notin W => members'[i].role = members[i].role
    /\ \A i \in DOMAIN members' \ DOMAIN members : members'[i].user \in W
    /\ DOMAIN invitations \subseteq DOMAIN invitations'
    /\ \A i \in DOMAIN invitations :
          /\ invitations'[i].email = invitations[i].email
          /\ invitations[i].email \notin W => (Pending(i)' <=> Pending(i))
    /\ \A i \in DOMAIN invitations' \ DOMAIN invitations : invitations'[i].email \in W
    /\ DOMAIN keys \subseteq DOMAIN keys'

LEMMA NobodyElse ==
  ASSUME NEW W, Evolves(W), NEW u, u \notin W
  PROVE  /\ IsMember(u)' <=> IsMember(u)
         /\ PendingFor(u)' = PendingFor(u)
  <1>1. {i \in DOMAIN members' : members'[i].user = u /\ members'[i].role # Gone}
          = {i \in DOMAIN members : members[i].user = u /\ members[i].role # Gone}
    BY DEF Evolves
  <1>2. PendingFor(u)' = PendingFor(u)
    BY DEF Evolves, PendingFor
  <1> QED
    BY <1>1, <1>2 DEF IsMember, RowsOf

LEMMA FitsKept ==
  ASSUME NEW W, Evolves(W), NEW q
  PROVE  /\ Fits(q) => Fits(q)'
         /\ Accepts(q) => Accepts(q)'
         /\ WritesMember(q) => WritesMember(q)'
  <1>1. Fits(q) => Fits(q)'
    BY DEF Evolves, Fits
  <1>2. Accepts(q) => Accepts(q)'
    BY DEF Evolves, Accepts
  <1> QED
    BY <1>1, <1>2 DEF Evolves, WritesMember

\* Whom the knowledge of a request is about.
LEMMA ReadOf ==
  ASSUME NEW r \in Requests, RequestFits(r)
  PROVE  /\ req[r].by \in HasRead(r)
         /\ At(r, "writing") /\ req[r].op \in MemberOps => req[r].on \in HasRead(r)
         /\ At(r, "writing") /\ req[r].op \in {"accept", "revoke"} =>
               invitations[req[r].id].email \in HasRead(r)
         /\ step[r] \in Inviting => req[r].on \in HasRead(r)
  BY DEF HasRead, Subject, At, MemberOps, Inviting, RequestFits

\* A request that stays where it is keeps what it holds, and what it knows unless it is
\* overtaken.
LEMMA KeptOne ==
  ASSUME NEW r \in Requests, RequestFits(r), r \notin overtaken => Knows(r),
         step'[r] = step[r], req'[r] = req[r], overtaken \subseteq overtaken',
         NEW W, Evolves(W),
         UnderWay(r) /\ r \notin overtaken' => W \cap HasRead(r) = {}
  PROVE  RequestFits(r)' /\ (r \notin overtaken' => Knows(r)')
  <1> DEFINE q == req[r]
  <1>1. /\ Fits(q) => Fits(req[r])'
        /\ Accepts(q) => Accepts(req[r])'
        /\ WritesMember(q) => WritesMember(req[r])'
    <2>1. \A x : /\ Fits(x) => Fits(x)'
                 /\ Accepts(x) => Accepts(x)'
                 /\ WritesMember(x) => WritesMember(x)'
      BY FitsKept
    <2>2. /\ Fits(q) => Fits(req[r])'
          /\ Accepts(q) => Accepts(req[r])'
      BY <2>1 DEF Fits, Accepts
    <2> QED
      BY <2>1, <2>2 DEF WritesMember, Fits
  <1>2. RequestFits(r)'
    <2>1. /\ At(r, "new") => req'[r] = None
          /\ At(r, "done") => req'[r] \in Replies
          /\ At(r, "owning") => req'[r] = Founding
      BY DEF RequestFits
    <2>2. step[r] \in {"retiring", "mailing"} =>
            /\ req[r].id \in DOMAIN invitations'
            /\ invitations'[req[r].id].email = req[r].on
      BY DEF RequestFits, Evolves
    <2> QED
      BY <1>1, <2>1, <2>2 DEF RequestFits, At
  <1>3. ASSUME r \notin overtaken'
        PROVE  Knows(r)'
    <2>1. Knows(r)
      BY <1>3
    <2>2. UnderWay(r) => W \cap HasRead(r) = {}
      BY <1>3
    <2>3. ASSUME step[r] \in {"reading", "writing"} \cup Inviting, q.op # "accept", q.by # Key
          PROVE  members'[q.row].role = q.as
      <3>1. Fits(q)
        BY <2>3 DEF RequestFits, At, Accepts, Acceptances, WritesMember
      <3>2. q.by \notin W
        BY <2>2, <2>3, ReadOf DEF UnderWay, Inviting
      <3>3. members[q.row].role = q.as
        BY <2>1, <2>3 DEF Knows
      <3> QED
        BY <2>3, <3>1, <3>2, <3>3 DEF Fits, Evolves
    <2>4. ASSUME At(r, "writing"), q.op \in MemberOps
          PROVE  q.id \in DOMAIN members /\ members'[q.id].role = members[q.id].role
      <3>1. WritesMember(q)
        BY <2>4 DEF RequestFits, Accepts, Acceptances, MemberOps
      <3>2. q.on \notin W
        BY <2>2, <2>4, ReadOf DEF UnderWay, At
      <3> QED
        BY <3>1, <3>2 DEF WritesMember, Evolves
    <2>5. ASSUME At(r, "writing"), q.op \in {"accept", "revoke"}
          PROVE  /\ Pending(q.id) => Pending(req[r].id)'
                 /\ q.op = "accept" => q.by \notin W
      <3>1. invitations[q.id].email \notin W
        BY <2>2, <2>5, ReadOf DEF UnderWay, At
      <3>2. /\ q.id \in DOMAIN invitations
            /\ q.op = "accept" => q.by = invitations[q.id].email
        BY <2>5 DEF RequestFits, Accepts, Acceptances, WritesMember, MemberOps, Fits
      <3> QED
        BY <3>1, <3>2 DEF Evolves, Pending
    <2>6. ASSUME step[r] \in Inviting
          PROVE  q.on \notin W
      BY <2>2, <2>6, ReadOf DEF UnderWay, Inviting
    <2>7. At(r, "retiring") => (Pending(q.id) => Pending(req[r].id)')
      <3> SUFFICES ASSUME At(r, "retiring") PROVE Pending(q.id) => Pending(req[r].id)'
        OBVIOUS
      <3>1. q.id \in DOMAIN invitations /\ invitations[q.id].email \notin W
        BY <2>6 DEF RequestFits, At, Inviting
      <3> QED
        BY <3>1 DEF Evolves, Pending
    <2>8. step[r] \in {"lookup", "retiring", "inserting"} =>
            /\ ~IsMember(q.on) => ~IsMember(req[r].on)'
            /\ PendingFor(q.on) = {} => PendingFor(req[r].on)' = {}
      <3> SUFFICES ASSUME step[r] \in {"lookup", "retiring", "inserting"}
                   PROVE  /\ ~IsMember(q.on) => ~IsMember(req[r].on)'
                          /\ PendingFor(q.on) = {} => PendingFor(req[r].on)' = {}
        OBVIOUS
      <3>1. q.on \notin W
        BY <2>6 DEF Inviting
      <3>2. \A u : u \notin W => /\ ~IsMember(u) => ~IsMember(u)'
                                 /\ PendingFor(u) = {} => PendingFor(u)' = {}
        BY NobodyElse
      <3> QED
        BY <3>1, <3>2 DEF IsMember, RowsOf, PendingFor, Pending
    <2>9. At(r, "writing") /\ q.op = "accept" => (~IsMember(q.by) => ~IsMember(req[r].by)')
      <3>1. \A u : u \notin W => (~IsMember(u) => ~IsMember(u)')
        BY NobodyElse
      <3> QED
        BY <2>5, <3>1 DEF IsMember, RowsOf
    <2>10. /\ step[r] \in {"reading", "writing"} \cup Inviting /\ q.op # "accept" /\ q.by # Key
                => members'[q.row].role = q.as
           /\ At(r, "writing") /\ q.op \in MemberOps =>
                /\ members'[q.id].role \notin {Gone, "OWNER"}
                /\ q.op \in {"updateRole", "remove"} =>
                      canManageRole(q.as, members'[q.id].role)
      BY <2>1, <2>3, <2>4 DEF Knows
    <2>11. /\ At(r, "writing") /\ q.op = "accept" =>
                Pending(req[r].id)' /\ ~IsMember(req[r].by)'
           /\ At(r, "writing") /\ q.op = "revoke" => Pending(req[r].id)'
           /\ step[r] \in {"lookup", "retiring", "inserting"} => ~IsMember(req[r].on)'
           /\ At(r, "retiring") => Pending(req[r].id)'
           /\ At(r, "inserting") => PendingFor(req[r].on)' = {}
      BY <2>1, <2>5, <2>7, <2>8, <2>9 DEF Knows, At
    <2> QED
      BY <2>10, <2>11 DEF Knows, At
  <1> QED
    BY <1>2, <1>3

-----------------------------------------------------------------------------
(* How a request moves.                                                    *)

Others(r) == \A q \in Requests \ {r} : step'[q] = step[q] /\ req'[q] = req[q]

Typed == step' \in [Requests -> Steps] /\ req' \in [Requests -> Forms]

LEMMA GoesTo ==
  ASSUME RequestsOK, NEW r \in Requests, NEW s \in Steps, NEW q \in Forms, Goes(r, s, q)
  PROVE  Typed /\ Others(r) /\ step'[r] = s /\ req'[r] = q
  BY DEF RequestsOK, Goes, Typed, Others

LEMMA StaysWith ==
  ASSUME RequestsOK, NEW r \in Requests, NEW s \in Steps, To(r, s)
  PROVE  Typed /\ Others(r) /\ step'[r] = s /\ req'[r] = req[r]
  BY DEF RequestsOK, To, Typed, Others

LEMMA StatusTyped == \A error : toProblemDetails(error) \in Nat
  <1> TAKE error
  <1>1. CASE error \in DOMAIN AppError
    <2>1. AppError[error] \in Nat
      BY <1>1 DEF AppError
    <2>2. ~isMalformedJsonBody(error) /\ ~isRedisUnavailable(error)
      BY <1>1 DEF AppError, isMalformedJsonBody, isRedisUnavailable
    <2> QED
      BY <1>1, <2>1, <2>2 DEF toProblemDetails
  <1>2. CASE error \notin DOMAIN AppError
    <2>1. AppError["ValidationError"] \in Nat /\ AppError["ServiceUnavailableError"] \in Nat
      BY DEF AppError
    <2>2. ~(isMalformedJsonBody(error) /\ isRedisUnavailable(error))
      BY DEF isMalformedJsonBody, isRedisUnavailable
    <2> HIDE DEF isMalformedJsonBody, isRedisUnavailable
    <2> QED
      BY <1>2, <2>1, <2>2 DEF toProblemDetails
  <1> QED
    BY <1>1, <1>2

Finishes(r) == \E status \in Nat : Answers(r, status)

LEMMA Refused ==
  ASSUME NEW r, NEW error, Refuses(r, error)
  PROVE  Finishes(r)
  BY StatusTyped DEF Refuses, Finishes

\* An answered request holds nothing any more.
LEMMA Finished ==
  ASSUME RequestsOK, NEW r \in Requests, Finishes(r)
  PROVE  Typed /\ Others(r) /\ step'[r] = "done" /\ RequestFits(r)' /\ Knows(r)'
  <1>1. PICK status \in Nat : Answers(r, status)
    BY DEF Finishes
  <1>2. Answered(status) \in Replies /\ Replies \subseteq Forms
    BY DEF Answered, Replies, Forms
  <1>3. Typed /\ Others(r) /\ step'[r] = "done" /\ req'[r] = Answered(status)
    BY <1>1, <1>2, GoesTo DEF Answers, Steps
  <1> QED
    BY <1>2, <1>3 DEF RequestFits, Knows, At, Inviting

\* The requests as a whole, for a step of one of them.
LEMMA RequestsKept ==
  ASSUME RequestsOK, NEW r \in Requests, Typed, Others(r), NEW W, Evolves(W),
         overtaken \subseteq overtaken', overtaken' \subseteq Requests,
         \A q \in Requests \ {r} : UnderWay(q) /\ q \notin overtaken' => W \cap HasRead(q) = {},
         RequestFits(r)', r \notin overtaken' => Knows(r)'
  PROVE  RequestsOK'
  <1>1. ASSUME NEW q \in Requests \ {r}
        PROVE  RequestFits(q)' /\ (q \notin overtaken' => Knows(q)')
    <2>1. RequestFits(q) /\ (q \notin overtaken => Knows(q))
      BY DEF RequestsOK
    <2>2. step'[q] = step[q] /\ req'[q] = req[q]
      BY DEF Others
    <2>3. UnderWay(q) /\ q \notin overtaken' => W \cap HasRead(q) = {}
      OBVIOUS
    <2> QED
      BY <2>1, <2>2, <2>3, KeptOne
  <1> QED
    BY <1>1 DEF RequestsOK, Typed

\* A step that leaves what others have read.
Reading == UNCHANGED <<members, invitations, overtaken>> /\ DOMAIN keys \subseteq DOMAIN keys'

LEMMA ReadingEvolves ==
  ASSUME Reading
  PROVE  Evolves({})
  BY DEF Reading, Evolves, Pending

LEMMA ReadingRequests ==
  ASSUME RequestsOK, NEW r \in Requests, Typed, Others(r), Reading,
         RequestFits(r)', r \notin overtaken => Knows(r)'
  PROVE  RequestsOK'
  <1>1. Evolves({}) /\ overtaken' = overtaken /\ overtaken \subseteq Requests
    BY ReadingEvolves DEF Reading, RequestsOK
  <1>2. \A q \in Requests \ {r} : UnderWay(q) /\ q \notin overtaken' => {} \cap HasRead(q) = {}
    OBVIOUS
  <1> QED
    BY <1>1, <1>2, RequestsKept

\* Writing overtakes those who have read of the same people.
LEMMA WritingRequests ==
  ASSUME RequestsOK, NEW r \in Requests, Typed, Others(r), NEW W, Evolves(W), Wrote(r, W),
         RequestFits(r)', r \notin overtaken => Knows(r)'
  PROVE  RequestsOK'
  <1>1. overtaken' = overtaken \cup {q \in Requests \ {r} : UnderWay(q) /\ W \cap HasRead(q) # {}}
    BY DEF Wrote
  <1>2. overtaken \subseteq Requests
    BY DEF RequestsOK
  <1>3. \A q \in Requests \ {r} : UnderWay(q) /\ q \notin overtaken' => W \cap HasRead(q) = {}
    BY <1>1
  <1>4. overtaken \subseteq overtaken' /\ overtaken' \subseteq Requests
    BY <1>1, <1>2
  <1> QED
    BY <1>3, <1>4, RequestsKept

-----------------------------------------------------------------------------
(* Requests that only read.                                                *)

\* The rows and the history stay; a request moves.
Still == UNCHANGED <<rows, faults, history>>

LEMMA StillReading ==
  ASSUME Still
  PROVE  Reading
  BY DEF Still, Reading, rows, history

LEMMA WithId ==
  ASSUME NEW q \in Asked, NEW i \in Nat
  PROVE  /\ [q EXCEPT !.id = i] \in Asked /\ [q EXCEPT !.id = i].id = i
         /\ [q EXCEPT !.id = i].op = q.op /\ [q EXCEPT !.id = i].give = q.give
         /\ [q EXCEPT !.id = i].scopes = q.scopes /\ [q EXCEPT !.id = i].on = q.on
         /\ [q EXCEPT !.id = i].by = q.by /\ [q EXCEPT !.id = i].row = q.row
         /\ [q EXCEPT !.id = i].as = q.as
  BY DEF Asked

LEMMA RowOfMember ==
  ASSUME RowsOK, NEW u, IsMember(u)
  PROVE  /\ RowOf(u) \in DOMAIN members /\ RowOf(u) \in Nat
         /\ members[RowOf(u)].user = u
         /\ RoleOf(u) = members[RowOf(u)].role /\ RoleOf(u) \in Roles
  <1>1. RowOf(u) \in RowsOf(u)
    BY DEF RowOf, IsMember
  <1>2. RowOf(u) \in DOMAIN members /\ members[RowOf(u)] \in MembershipRow
    BY <1>1 DEF RowsOf, RowsOK, MembersOK, InvitationsOK, KeysOK
  <1>3. members[RowOf(u)].user = u /\ members[RowOf(u)].role # Gone
    BY <1>1 DEF RowsOf
  <1>4. RowOf(u) \in Nat
    BY <1>2 DEF RowsOK, MembersOK, InvitationsOK, KeysOK
  <1> QED
    BY <1>2, <1>3, <1>4 DEF RoleOf, MembershipRow

LEMMA ReadingIsAsked ==
  ASSUME RequestsOK, NEW r \in Requests, At(r, "reading") \/ step[r] \in Inviting
  PROVE  Fits(req[r]) /\ req[r] \in Asked
  BY DEF RequestsOK, RequestFits, Fits, At

LEMMA BodyFields ==
  ASSUME RowsOK, NEW b \in Bodies
  PROVE  /\ b.op \in Ops /\ b.id \in Nat /\ b.give \in Given \cup {"none"}
         /\ b.scopes \in SUBSET PERMISSIONS /\ b.on \in Users \cup {Key}
         /\ b.op \in {"updateRole", "remove", "transfer", "invite"} => b.on \in Users
         /\ b.op \in {"updateRole", "invite"} => b.give \in Given
         /\ b.op = "revoke" => b.id \in DOMAIN invitations
         /\ b.op = "revokeKey" => b.id \in DOMAIN keys
  <1>1. DOMAIN invitations \subseteq Nat /\ DOMAIN keys \subseteq Nat
    BY DEF RowsOK, MembersOK, InvitationsOK, KeysOK
  <1> QED
    BY <1>1, OrganizationConstants DEF Bodies, Ops, MemberOps

LEMMA ArriveRequests ==
  ASSUME RowsOK, RequestsOK, NEW r \in Requests, Arrive(r)
  PROVE  RequestsOK'
  <1>1. PICK b \in Bodies : \/ \E u \in Users : ArriveAsUser(r, u, b)
                            \/ \E k \in DOMAIN keys : ArriveWithKey(r, k, b)
    BY DEF Arrive
  <1>2. Still
    BY DEF Arrive, Still
  <1>3. \E by \in Users \cup {Key}, row \in Nat, as \in Roles \cup {"none"} :
           /\ Passes(r, b, by, row, as)
           /\ by = Key => b.op = "list"
           /\ by # Key => /\ by \in Users /\ row \in DOMAIN members /\ members[row].user = by
                          /\ as \in Roles /\ members[row].role = as
                          /\ roleHasPermission(as, RoutePermission(b.op))
    <2>1. ASSUME NEW u \in Users, ArriveAsUser(r, u, b)
          PROVE  <1>3
      <3>1. u # Key
        BY OrganizationConstants
      <3> QED
        BY <2>1, <3>1, RowOfMember DEF ArriveAsUser
    <2>2. ASSUME NEW k \in DOMAIN keys, ArriveWithKey(r, k, b)
          PROVE  <1>3
      <3>1. isPermissionGrantableToApiKey(RoutePermission(b.op))
        BY <2>2 DEF ArriveWithKey, RowsOK, MembersOK, InvitationsOK, KeysOK
      <3>2. b.op = "list"
        BY <3>1, BodyFields, KeyRoutes
      <3> QED
        BY <2>2, <3>2 DEF ArriveWithKey
    <2> QED
      BY <1>1, <2>1, <2>2
  <1>4. PICK by \in Users \cup {Key}, row \in Nat, as \in Roles \cup {"none"} :
           /\ Passes(r, b, by, row, as)
           /\ by = Key => b.op = "list"
           /\ by # Key => /\ by \in Users /\ row \in DOMAIN members /\ members[row].user = by
                          /\ as \in Roles /\ members[row].role = as
                          /\ roleHasPermission(as, RoutePermission(b.op))
    BY <1>3
  <1> DEFINE q == [op |-> b.op, id |-> b.id, give |-> b.give, scopes |-> b.scopes,
                   on |-> IF b.op = "leave" THEN by ELSE b.on,
                   by |-> by, row |-> row, as |-> as]
  <1>5. Goes(r, "reading", q)
    BY <1>4 DEF Passes
  <1>6. Fits(q) /\ q \in Asked
    <2>1. q \in Asked
      BY BodyFields DEF Asked
    <2> QED
      BY <1>4, <2>1, BodyFields DEF Fits, MemberOps
  <1>7. by # Key => members[row].role = as
    BY <1>4
  <1>8. q.by = by /\ q.row = row /\ q.as = as
    OBVIOUS
  <1> HIDE DEF q
  <1>9. Typed /\ Others(r) /\ step'[r] = "reading" /\ req'[r] = q
    BY <1>5, <1>6, GoesTo DEF Forms, Steps
  <1>10. Reading
    BY <1>2, StillReading
  <1>11. RequestFits(r)'
    <2>1. Fits(req[r])'
      BY <1>6, <1>9, <1>10 DEF Fits, Reading
    <2> QED
      BY <1>9, <2>1 DEF RequestFits, At, Inviting
  <1>12. Knows(r)'
    BY <1>7, <1>8, <1>9, <1>10 DEF Knows, At, Inviting, Reading
  <1> QED
    BY <1>9, <1>10, <1>11, <1>12, ReadingRequests

LEMMA FoundRequests ==
  ASSUME RowsOK, RequestsOK, NEW r \in Requests, NEW op \in MemberOps, Reads(r, op),
         NEW refusal, Found(r, refusal),
         refusal = "none" /\ IsMember(req[r].on) =>
            /\ RoleOf(req[r].on) # "OWNER"
            /\ op \in {"updateRole", "remove"} => CanManage(r)
            /\ op = "updateRole" => req[r].give # "OWNER"
  PROVE  RequestsOK'
  <1> DEFINE q == req[r]  i == RowOf(q.on)  new == [q EXCEPT !.id = i]
  <1>1. Still /\ Reading
    BY StillReading DEF Found, Still
  <1>2. Fits(q) /\ q \in Asked /\ q.op = op
    BY ReadingIsAsked DEF Reads
  <1>3. CASE Finishes(r)
    BY <1>1, <1>3, Finished, ReadingRequests
  <1>4. CASE ~Finishes(r)
    <2>1. IsMember(q.on) /\ refusal = "none" /\ Goes(r, "writing", new)
      BY <1>4, Refused DEF Found
    <2>2. i \in DOMAIN members /\ i \in Nat /\ members[i].user = q.on
          /\ members[i].role = RoleOf(q.on) /\ members[i].role \in Roles
      BY <2>1, RowOfMember
    <2>3. /\ new \in Asked /\ new.id = i
          /\ new.op = q.op /\ new.give = q.give /\ new.scopes = q.scopes /\ new.on = q.on
          /\ new.by = q.by /\ new.row = q.row /\ new.as = q.as
      BY <1>2, <2>2, WithId
    <2> HIDE DEF new, i
    <2>4. Typed /\ Others(r) /\ step'[r] = "writing" /\ req'[r] = new
      BY <2>1, <2>3, GoesTo DEF Forms, Steps
    <2>5. /\ new.op # "revoke" /\ new.op # "revokeKey" /\ new.op # "invite" /\ new.op # "list"
          /\ new.op # "accept"
      BY <1>2, <2>3 DEF MemberOps
    <2>6. WritesMember(new)
      <3>1. Fits(new)
        BY <1>2, <2>3, <2>5 DEF Fits
      <3> QED
        BY <1>2, <2>1, <2>2, <2>3, <3>1 DEF WritesMember
    <2>7. RequestFits(r)'
      <3>1. WritesMember(req[r])'
        BY <1>1, <2>4, <2>6 DEF WritesMember, Fits, Reading
      <3> QED
        BY <2>4, <3>1 DEF RequestFits, At, Inviting
    <2>8. ASSUME r \notin overtaken
          PROVE  Knows(r)'
      <3>1. q.by # Key /\ members[q.row].role = q.as
        BY <1>2, <2>3, <2>5, <2>8 DEF RequestsOK, Knows, Fits, Reads, At
      <3>2. /\ members[i].role \notin {Gone, "OWNER"}
            /\ op \in {"updateRole", "remove"} => canManageRole(q.as, members[i].role)
        BY <2>1, <2>2 DEF CanManage, Gone, Roles
      <3> QED
        BY <1>1, <1>2, <2>3, <2>4, <2>5, <3>1, <3>2 DEF Knows, At, Inviting, Reading
    <2> QED
      BY <1>1, <2>4, <2>7, <2>8, ReadingRequests
  <1> QED
    BY <1>3, <1>4

LEMMA MemberReads ==
  ASSUME RowsOK, RequestsOK, NEW r \in Requests,
         UpdateRole(r) \/ Remove(r) \/ Leave(r) \/ TransferOwnership(r)
  PROVE  RequestsOK'
  <1>1. CASE UpdateRole(r)
    <2> DEFINE refusal == IF "OWNER" \in {RoleOf(req[r].on), req[r].give} THEN "ConflictError"
                          ELSE IF CanManage(r) THEN "none" ELSE "ForbiddenError"
    <2>1. Reads(r, "updateRole") /\ Found(r, refusal)
      BY <1>1 DEF UpdateRole
    <2>2. refusal = "none" => /\ RoleOf(req[r].on) # "OWNER" /\ req[r].give # "OWNER"
                              /\ CanManage(r)
      OBVIOUS
    <2> HIDE DEF refusal
    <2> QED
      BY <2>1, <2>2, FoundRequests DEF MemberOps
  <1>2. CASE Remove(r)
    <2> DEFINE refusal == IF RoleOf(req[r].on) = "OWNER" THEN "ConflictError"
                          ELSE IF CanManage(r) THEN "none" ELSE "ForbiddenError"
    <2>1. Reads(r, "remove") /\ Found(r, refusal)
      BY <1>2 DEF Remove
    <2>2. refusal = "none" => RoleOf(req[r].on) # "OWNER" /\ CanManage(r)
      OBVIOUS
    <2> HIDE DEF refusal
    <2> QED
      BY <2>1, <2>2, FoundRequests DEF MemberOps
  <1>3. ASSUME NEW op \in {"leave", "transfer"}, Reads(r, op),
               Found(r, IF RoleOf(req[r].on) = "OWNER" THEN "ConflictError" ELSE "none")
        PROVE  RequestsOK'
    <2> DEFINE refusal == IF RoleOf(req[r].on) = "OWNER" THEN "ConflictError" ELSE "none"
    <2>1. refusal = "none" => RoleOf(req[r].on) # "OWNER"
      OBVIOUS
    <2>2. Found(r, refusal)
      BY <1>3
    <2> HIDE DEF refusal
    <2> QED
      BY <1>3, <2>1, <2>2, FoundRequests DEF MemberOps
  <1> QED
    BY <1>1, <1>2, <1>3 DEF Leave, TransferOwnership

\* From an invitation that goes on to its next step with what it holds.
LEMMA InvitingOn ==
  ASSUME RowsOK, RequestsOK, NEW r \in Requests, NEW s \in {"lookup", "inserting"}, To(r, s),
         At(r, "reading") \/ step[r] \in {"lookup", "retiring"},
         members' = members,
         UNCHANGED keys, DOMAIN invitations' = DOMAIN invitations,
         req[r].op = "invite", req[r].give # "OWNER",
         r \notin overtaken => /\ ~IsMember(req[r].on)
                               /\ s = "inserting" => PendingFor(req[r].on)' = {}
  PROVE  /\ Typed /\ Others(r) /\ step'[r] = s /\ req'[r] = req[r]
         /\ RequestFits(r)' /\ (r \notin overtaken => Knows(r)')
  <1>1. Typed /\ Others(r) /\ step'[r] = s /\ req'[r] = req[r]
    BY StaysWith DEF Steps
  <1>2. Fits(req[r]) /\ req[r] \in Asked
    BY ReadingIsAsked DEF Inviting
  <1>3. Fits(req[r])'
    BY <1>1, <1>2 DEF Fits
  <1>4. RequestFits(r)'
    BY <1>1, <1>3 DEF RequestFits, At, Inviting
  <1>5. ASSUME r \notin overtaken
        PROVE  Knows(r)'
    <2>1. ~IsMember(req[r].on)'
      BY <1>1, <1>5 DEF IsMember, RowsOf
    <2>2. members[req[r].row].role = req[r].as
      BY <1>2, <1>5 DEF RequestsOK, Knows, At, Inviting, Fits
    <2>3. s = "inserting" => PendingFor(req[r].on)' = {}
      BY <1>5
    <2>4. req[r].op \notin MemberOps
      BY DEF MemberOps
    <2> QED
      BY <1>1, <2>1, <2>2, <2>3, <2>4 DEF Knows, At, Inviting
  <1> QED
    BY <1>1, <1>4, <1>5

LEMMA InviteReads ==
  ASSUME RowsOK, RequestsOK, NEW r \in Requests, CheckInvitee(r) \/ FindPending(r)
  PROVE  RequestsOK'
  <1> DEFINE q == req[r]
  <1>1. Still /\ Reading /\ keys' = keys
    BY StillReading DEF CheckInvitee, FindPending, Still, rows
  <1>2. q.op = "invite"
    BY DEF CheckInvitee, FindPending, Reads, RequestsOK, RequestFits, At, Inviting
  <1>3. Fits(q) /\ q \in Asked
    BY ReadingIsAsked DEF CheckInvitee, FindPending, Reads, At, Inviting
  <1>4. CASE Finishes(r)
    BY <1>1, <1>4, Finished, ReadingRequests
  <1>5. CASE CheckInvitee(r) /\ ~Finishes(r)
    <2>1. At(r, "reading")
      BY <1>5 DEF CheckInvitee, Reads
    <2>2. /\ To(r, "lookup") /\ ~IsMember(q.on) /\ q.give # "OWNER"
      <3>1. \A e : ~Refuses(r, e)
        BY <1>5, Refused
      <3> QED
        BY <1>5, <3>1 DEF CheckInvitee
    <2> QED
      BY <1>1, <1>2, <2>1, <2>2, InvitingOn, ReadingRequests DEF Reading
  <1>6. CASE FindPending(r) /\ ~Finishes(r)
    <2>1. At(r, "lookup") /\ q.give # "OWNER" /\ (r \notin overtaken => Knows(r))
      BY <1>6 DEF FindPending, RequestsOK, RequestFits, At, Inviting
    <2>2. \A e : ~Refuses(r, e)
      BY <1>6, Refused
    <2>3. r \notin overtaken => ~IsMember(q.on)
      BY <2>1 DEF Knows, At
    <2>4. CASE PendingFor(q.on) = {}
      <3>1. To(r, "inserting")
        BY <1>6, <2>2, <2>4 DEF FindPending, GoesOn
      <3>2. req' = req /\ PendingFor(q.on)' = {}
        BY <1>1, <2>4, <3>1 DEF To, PendingFor, Pending, Reading
      <3>3. step[r] = "lookup" /\ members' = members /\ DOMAIN invitations' = DOMAIN invitations
        BY <1>1, <2>1 DEF At, Reading
      <3>4. /\ Typed /\ Others(r) /\ RequestFits(r)' /\ (r \notin overtaken => Knows(r)')
        BY <1>1, <1>2, <2>1, <2>3, <3>1, <3>2, <3>3, InvitingOn
      <3> QED
        BY <1>1, <3>4, ReadingRequests
    <2>5. CASE PendingFor(q.on) # {}
      <3> DEFINE i == CHOOSE i \in PendingFor(q.on) : TRUE
                 new == [q EXCEPT !.id = i]
      <3>1. i \in PendingFor(q.on)
        BY <2>5
      <3>2. i \in DOMAIN invitations /\ i \in Nat /\ invitations[i].email = q.on /\ Pending(i)
        BY <3>1 DEF PendingFor, RowsOK, MembersOK, InvitationsOK, KeysOK
      <3>3. Goes(r, "retiring", new)
        BY <1>6, <2>2, <2>5 DEF FindPending
      <3>4. /\ new \in Asked /\ new.id = i
            /\ new.op = q.op /\ new.give = q.give /\ new.scopes = q.scopes /\ new.on = q.on
            /\ new.by = q.by /\ new.row = q.row /\ new.as = q.as
        BY <1>3, <3>2, WithId
      <3> HIDE DEF new, i
      <3>5. Typed /\ Others(r) /\ step'[r] = "retiring" /\ req'[r] = new
        BY <3>3, <3>4, GoesTo DEF Forms, Steps
      <3>6. Fits(new)
        BY <1>2, <1>3, <3>4 DEF Fits, MemberOps
      <3>7. Fits(req[r])'
        BY <1>1, <3>5, <3>6 DEF Fits, Reading
      <3>8. RequestFits(r)'
        BY <1>1, <1>2, <2>1, <3>2, <3>4, <3>5, <3>7 DEF RequestFits, At, Inviting, Reading
      <3>9. ASSUME r \notin overtaken
            PROVE  Knows(r)'
        <4>1. members[q.row].role = q.as
          BY <1>2, <1>3, <2>1, <3>9 DEF Knows, Fits, At, Inviting
        <4>2. ~IsMember(req[r].on)' /\ Pending(req[r].id)'
          BY <1>1, <2>3, <3>2, <3>4, <3>5, <3>9 DEF IsMember, RowsOf, Pending, Reading
        <4> QED
          BY <1>1, <1>2, <3>4, <3>5, <4>1, <4>2 DEF Knows, At, Inviting, Reading, MemberOps
      <3> QED
        BY <1>1, <3>5, <3>8, <3>9, ReadingRequests
    <2> QED
      BY <2>4, <2>5
  <1> QED
    BY <1>4, <1>5, <1>6

\* revoke of an invitation or of a key, up to their checks.
LEMMA RevokeReads ==
  ASSUME RowsOK, RequestsOK, NEW r \in Requests, FindToRevoke(r) \/ FindKey(r)
  PROVE  RequestsOK'
  <1> DEFINE q == req[r]
  <1>1. Still /\ Reading
    BY StillReading DEF FindToRevoke, FindKey, Still
  <1>2. /\ At(r, "reading") /\ q.op \in {"revoke", "revokeKey"}
        /\ q.op = "revoke" => FindToRevoke(r)
    BY DEF FindToRevoke, FindKey, Reads
  <1>3. Fits(q) /\ q \in Asked
    BY <1>2, ReadingIsAsked
  <1>4. CASE Finishes(r)
    BY <1>1, <1>4, Finished, ReadingRequests
  <1>5. CASE ~Finishes(r)
    <2>1. /\ To(r, "writing") /\ q.op = "revoke" => Pending(q.id)
      BY <1>2, <1>5, Refused DEF FindToRevoke, FindKey
    <2>2. To(r, "writing")
      BY <1>2, <1>5, Refused DEF FindToRevoke, FindKey
    <2>3. Typed /\ Others(r) /\ step'[r] = "writing" /\ req'[r] = q
      BY <2>2, StaysWith DEF Steps
    <2>4. Fits(req[r])'
      BY <1>1, <1>3, <2>3 DEF Fits, Reading
    <2>5. RequestFits(r)'
      BY <1>2, <2>3, <2>4 DEF RequestFits, At, Inviting
    <2>6. ASSUME r \notin overtaken
          PROVE  Knows(r)'
      <3>1. members[q.row].role = q.as
        BY <1>2, <1>3, <2>6 DEF RequestsOK, Knows, Fits, At
      <3>2. q.op = "revoke" => Pending(req[r].id)'
        BY <1>1, <2>1, <2>2, <2>3 DEF Pending, Reading
      <3> QED
        BY <1>1, <1>2, <2>3, <3>1, <3>2 DEF Knows, At, Inviting, Reading, MemberOps
    <2> QED
      BY <1>1, <2>3, <2>5, <2>6, ReadingRequests
  <1> QED
    BY <1>4, <1>5

LEMMA AcceptRequests ==
  ASSUME RowsOK, RequestsOK, NEW r \in Requests, NEW i \in DOMAIN invitations, Accept(r, i)
  PROVE  RequestsOK'
  <1> DEFINE u == invitations[i].email  q == [op |-> "accept", id |-> i, by |-> u]
  <1>1. Still /\ Reading
    BY StillReading DEF Accept, Still
  <1>2. Goes(r, "writing", q) /\ Pending(i) /\ ~IsMember(u)
    BY DEF Accept
  <1>3. Accepts(q) /\ q \in Acceptances
    <2>1. i \in Nat /\ invitations[i] \in InvitationRow
      BY DEF RowsOK, MembersOK, InvitationsOK, KeysOK
    <2>2. u \in Users
      BY <2>1 DEF InvitationRow
    <2> QED
      BY <2>1, <2>2 DEF Accepts, Acceptances
  <1>4. q.op = "accept" /\ q.id = i /\ q.by = u
    OBVIOUS
  <1> HIDE DEF q
  <1>5. Typed /\ Others(r) /\ step'[r] = "writing" /\ req'[r] = q
    BY <1>2, <1>3, GoesTo DEF Forms, Steps
  <1>6. Accepts(req[r])'
    BY <1>1, <1>3, <1>5 DEF Accepts, Reading
  <1>7. RequestFits(r)'
    BY <1>5, <1>6 DEF RequestFits, At, Inviting
  <1>8. Knows(r)'
    <2>1. Pending(req[r].id)' /\ ~IsMember(req[r].by)'
      BY <1>1, <1>2, <1>4, <1>5 DEF Pending, IsMember, RowsOf, Reading
    <2> QED
      BY <1>4, <1>5, <2>1 DEF Knows, At, Inviting, MemberOps
  <1> QED
    BY <1>1, <1>5, <1>7, <1>8, ReadingRequests

-----------------------------------------------------------------------------
(* The rows of the members.                                                *)

LEMMA MemberRows ==
  ASSUME RowsOK
  PROVE  /\ Len(members) \in Nat /\ DOMAIN members = 1..Len(members)
         /\ \A i \in DOMAIN members : /\ members[i] \in MembershipRow /\ members[i].user \in Users
                                      /\ members[i].role \in Roles \cup {Gone}
  <1>1. Len(members) \in Nat /\ DOMAIN members = 1..Len(members)
        /\ \A i \in DOMAIN members : members[i] \in MembershipRow
    BY DEF RowsOK, MembersOK
  <1> QED
    BY <1>1 DEF MembershipRow

LEMMA WithRole ==
  ASSUME NEW m \in MembershipRow, NEW role \in Roles \cup {Gone}
  PROVE  /\ [m EXCEPT !.role = role] \in MembershipRow
         /\ [m EXCEPT !.role = role].user = m.user /\ [m EXCEPT !.role = role].role = role
  BY DEF MembershipRow

\* One row gets another role.
Regraded(ms, i, role) == [ms EXCEPT ![i].role = role]

LEMMA RoleWritten ==
  ASSUME NEW ms \in Seq(MembershipRow), NEW i \in DOMAIN ms, NEW role \in Roles \cup {Gone},
         NEW new, new = Regraded(ms, i, role)
  PROVE  /\ new \in Seq(MembershipRow) /\ DOMAIN new = DOMAIN ms
         /\ \A j \in DOMAIN ms : /\ new[j].user = ms[j].user
                                 /\ j # i => new[j] = ms[j]
         /\ new[i].role = role
  <1> DEFINE x == [ms[i] EXCEPT !.role = role]
  <1>1. ms[i] \in MembershipRow
    OBVIOUS
  <1>2. x \in MembershipRow /\ x.user = ms[i].user /\ x.role = role
    BY <1>1, WithRole
  <1>3. new = [ms EXCEPT ![i] = x]
    BY DEF Regraded
  <1> HIDE DEF x
  <1>4. new \in Seq(MembershipRow) /\ DOMAIN new = DOMAIN ms
    BY <1>2, <1>3
  <1> QED
    BY <1>2, <1>3, <1>4

\* Rows that keep their users and do not come back are one for each user still.
LEMMA RowsStayOne ==
  ASSUME MembersOK, members' \in Seq(MembershipRow), DOMAIN members' = DOMAIN members,
         \A j \in DOMAIN members : /\ members'[j].user = members[j].user
                                   /\ members'[j].role # Gone => members[j].role # Gone
  PROVE  MembersOK'
  BY DEF MembersOK, OneRowEach

\* Somebody becomes a member who is not one.
LEMMA RowAdded ==
  ASSUME RowsOK, NEW u \in Users, NEW role \in Roles, ~IsMember(u),
         members' = Append(members, [user |-> u, role |-> role])
  PROVE  /\ MembersOK' /\ DOMAIN members' = DOMAIN members \cup {Len(members) + 1}
         /\ Len(members) + 1 \notin DOMAIN members
         /\ \A i \in DOMAIN members : members'[i] = members[i]
         /\ members'[Len(members) + 1] = [user |-> u, role |-> role]
  <1> DEFINE x == [user |-> u, role |-> role]  n == Len(members) + 1
  <1>1. x \in MembershipRow /\ x.user = u /\ x.role = role
    BY DEF MembershipRow
  <1>2. members' = Append(members, x)
    OBVIOUS
  <1>3. \A i \in DOMAIN members : members[i].user = u => members[i].role = Gone
    BY DEF IsMember, RowsOf
  <1> HIDE DEF x
  <1>4. /\ members' \in Seq(MembershipRow) /\ DOMAIN members' = DOMAIN members \cup {n}
        /\ n \notin DOMAIN members
        /\ \A i \in DOMAIN members : members'[i] = members[i]
        /\ members'[n] = x
    BY <1>1, <1>2, MemberRows DEF RowsOK, MembersOK
  <1> HIDE DEF n
  <1>5. OneRowEach'
    BY <1>1, <1>3, <1>4 DEF RowsOK, MembersOK, OneRowEach
  <1> QED
    BY <1>4, <1>5 DEF MembersOK, n, x

-----------------------------------------------------------------------------
(* The rows of the invitations.                                            *)

LEMMA InvitationRows ==
  ASSUME RowsOK
  PROVE  /\ Len(invitations) \in Nat /\ DOMAIN invitations = 1..Len(invitations)
         /\ DOMAIN admitted = DOMAIN invitations
         /\ \A i \in DOMAIN invitations :
               /\ invitations[i] \in InvitationRow /\ invitations[i].email \in Users
               /\ invitations[i].role \in Roles \ {"OWNER"} /\ admitted[i] \in Nat
  <1>1. /\ Len(invitations) \in Nat /\ DOMAIN invitations = 1..Len(invitations)
        /\ DOMAIN admitted = DOMAIN invitations
        /\ \A i \in DOMAIN invitations : invitations[i] \in InvitationRow /\ admitted[i] \in Nat
    BY DEF RowsOK, InvitationsOK
  <1> QED
    BY <1>1 DEF InvitationRow

\* The marks of an invitation, one by one.
LEMMA MarkedRow ==
  ASSUME NEW x \in InvitationRow
  PROVE  /\ [x EXCEPT !.revoked = TRUE] \in InvitationRow
         /\ [x EXCEPT !.revoked = TRUE].email = x.email
         /\ [x EXCEPT !.revoked = TRUE].accepted = x.accepted
         /\ [x EXCEPT !.revoked = TRUE].revoked
         /\ [x EXCEPT !.accepted = TRUE] \in InvitationRow
         /\ [x EXCEPT !.accepted = TRUE].email = x.email
         /\ [x EXCEPT !.accepted = TRUE].revoked = x.revoked
         /\ [x EXCEPT !.accepted = TRUE].accepted
         /\ [x EXCEPT !.expired = TRUE] \in InvitationRow
         /\ [x EXCEPT !.expired = TRUE].email = x.email
         /\ [x EXCEPT !.expired = TRUE].revoked = x.revoked
         /\ [x EXCEPT !.expired = TRUE].accepted = x.accepted
  BY DEF InvitationRow

\* An invitation is for the same address as before, and not pending again.
RowsMarked(i) ==
    /\ invitations' \in Seq(InvitationRow) /\ DOMAIN invitations' = DOMAIN invitations
    /\ Len(invitations') = Len(invitations)
    /\ \A j \in DOMAIN invitations : /\ invitations'[j].email = invitations[j].email
                                     /\ j # i => invitations'[j] = invitations[j]

LEMMA RevokedRows ==
  ASSUME RowsOK, NEW i \in DOMAIN invitations, invitations' = Revoked(i)
  PROVE  /\ RowsMarked(i) /\ invitations'[i].accepted = invitations[i].accepted
         /\ invitations'[i].revoked
  <1> DEFINE x == [invitations[i] EXCEPT !.revoked = TRUE]
  <1>1. invitations' = [invitations EXCEPT ![i] = x]
    BY DEF Revoked
  <1>2. x \in InvitationRow /\ x.email = invitations[i].email /\ x.revoked
        /\ x.accepted = invitations[i].accepted
    BY InvitationRows, MarkedRow
  <1> HIDE DEF x
  <1> QED
    BY <1>1, <1>2 DEF RowsOK, InvitationsOK, RowsMarked

WithAccepted(i) == [invitations EXCEPT ![i].accepted = TRUE]

LEMMA AcceptedRows ==
  ASSUME RowsOK, NEW i \in DOMAIN invitations,
         invitations' = WithAccepted(i)
  PROVE  /\ RowsMarked(i) /\ invitations'[i].revoked = invitations[i].revoked
         /\ invitations'[i].accepted
  <1> DEFINE x == [invitations[i] EXCEPT !.accepted = TRUE]
  <1>1. invitations' = [invitations EXCEPT ![i] = x]
    BY DEF WithAccepted
  <1>2. x \in InvitationRow /\ x.email = invitations[i].email /\ x.accepted
        /\ x.revoked = invitations[i].revoked
    BY InvitationRows, MarkedRow
  <1> HIDE DEF x
  <1> QED
    BY <1>1, <1>2 DEF RowsOK, InvitationsOK, RowsMarked

WithExpired(i) == [invitations EXCEPT ![i].expired = TRUE]

LEMMA ExpiredRows ==
  ASSUME RowsOK, NEW i \in DOMAIN invitations,
         invitations' = WithExpired(i)
  PROVE  /\ RowsMarked(i) /\ invitations'[i].accepted = invitations[i].accepted
         /\ invitations'[i].revoked = invitations[i].revoked
  <1> DEFINE x == [invitations[i] EXCEPT !.expired = TRUE]
  <1>1. invitations' = [invitations EXCEPT ![i] = x]
    BY DEF WithExpired
  <1>2. x \in InvitationRow /\ x.email = invitations[i].email
        /\ x.accepted = invitations[i].accepted /\ x.revoked = invitations[i].revoked
    BY InvitationRows, MarkedRow
  <1> HIDE DEF x
  <1> QED
    BY <1>1, <1>2 DEF RowsOK, InvitationsOK, RowsMarked

-----------------------------------------------------------------------------
(* Requests that write to members.                                         *)

LEMMA WritingMember ==
  ASSUME RequestsOK, NEW r \in Requests, NEW op \in MemberOps, Writes(r, op)
  PROVE  /\ WritesMember(req[r]) /\ req[r] \in Asked /\ req[r].op = op
         /\ req[r].by # Key /\ req[r].row \in DOMAIN members
         /\ members[req[r].row].user = req[r].by /\ Subject(r) = req[r].on
         /\ At(r, "writing")
         /\ r \notin overtaken =>
               /\ members[req[r].row].role = req[r].as
               /\ members[req[r].id].role \notin {Gone, "OWNER"}
               /\ op \in {"updateRole", "remove"} =>
                     canManageRole(req[r].as, members[req[r].id].role)
  <1>1. At(r, "writing") /\ req[r].op = op
    BY DEF Writes, At
  <1>2. WritesMember(req[r])
    BY <1>1 DEF RequestsOK, RequestFits, At, Accepts, Acceptances, MemberOps
  <1>3. Fits(req[r]) /\ req[r].op # "list" /\ req[r].op # "accept"
    BY <1>1, <1>2 DEF WritesMember, MemberOps
  <1>4. req[r] \in Asked /\ req[r].by # Key /\ req[r].row \in DOMAIN members
        /\ members[req[r].row].user = req[r].by
    BY <1>3 DEF Fits
  <1>5. Subject(r) = req[r].on
    BY <1>1 DEF Subject, MemberOps
  <1>6. r \notin overtaken => Knows(r)
    BY DEF RequestsOK
  <1> QED
    BY <1>1, <1>2, <1>3, <1>4, <1>5, <1>6 DEF Knows, At

LEMMA SetRoleRows ==
  ASSUME RowsOK, RequestsOK, NEW r \in Requests, SetRole(r)
  PROVE  /\ MembersOK' /\ Evolves({req[r].on}) /\ Wrote(r, {req[r].on}) /\ Finishes(r)
         /\ DOMAIN members' = DOMAIN members
         /\ \A j \in DOMAIN members : /\ members'[j].user = members[j].user
                                      /\ j # req[r].id => members'[j] = members[j]
         /\ members'[req[r].id].role = req[r].give /\ req[r].give \in Roles \ {"OWNER"}
         /\ members[req[r].id].role # Gone
  <1> DEFINE q == req[r]  i == q.id
  <1>1. Writes(r, "updateRole") /\ StillThere({i}) /\ Wrote(r, {q.on}) /\ Answers(r, 200)
        /\ members' = Regraded(members, i, q.give)
    BY DEF SetRole, Regraded
  <1>2. WritesMember(q) /\ q.op = "updateRole"
    BY <1>1, WritingMember DEF MemberOps
  <1>3. i \in DOMAIN members /\ members[i].user = q.on /\ q.give \in Roles /\ q.give # "OWNER"
    BY <1>2, OrganizationConstants DEF WritesMember, Fits
  <1>4. members[i].role # Gone
    BY <1>1, <1>3 DEF StillThere
  <1>5. /\ members' \in Seq(MembershipRow) /\ DOMAIN members' = DOMAIN members
        /\ \A j \in DOMAIN members : /\ members'[j].user = members[j].user
                                     /\ j # i => members'[j] = members[j]
        /\ members'[i].role = q.give
    <2>1. members \in Seq(MembershipRow) /\ q.give \in Roles \cup {Gone}
      BY <1>3 DEF RowsOK, MembersOK
    <2> HIDE DEF q, i
    <2> QED
      BY <1>1, <1>3, <2>1, RoleWritten
  <1>6. \A j \in DOMAIN members : members'[j].role # Gone => members[j].role # Gone
    BY <1>4, <1>5
  <1>7. MembersOK'
    BY <1>5, <1>6, RowsStayOne DEF RowsOK
  <1>8. UNCHANGED <<invitations, keys>>
    BY DEF SetRole
  <1>9. Evolves({q.on})
    <2> HIDE DEF q, i
    <2> QED
      BY <1>3, <1>5, <1>8 DEF Evolves, Pending
  <1>10. Finishes(r)
    BY <1>1 DEF Finishes
  <1> QED
    BY <1>1, <1>3, <1>4, <1>5, <1>7, <1>9, <1>10

LEMMA DeleteRows ==
  ASSUME RowsOK, RequestsOK, NEW r \in Requests, DeleteRow(r)
  PROVE  /\ MembersOK' /\ Evolves({req[r].on}) /\ Wrote(r, {req[r].on}) /\ Finishes(r)
         /\ DOMAIN members' = DOMAIN members
         /\ \A j \in DOMAIN members : /\ members'[j].user = members[j].user
                                      /\ j # req[r].id => members'[j] = members[j]
         /\ members'[req[r].id].role = Gone
  <1> DEFINE q == req[r]  i == q.id
  <1>1. Writes(r, "remove") \/ Writes(r, "leave")
    BY DEF DeleteRow
  <1>2. /\ Wrote(r, {q.on}) /\ Answers(r, 204) /\ WritesMember(q)
        /\ members' = Regraded(members, i, Gone)
    <2>1. WritesMember(q)
      BY <1>1, WritingMember DEF MemberOps
    <2> QED
      BY <2>1 DEF DeleteRow, Regraded
  <1>3. i \in DOMAIN members /\ members[i].user = q.on
    BY <1>2 DEF WritesMember
  <1>5. /\ members' \in Seq(MembershipRow) /\ DOMAIN members' = DOMAIN members
        /\ \A j \in DOMAIN members : /\ members'[j].user = members[j].user
                                     /\ j # i => members'[j] = members[j]
        /\ members'[i].role = Gone
    <2>1. members \in Seq(MembershipRow) /\ Gone \in Roles \cup {Gone}
      BY DEF RowsOK, MembersOK
    <2> HIDE DEF q, i
    <2> QED
      BY <1>2, <1>3, <2>1, RoleWritten
  <1>6. \A j \in DOMAIN members : members'[j].role # Gone => members[j].role # Gone
    BY <1>5
  <1>7. MembersOK'
    BY <1>5, <1>6, RowsStayOne DEF RowsOK
  <1>8. UNCHANGED <<invitations, keys>>
    BY DEF DeleteRow
  <1>9. Evolves({q.on})
    <2> HIDE DEF q, i
    <2> QED
      BY <1>3, <1>5, <1>8 DEF Evolves, Pending
  <1>10. Finishes(r)
    BY <1>2 DEF Finishes
  <1> QED
    BY <1>2, <1>3, <1>5, <1>7, <1>9, <1>10

LEMMA TransferRows ==
  ASSUME RowsOK, RequestsOK, NEW r \in Requests, CommitTransfer(r)
  PROVE  /\ MembersOK' /\ Evolves({req[r].by, req[r].on}) /\ Wrote(r, {req[r].by, req[r].on})
         /\ Finishes(r) /\ DOMAIN members' = DOMAIN members
         /\ \A j \in DOMAIN members :
               /\ members'[j].user = members[j].user
               /\ j \notin {req[r].row, req[r].id} => members'[j] = members[j]
         /\ members'[req[r].id].role = "OWNER"
         /\ req[r].row # req[r].id => members'[req[r].row].role = "ADMIN"
         /\ members[req[r].id].role # Gone /\ members[req[r].row].role # Gone
  <1> DEFINE q == req[r]  i == q.id  k == q.row
             half == Regraded(members, k, "ADMIN")
  <1>1. /\ Writes(r, "transfer") /\ StillThere({k, i}) /\ Wrote(r, {q.by, q.on})
        /\ Answers(r, 204) /\ members' = Regraded(half, i, "OWNER")
    BY DEF CommitTransfer, Regraded
  <1>2. WritesMember(q) /\ k \in DOMAIN members /\ members[k].user = q.by
    BY <1>1, WritingMember DEF MemberOps
  <1>3. i \in DOMAIN members /\ members[i].user = q.on
    BY <1>2 DEF WritesMember
  <1>4. members[i].role # Gone /\ members[k].role # Gone
    BY <1>1, <1>2, <1>3 DEF StillThere
  <1>5. members \in Seq(MembershipRow) /\ {"ADMIN", "OWNER"} \subseteq Roles \cup {Gone}
    BY DEF RowsOK, MembersOK, Roles
  <1>6. /\ half \in Seq(MembershipRow) /\ DOMAIN half = DOMAIN members
        /\ \A j \in DOMAIN members : /\ half[j].user = members[j].user
                                     /\ j # k => half[j] = members[j]
        /\ half[k].role = "ADMIN"
    <2> HIDE DEF k
    <2> QED
      BY <1>2, <1>5, RoleWritten
  <1> HIDE DEF half
  <1>7. /\ members' \in Seq(MembershipRow) /\ DOMAIN members' = DOMAIN half
        /\ \A j \in DOMAIN half : /\ members'[j].user = half[j].user
                                  /\ j # i => members'[j] = half[j]
        /\ members'[i].role = "OWNER"
    <2> HIDE DEF i
    <2>1. i \in DOMAIN half /\ half \in Seq(MembershipRow) /\ "OWNER" \in Roles \cup {Gone}
      BY <1>3, <1>5, <1>6
    <2>2. members' = Regraded(half, i, "OWNER")
      BY <1>1
    <2> QED
      BY ONLY <2>1, <2>2, RoleWritten
  <1>8. /\ \A j \in DOMAIN members : /\ members'[j].user = members[j].user
                                     /\ j \notin {k, i} => members'[j] = members[j]
        /\ k # i => members'[k].role = "ADMIN"
    BY <1>2, <1>3, <1>6, <1>7
  <1>9. \A j \in DOMAIN members : members'[j].role # Gone => members[j].role # Gone
    BY <1>4, <1>8
  <1>10. MembersOK'
    BY <1>6, <1>7, <1>8, <1>9, RowsStayOne DEF RowsOK
  <1>11. UNCHANGED <<invitations, keys>>
    BY DEF CommitTransfer
  <1>12. Evolves({q.by, q.on})
    <2> HIDE DEF q, i, k
    <2> QED
      BY <1>2, <1>3, <1>6, <1>7, <1>8, <1>11 DEF Evolves, Pending
  <1>13. Finishes(r)
    BY <1>1 DEF Finishes
  <1> QED
    BY <1>1, <1>4, <1>6, <1>7, <1>8, <1>10, <1>12, <1>13

MemberWrites(r) == SetRole(r) \/ DeleteRow(r) \/ CommitTransfer(r)

LEMMA MemberWritesOK ==
  ASSUME RowsOK, RequestsOK, NEW r \in Requests, MemberWrites(r)
  PROVE  RowsOK' /\ RequestsOK'
  <1>1. MembersOK' /\ Finishes(r) /\ \E W : Evolves(W) /\ Wrote(r, W)
    BY SetRoleRows, DeleteRows, TransferRows DEF MemberWrites
  <1>2. UNCHANGED <<organization, invitations, keys, verified, mailed, faults, admitted, orphaned>>
    BY DEF MemberWrites, SetRole, DeleteRow, CommitTransfer, Wrote
  <1>3. RowsOK'
    BY <1>1, <1>2 DEF RowsOK, InvitationsOK, KeysOK, OnePendingEach, Pending
  <1>4. RequestsOK'
    BY <1>1, Finished, WritingRequests
  <1> QED
    BY <1>3, <1>4

-----------------------------------------------------------------------------
(* Requests that write to invitations.                                     *)

\* An invitation is marked, and not made pending by it.
LEMMA Marking ==
  ASSUME RowsOK, NEW i \in DOMAIN invitations, RowsMarked(i), Pending(i)' => Pending(i)
  PROVE  /\ OnePendingEach'
         /\ \A j \in DOMAIN invitations : /\ Pending(j)' => Pending(j)
                                          /\ j # i => (Pending(j)' <=> Pending(j))
  <1>1. \A j \in DOMAIN invitations : j # i => (Pending(j)' <=> Pending(j))
    BY DEF RowsMarked, Pending
  <1>2. \A j \in DOMAIN invitations : Pending(j)' => Pending(j)
    BY <1>1
  <1>3. OnePendingEach'
    BY <1>2 DEF RowsOK, InvitationsOK, OnePendingEach, RowsMarked
  <1> QED
    BY <1>1, <1>2, <1>3

LEMMA MarkingEvolves ==
  ASSUME RowsOK, NEW i \in DOMAIN invitations, RowsMarked(i), Pending(i)' => Pending(i),
         UNCHANGED <<members, keys>>
  PROVE  Evolves({invitations[i].email})
  BY Marking DEF RowsMarked, Evolves

\* revoke, of create and of revoke.
LEMMA RevokeRows ==
  ASSUME RowsOK, NEW i \in DOMAIN invitations, invitations' = Revoked(i),
         UNCHANGED <<organization, members, keys, verified, mailed, faults, admitted, orphaned>>
  PROVE  /\ RowsOK' /\ Evolves({invitations[i].email})
         /\ RowsMarked(i) /\ invitations'[i].accepted = invitations[i].accepted
         /\ invitations'[i].revoked
         /\ \A j \in DOMAIN invitations : Pending(j)' <=> j # i /\ Pending(j)
  <1>1. RowsMarked(i) /\ invitations'[i].accepted = invitations[i].accepted
        /\ invitations'[i].revoked
    BY RevokedRows
  <1>2. ~Pending(i)'
    BY <1>1 DEF Pending
  <1>3. OnePendingEach' /\ Evolves({invitations[i].email})
        /\ \A j \in DOMAIN invitations : j # i => (Pending(j)' <=> Pending(j))
    BY <1>1, <1>2, Marking, MarkingEvolves
  <1>4. MembersOK' /\ KeysOK'
    BY DEF RowsOK, MembersOK, OneRowEach, KeysOK
  <1>5. InvitationsOK'
    <2>1. \A j \in DOMAIN invitations : invitations'[j].accepted = invitations[j].accepted
      BY <1>1 DEF RowsMarked
    <2> QED
      BY <1>1, <1>3, <2>1 DEF RowsOK, InvitationsOK, RowsMarked
  <1> QED
    BY <1>1, <1>2, <1>3, <1>4, <1>5 DEF RowsOK

LEMMA InvitingFits ==
  ASSUME RequestsOK, NEW r \in Requests, step[r] \in Inviting
  PROVE  /\ Fits(req[r]) /\ req[r] \in Asked /\ req[r].op = "invite"
         /\ req[r].give \in Roles \ {"OWNER"} /\ req[r].on \in Users /\ req[r].by # Key
         /\ step[r] \in {"retiring", "mailing"} =>
               req[r].id \in DOMAIN invitations /\ invitations[req[r].id].email = req[r].on
         /\ Subject(r) = req[r].on /\ HasRead(r) = {req[r].by, req[r].on}
         /\ r \notin overtaken =>
               /\ members[req[r].row].role = req[r].as
               /\ step[r] \in {"lookup", "retiring", "inserting"} => ~IsMember(req[r].on)
               /\ step[r] = "retiring" => Pending(req[r].id)
               /\ step[r] = "inserting" => PendingFor(req[r].on) = {}
  <1> DEFINE q == req[r]
  <1>1. Fits(q) /\ q \in Asked /\ q.op = "invite" /\ q.give # "OWNER" /\ q.by # Key
    BY DEF RequestsOK, RequestFits, Fits
  <1>2. q.on \in Users /\ q.give \in Roles
    BY <1>1, OrganizationConstants DEF Fits
  <1>3. step[r] \in {"retiring", "mailing"} =>
               q.id \in DOMAIN invitations /\ invitations[q.id].email = q.on
    BY DEF RequestsOK, RequestFits
  <1>4. Subject(r) = q.on
    BY <1>1 DEF Subject
  <1>5. HasRead(r) = {q.by, q.on}
    BY <1>4 DEF HasRead, At, Inviting
  <1>6. r \notin overtaken => Knows(r)
    BY DEF RequestsOK
  <1> QED
    BY <1>1, <1>2, <1>3, <1>4, <1>5, <1>6 DEF Knows, At, Inviting

LEMMA RetireOK ==
  ASSUME RowsOK, RequestsOK, NEW r \in Requests, Retire(r)
  PROVE  RowsOK' /\ RequestsOK'
  <1> DEFINE q == req[r]  i == q.id
  <1>1. /\ step[r] = "retiring" /\ invitations' = Revoked(i) /\ Wrote(r, {q.on}) /\ GoesOn(r)
        /\ UNCHANGED <<organization, members, keys, verified, mailed, faults, admitted>>
    BY DEF Retire, At
  <1>2. step[r] \in Inviting
    BY <1>1 DEF Inviting
  <1>3. /\ q.op = "invite" /\ q.give # "OWNER" /\ i \in DOMAIN invitations
        /\ invitations[i].email = q.on
        /\ r \notin overtaken => ~IsMember(q.on) /\ Pending(i)
    BY <1>1, <1>2, InvitingFits
  <1>4. UNCHANGED orphaned
    BY <1>1 DEF Wrote
  <1>5. /\ RowsOK' /\ Evolves({q.on}) /\ RowsMarked(i)
        /\ \A j \in DOMAIN invitations : Pending(j)' <=> j # i /\ Pending(j)
    BY <1>1, <1>3, <1>4, RevokeRows
  <1>6. r \notin overtaken => \A u \in {q.on} : PendingFor(u)' = {}
    BY <1>3, <1>5 DEF PendingFor, RowsMarked, RowsOK, InvitationsOK, OnePendingEach
  <1>7. CASE organization = "live"
    <2>1. To(r, "inserting") /\ req' = req
      BY <1>1, <1>7 DEF GoesOn, To
    <2>2. r \notin overtaken => PendingFor(req[r].on)' = {}
      BY <1>6, <2>1 DEF PendingFor
    <2>3. members' = members /\ UNCHANGED keys /\ DOMAIN invitations' = DOMAIN invitations
      BY <1>1, <1>5 DEF RowsMarked
    <2>4. /\ Typed /\ Others(r) /\ RequestFits(r)' /\ (r \notin overtaken => Knows(r)')
      BY <1>1, <1>3, <2>1, <2>2, <2>3, InvitingOn
    <2> QED
      BY <1>1, <1>5, <2>4, WritingRequests
  <1>8. CASE organization # "live"
    <2>1. Finishes(r)
      BY <1>1, <1>8, Refused DEF GoesOn
    <2> QED
      BY <1>1, <1>5, <2>1, Finished, WritingRequests
  <1> QED
    BY <1>5, <1>7, <1>8

LEMMA StillRows ==
  ASSUME RowsOK, Still
  PROVE  RowsOK'
  <1>1. UNCHANGED <<organization, members, invitations, keys, verified, mailed, faults, admitted, orphaned>>
    BY DEF Still, rows, history
  <1> QED
    BY <1>1 DEF RowsOK, MembersOK, OneRowEach, InvitationsOK, OnePendingEach, Pending, KeysOK

\* create, the row.
Inserts(r) ==
    /\ invitations' = Append(invitations, Invitation(r)) /\ admitted' = Append(admitted, 0)
    /\ Wrote(r, {req[r].on})
    /\ Goes(r, "mailing", [req[r] EXCEPT !.id = Len(invitations) + 1])
    /\ UNCHANGED <<organization, members, keys, verified, mailed, faults>>
    /\ PendingFor(req[r].on) = {}

LEMMA InsertedRows ==
  ASSUME RowsOK, RequestsOK, NEW r \in Requests, At(r, "inserting"), Inserts(r)
  PROVE  LET n == Len(invitations) + 1 IN
         /\ invitations' \in Seq(InvitationRow) /\ admitted' \in Seq(Nat)
         /\ Len(admitted') = Len(invitations')
         /\ DOMAIN invitations' = DOMAIN invitations \cup {n} /\ n \notin DOMAIN invitations
         /\ n \in Nat /\ n \in DOMAIN invitations'
         /\ \A i \in DOMAIN invitations :
               invitations'[i] = invitations[i] /\ admitted'[i] = admitted[i]
         /\ invitations'[n] = Invitation(r) /\ admitted'[n] = 0
         /\ Invitation(r).email = req[r].on /\ ~Invitation(r).accepted /\ ~Invitation(r).revoked
  <1> DEFINE x == Invitation(r)  n == Len(invitations) + 1
  <1>1. x \in InvitationRow /\ x.email = req[r].on /\ ~x.accepted /\ ~x.revoked
    BY InvitingFits DEF Invitation, InvitationRow, At, Inviting
  <1>2. invitations' = Append(invitations, x) /\ admitted' = Append(admitted, 0)
    BY DEF Inserts
  <1>3. invitations \in Seq(InvitationRow) /\ admitted \in Seq(Nat)
        /\ Len(admitted) = Len(invitations) /\ Len(invitations) \in Nat
        /\ DOMAIN invitations = 1..Len(invitations)
    BY DEF RowsOK, InvitationsOK
  <1> HIDE DEF x
  <1>4. invitations' \in Seq(InvitationRow) /\ admitted' \in Seq(Nat)
        /\ Len(admitted') = Len(invitations')
    BY <1>1, <1>2, <1>3
  <1>5. DOMAIN invitations' = DOMAIN invitations \cup {n} /\ n \notin DOMAIN invitations
        /\ n \in Nat /\ n \in DOMAIN invitations'
    BY <1>2, <1>3
  <1>6. \A i \in DOMAIN invitations :
               invitations'[i] = invitations[i] /\ admitted'[i] = admitted[i]
    BY <1>2, <1>3
  <1>7. invitations'[n] = x /\ admitted'[n] = 0
    BY <1>2, <1>3
  <1> QED
    BY <1>1, <1>4, <1>5, <1>6, <1>7 DEF x

LEMMA InsertsOK ==
  ASSUME RowsOK, RequestsOK, NEW r \in Requests, At(r, "inserting"), Inserts(r)
  PROVE  RowsOK' /\ RequestsOK'
  <1> DEFINE q == req[r]  n == Len(invitations) + 1  new == [q EXCEPT !.id = n]
  <1>1. /\ invitations' \in Seq(InvitationRow) /\ admitted' \in Seq(Nat)
        /\ Len(admitted') = Len(invitations')
        /\ DOMAIN invitations' = DOMAIN invitations \cup {n} /\ n \notin DOMAIN invitations
        /\ n \in Nat /\ n \in DOMAIN invitations'
        /\ \A i \in DOMAIN invitations :
              invitations'[i] = invitations[i] /\ admitted'[i] = admitted[i]
        /\ invitations'[n].email = q.on /\ admitted'[n] = 0 /\ ~invitations'[n].accepted
    BY InsertedRows
  <1>2. /\ Fits(q) /\ q \in Asked /\ q.op = "invite" /\ q.give # "OWNER"
        /\ r \notin overtaken => members[q.row].role = q.as
    BY InvitingFits DEF At, Inviting
  <1>3. /\ UNCHANGED <<organization, members, keys, verified, mailed, faults, orphaned>>
        /\ Wrote(r, {q.on}) /\ Goes(r, "mailing", new)
    BY DEF Inserts, Wrote
  <1>4. \A i \in DOMAIN invitations : invitations[i].email = q.on => ~Pending(i)
    BY DEF Inserts, PendingFor
  <1>5. /\ new \in Asked /\ new.id = n
        /\ new.op = q.op /\ new.give = q.give /\ new.scopes = q.scopes /\ new.on = q.on
        /\ new.by = q.by /\ new.row = q.row /\ new.as = q.as
    <2>1. q \in Asked /\ n \in Nat
      BY <1>1, <1>2
    <2> HIDE DEF n, q
    <2> QED
      BY <2>1, WithId
  <1> HIDE DEF new, n
  <1>6. \A i \in DOMAIN invitations : Pending(i)' <=> Pending(i)
    BY <1>1 DEF Pending
  <1>7. OnePendingEach'
    <2> SUFFICES ASSUME NEW i \in DOMAIN invitations', NEW j \in DOMAIN invitations',
                        invitations'[i].email = invitations'[j].email,
                        Pending(i)', Pending(j)'
                 PROVE  i = j
      BY DEF OnePendingEach
    <2>1. CASE i = n
      BY <1>1, <1>4, <1>6, <2>1
    <2>2. CASE j = n
      BY <1>1, <1>4, <1>6, <2>2
    <2>3. CASE i # n /\ j # n
      BY <1>1, <1>6, <2>3 DEF RowsOK, InvitationsOK, OnePendingEach
    <2> QED
      BY <2>1, <2>2, <2>3
  <1>8. InvitationsOK'
    <2>1. \A i \in DOMAIN invitations' : ~invitations'[i].accepted => admitted'[i] = 0
      BY <1>1 DEF RowsOK, InvitationsOK
    <2> QED
      BY <1>1, <1>3, <1>7, <2>1 DEF RowsOK, InvitationsOK
  <1>9. RowsOK'
    BY <1>3, <1>8 DEF RowsOK, MembersOK, OneRowEach, KeysOK
  <1>10. Evolves({q.on})
    BY <1>1, <1>3, <1>6 DEF Evolves
  <1>11. Typed /\ Others(r) /\ step'[r] = "mailing" /\ req'[r] = new
    BY <1>3, <1>5, GoesTo DEF Forms, Steps
  <1>12. RequestFits(r)'
    <2>1. Fits(new)
      BY <1>2, <1>5 DEF Fits, MemberOps
    <2>2. Fits(req[r])'
      BY <1>1, <1>3, <1>11, <2>1 DEF Fits
    <2> QED
      BY <1>1, <1>2, <1>5, <1>11, <2>2 DEF RequestFits, At, Inviting
  <1>13. r \notin overtaken => Knows(r)'
    BY <1>2, <1>3, <1>5, <1>11 DEF Knows, At, Inviting, MemberOps
  <1> QED
    BY <1>3, <1>9, <1>10, <1>11, <1>12, <1>13, WritingRequests

LEMMA InsertOK ==
  ASSUME RowsOK, RequestsOK, NEW r \in Requests, InsertInvitation(r)
  PROVE  RowsOK' /\ RequestsOK'
  <1>1. CASE PendingFor(req[r].on) # {}
    <2>1. Fails(r) /\ Still
      BY <1>1 DEF InsertInvitation, Still
    <2>2. Finishes(r)
      BY <2>1, Refused DEF Fails
    <2> QED
      BY <2>1, <2>2, StillRows, StillReading, Finished, ReadingRequests
  <1>2. CASE PendingFor(req[r].on) = {}
    <2>1. At(r, "inserting") /\ Inserts(r)
      BY <1>2 DEF InsertInvitation, Inserts
    <2> QED
      BY <2>1, InsertsOK
  <1> QED
    BY <1>1, <1>2

LEMMA Revoking ==
  ASSUME RowsOK, RequestsOK, NEW r \in Requests, RevokeInvitation(r)
  PROVE  LET i == req[r].id IN
         /\ i \in DOMAIN invitations /\ invitations' = Revoked(i) /\ Finishes(r)
         /\ Subject(r) = invitations[i].email /\ Wrote(r, {invitations[i].email})
         /\ r \notin overtaken => Pending(i)
         /\ req[r].op = "revoke" /\ At(r, "writing")
         /\ UNCHANGED <<organization, members, keys, verified, mailed, faults, admitted, orphaned>>
  <1>1. At(r, "writing") /\ req[r].op = "revoke"
    BY DEF RevokeInvitation, Writes
  <1>2. req[r].id \in DOMAIN invitations
    BY <1>1 DEF RequestsOK, RequestFits, Accepts, Acceptances, WritesMember, MemberOps, Fits
  <1>3. Subject(r) = invitations[req[r].id].email
    BY <1>1 DEF Subject
  <1>4. r \notin overtaken => Pending(req[r].id)
    BY <1>1 DEF RequestsOK, Knows
  <1>5. Finishes(r)
    BY DEF RevokeInvitation, Finishes
  <1> QED
    BY <1>1, <1>2, <1>3, <1>4, <1>5 DEF RevokeInvitation, Wrote

LEMMA RevokingOK ==
  ASSUME RowsOK, RequestsOK, NEW r \in Requests, RevokeInvitation(r)
  PROVE  RowsOK' /\ RequestsOK'
  <1> DEFINE i == req[r].id
  <1>1. /\ i \in DOMAIN invitations /\ invitations' = Revoked(i) /\ Finishes(r)
        /\ Wrote(r, {invitations[i].email})
        /\ UNCHANGED <<organization, members, keys, verified, mailed, faults, admitted, orphaned>>
    BY Revoking
  <1>2. RowsOK' /\ Evolves({invitations[i].email})
    BY <1>1, RevokeRows
  <1>3. RequestsOK'
    BY <1>1, <1>2, Finished, WritingRequests
  <1> QED
    BY <1>2, <1>3

\* accept, the transaction.
LEMMA Joining ==
  ASSUME RowsOK, RequestsOK, NEW r \in Requests, Join(r)
  PROVE  LET i == req[r].id
             u == req[r].by
             n == Len(members) + 1 IN
         /\ i \in DOMAIN invitations /\ u = invitations[i].email /\ u \in Users
         /\ ~IsMember(u) /\ Subject(r) = u /\ Wrote(r, {u}) /\ Finishes(r)
         /\ r \notin overtaken => Pending(i)
         /\ req[r].op = "accept" /\ At(r, "writing")
         /\ RowsMarked(i) /\ invitations'[i].revoked = invitations[i].revoked
         /\ invitations'[i].accepted
         /\ MembersOK' /\ DOMAIN members' = DOMAIN members \cup {n} /\ n \notin DOMAIN members
         /\ \A j \in DOMAIN members : members'[j] = members[j]
         /\ members'[n].user = u /\ members'[n].role \in Roles \ {"OWNER"}
         /\ admitted' \in Seq(Nat) /\ Len(admitted') = Len(admitted)
         /\ admitted'[i] = admitted[i] + 1
         /\ \A j \in DOMAIN invitations : j # i => admitted'[j] = admitted[j]
         /\ verified' = verified \cup {u}
         /\ UNCHANGED <<organization, keys, mailed, faults, orphaned>>
  <1> DEFINE i == req[r].id  u == req[r].by  n == Len(members) + 1
             role == invitations[i].role
  <1>1. At(r, "writing") /\ req[r].op = "accept" /\ ~IsMember(u)
    BY DEF Join, Writes
  <1>2. Accepts(req[r])
    BY <1>1 DEF RequestsOK, RequestFits, WritesMember, MemberOps
  <1>3. i \in DOMAIN invitations /\ u = invitations[i].email /\ Subject(r) = u
    BY <1>1, <1>2 DEF Accepts, Subject
  <1>4. u \in Users /\ role \in Roles \ {"OWNER"}
    BY <1>3, InvitationRows
  <1>5. r \notin overtaken => Pending(i)
    BY <1>1 DEF RequestsOK, Knows
  <1>6. /\ Finishes(r) /\ Wrote(r, {u}) /\ verified' = verified \cup {u}
        /\ UNCHANGED <<organization, keys, mailed, faults, orphaned>>
    BY DEF Join, Finishes, Wrote
  <1>7. /\ members' = Append(members, [user |-> u, role |-> role])
        /\ invitations' = WithAccepted(i)
        /\ admitted' = [admitted EXCEPT ![i] = @ + 1]
    BY DEF Join, WithAccepted
  <1> HIDE DEF i, u, role
  <1>8. /\ RowsMarked(i) /\ invitations'[i].revoked = invitations[i].revoked
        /\ invitations'[i].accepted
    BY <1>3, <1>7, AcceptedRows
  <1>9. /\ admitted' \in Seq(Nat) /\ Len(admitted') = Len(admitted)
        /\ admitted'[i] = admitted[i] + 1
        /\ \A j \in DOMAIN invitations : j # i => admitted'[j] = admitted[j]
    <2>1. admitted \in Seq(Nat) /\ i \in DOMAIN admitted /\ admitted[i] + 1 \in Nat
          /\ DOMAIN admitted = DOMAIN invitations
      BY <1>3, InvitationRows DEF RowsOK, InvitationsOK
    <2> DEFINE x == admitted[i] + 1
    <2>2. admitted' = [admitted EXCEPT ![i] = x]
      BY <1>7
    <2> HIDE DEF x
    <2>3. x \in Nat
      BY <2>1 DEF x
    <2>4. /\ admitted' \in Seq(Nat) /\ Len(admitted') = Len(admitted)
          /\ admitted'[i] = x
          /\ \A j \in DOMAIN invitations : j # i => admitted'[j] = admitted[j]
      BY <2>1, <2>2, <2>3
    <2> QED
      BY <2>4 DEF x
  <1>10. /\ MembersOK' /\ DOMAIN members' = DOMAIN members \cup {n} /\ n \notin DOMAIN members
         /\ \A j \in DOMAIN members : members'[j] = members[j]
         /\ members'[n] = [user |-> u, role |-> role]
    <2>1. ~IsMember(u) /\ role \in Roles
      BY <1>1, <1>4 DEF u
    <2> QED
      BY <1>4, <1>7, <2>1, RowAdded
  <1>11. members'[n].user = u /\ members'[n].role = role
    BY <1>10
  <1> QED
    BY <1>1, <1>3, <1>4, <1>5, <1>6, <1>8, <1>9, <1>10, <1>11 DEF i, u

LEMMA JoiningOK ==
  ASSUME RowsOK, RequestsOK, NEW r \in Requests, Join(r)
  PROVE  RowsOK' /\ RequestsOK'
  <1> PICK i : i = req[r].id
    OBVIOUS
  <1> PICK u : u = req[r].by
    OBVIOUS
  <1> PICK n : n = Len(members) + 1
    OBVIOUS
  <1>1. /\ i \in DOMAIN invitations /\ u = invitations[i].email /\ u \in Users
        /\ Wrote(r, {u}) /\ Finishes(r)
        /\ RowsMarked(i) /\ invitations'[i].accepted
        /\ MembersOK' /\ DOMAIN members' = DOMAIN members \cup {n}
        /\ \A j \in DOMAIN members : members'[j] = members[j]
        /\ members'[n].user = u
        /\ admitted' \in Seq(Nat) /\ Len(admitted') = Len(admitted)
        /\ \A j \in DOMAIN invitations : j # i => admitted'[j] = admitted[j]
        /\ verified' = verified \cup {u}
        /\ UNCHANGED <<organization, keys, mailed, faults, orphaned>>
    BY Joining
  <1>2. ~Pending(i)'
    BY <1>1 DEF Pending
  <1>3. OnePendingEach' /\ \A j \in DOMAIN invitations : j # i => (Pending(j)' <=> Pending(j))
    BY <1>1, <1>2, Marking
  <1>4. InvitationsOK'
    <2>1. /\ invitations' \in Seq(InvitationRow) /\ DOMAIN invitations' = DOMAIN invitations
          /\ Len(invitations') = Len(invitations)
          /\ \A j \in DOMAIN invitations : j # i => invitations'[j] = invitations[j]
      BY <1>1 DEF RowsMarked
    <2>2. \A j \in DOMAIN invitations' : ~invitations'[j].accepted => admitted'[j] = 0
      BY <1>1, <2>1 DEF RowsOK, InvitationsOK
    <2> QED
      BY <1>1, <1>3, <2>1, <2>2 DEF RowsOK, InvitationsOK
  <1>5. RowsOK'
    <2>1. KeysOK'
      BY <1>1 DEF RowsOK, KeysOK
    <2>2. verified' \subseteq Users
      BY <1>1 DEF RowsOK
    <2> QED
      BY <1>1, <1>4, <2>1, <2>2 DEF RowsOK
  <1>6. Evolves({u})
    <2>1. /\ DOMAIN invitations' = DOMAIN invitations
          /\ \A j \in DOMAIN invitations : invitations'[j].email = invitations[j].email
      BY <1>1 DEF RowsMarked
    <2>2. \A j \in DOMAIN invitations : invitations[j].email \notin {u} => (Pending(j)' <=> Pending(j))
      BY <1>1, <1>3
    <2>3. DOMAIN members \subseteq DOMAIN members'
          /\ \A j \in DOMAIN members' \ DOMAIN members : members'[j].user \in {u}
      BY <1>1
    <2> QED
      BY <1>1, <2>1, <2>2, <2>3 DEF Evolves
  <1>7. RequestsOK'
    BY <1>1, <1>6, Finished, WritingRequests
  <1> QED
    BY <1>5, <1>7

-----------------------------------------------------------------------------
(* The other steps.                                                        *)

\* A request is over; the rows of members, invitations and keys stay.
Ends(r) ==
    \/ List(r) \/ KeyRefused(r) \/ RowHasGone(r) \/ JoinedAlready(r)
    \/ MailInvitation(r) \/ QueueFails(r) \/ DeleteOrganization(r) \/ CutShort(r)

\* What becomes of the rest.
LEMMA Ending ==
  ASSUME RowsOK, RequestsOK, NEW r \in Requests, Ends(r)
  PROVE  /\ Finishes(r)
         /\ UNCHANGED <<members, invitations, keys, verified, overtaken, stale, admitted>>
         /\ organization' \in {organization, "deleted"}
         /\ organization' # organization => organization' = "deleted" /\ At(r, "reading")
         /\ mailed' \in {mailed, mailed \cup {req[r].id}}
         /\ mailed' # mailed => At(r, "mailing")
         /\ faults' \in {faults, faults + 1} /\ faults' \in 0..MaxFaults
         /\ orphaned' \in BOOLEAN
         /\ orphaned' # orphaned => At(r, "owning") /\ orphaned'
         /\ At(r, "owning") => orphaned'
         /\ At(r, "mailing") => mailed' = mailed \cup {req[r].id} \/ faults' = faults + 1
         /\ UnderWay(r)
  <1>0. faults \in 0..MaxFaults /\ MaxFaults \in Nat /\ orphaned \in BOOLEAN
    BY OrganizationConstants DEF RowsOK
  <1>1. CASE List(r) \/ KeyRefused(r) \/ RowHasGone(r) \/ JoinedAlready(r)
    <2>1. Still
      BY <1>1 DEF List, KeyRefused, RowHasGone, JoinedAlready, Still
    <2>2. Finishes(r)
      <3>1. List(r) => Finishes(r)
        BY DEF List, Finishes
      <3>2. KeyRefused(r) \/ RowHasGone(r) \/ JoinedAlready(r) => Finishes(r)
        BY Refused DEF KeyRefused, RowHasGone, JoinedAlready, Fails
      <3> QED
        BY <1>1, <3>1, <3>2
    <2>3. ~At(r, "owning") /\ ~At(r, "mailing") /\ UnderWay(r)
      BY <1>1 DEF List, KeyRefused, RowHasGone, JoinedAlready, Reads, Writes, At, UnderWay
    <2> QED
      BY <1>0, <2>1, <2>2, <2>3 DEF Still, rows, history
  <1>2. CASE MailInvitation(r)
    <2>1. Finishes(r)
      BY <1>2 DEF MailInvitation, Finishes
    <2> QED
      BY <1>0, <1>2, <2>1 DEF MailInvitation, history, At, UnderWay
  <1>3. CASE QueueFails(r)
    <2>1. Finishes(r)
      BY <1>3, Refused DEF QueueFails
    <2> QED
      <3>1. step[r] = "mailing" /\ faults < MaxFaults /\ faults' = faults + 1
            /\ mailed' \in {mailed, mailed \cup {req[r].id}}
            /\ UNCHANGED <<organization, members, invitations, keys, verified,
                           overtaken, stale, admitted, orphaned>>
        BY <1>3 DEF QueueFails, history, At
      <3>2. faults' \in 0..MaxFaults
        BY <1>0, <3>1
      <3> QED
        BY <1>0, <2>1, <3>1, <3>2 DEF At, UnderWay
  <1>4. CASE DeleteOrganization(r)
    <2>1. Finishes(r)
      BY <1>4 DEF DeleteOrganization, Finishes
    <2> QED
      BY <1>0, <1>4, <2>1 DEF DeleteOrganization, history, At, UnderWay
  <1>5. CASE CutShort(r)
    <2>1. Finishes(r)
      BY <1>5, Refused DEF CutShort, Fails
    <2>2. orphaned' = (orphaned \/ At(r, "owning"))
      BY <1>5 DEF CutShort
    <2>3. /\ orphaned' \in BOOLEAN
          /\ orphaned' # orphaned => At(r, "owning") /\ orphaned'
          /\ At(r, "owning") => orphaned'
      BY <1>0, <2>2, Zenon
    <2>4. UnderWay(r) /\ faults < MaxFaults /\ faults' = faults + 1
          /\ UNCHANGED <<rows, overtaken, stale, admitted>>
      BY <1>5 DEF CutShort
    <2>5. faults' \in 0..MaxFaults
      BY <1>0, <2>4
    <2>6. UNCHANGED <<organization, members, invitations, keys, verified, mailed>>
      BY <2>4 DEF rows
    <2> QED
      BY <2>1, <2>3, <2>4, <2>5, <2>6
  <1> QED
    BY <1>1, <1>2, <1>3, <1>4, <1>5 DEF Ends

LEMMA EndingOK ==
  ASSUME RowsOK, RequestsOK, NEW r \in Requests, Ends(r)
  PROVE  RowsOK' /\ RequestsOK'
  <1>1. /\ Finishes(r)
        /\ UNCHANGED <<members, invitations, keys, verified, overtaken, admitted>>
        /\ organization' \in {organization, "deleted"}
        /\ mailed' \in {mailed, mailed \cup {req[r].id}}
        /\ mailed' # mailed => At(r, "mailing")
        /\ faults' \in 0..MaxFaults /\ orphaned' \in BOOLEAN
    BY Ending
  <1>2. mailed' \subseteq DOMAIN invitations
    <2>1. At(r, "mailing") => req[r].id \in DOMAIN invitations
      BY InvitingFits DEF At, Inviting
    <2> QED
      BY <1>1, <2>1 DEF RowsOK, InvitationsOK
  <1>3. InvitationsOK'
    BY <1>1, <1>2 DEF RowsOK, InvitationsOK, OnePendingEach, Pending
  <1>4. RowsOK'
    BY <1>1, <1>3 DEF RowsOK, MembersOK, OneRowEach, KeysOK
  <1>5. Reading
    BY <1>1 DEF Reading
  <1> QED
    BY <1>1, <1>4, <1>5, Finished, ReadingRequests

LEMMA FoundingOK ==
  ASSUME RowsOK, RequestsOK, NEW r \in Requests, CreateOrganization(r)
  PROVE  RowsOK' /\ RequestsOK'
  <1>1. /\ organization' = "live" /\ Goes(r, "owning", Founding)
        /\ UNCHANGED <<members, invitations, keys, verified, mailed, faults, overtaken, admitted, orphaned>>
    BY DEF CreateOrganization, history, Founding
  <1>2. RowsOK'
    BY <1>1 DEF RowsOK, MembersOK, OneRowEach, InvitationsOK, OnePendingEach, Pending, KeysOK
  <1>3. Typed /\ Others(r) /\ step'[r] = "owning" /\ req'[r] = Founding
    BY <1>1, GoesTo DEF Forms, Steps
  <1>4. RequestFits(r)' /\ Knows(r)'
    BY <1>3 DEF RequestFits, Knows, At, Inviting
  <1> QED
    BY <1>1, <1>2, <1>3, <1>4, ReadingRequests DEF Reading

LEMMA OwnerRows ==
  ASSUME RowsOK, FoundedOnce, NEW r \in Requests, AddOwner(r)
  PROVE  /\ MembersOK' /\ members = <<>> /\ DOMAIN members' = {1} /\ DOMAIN members = {}
         /\ members'[1].user = Founder /\ members'[1].role = "OWNER"
         /\ invitations = <<>> /\ invitations' = <<>> /\ keys' = <<>>
         /\ \A q \in Requests : step[q] \in {"new", "owning", "done"}
         /\ \A q \in Requests \ {r} : ~UnderWay(q)
         /\ ~orphaned /\ organization # "none" /\ Finishes(r)
  <1>1. /\ At(r, "owning") /\ members' = Append(members, [user |-> Founder, role |-> "OWNER"])
        /\ UNCHANGED <<invitations, keys>> /\ Finishes(r)
    BY DEF AddOwner, Finishes
  <1>2. /\ members = <<>> /\ invitations = <<>> /\ keys = <<>>
        /\ \A q \in Requests : step[q] \in {"new", "owning", "done"}
        /\ ~orphaned /\ organization # "none" /\ \A q \in Requests : At(q, "owning") => q = r
    BY <1>1 DEF FoundedOnce, Unowned
  <1>3. \A q \in Requests \ {r} : ~UnderWay(q)
    BY <1>2 DEF At, UnderWay
  <1>4. ~IsMember(Founder) /\ Founder \in Users /\ "OWNER" \in Roles /\ Len(members) = 0
        /\ DOMAIN members = {}
    BY <1>2, OrganizationConstants DEF IsMember, RowsOf, Roles
  <1>5. MembersOK' /\ DOMAIN members' = {1} /\ members'[1] = [user |-> Founder, role |-> "OWNER"]
    BY <1>1, <1>4, RowAdded
  <1> QED
    BY <1>1, <1>2, <1>3, <1>4, <1>5

LEMMA OwnerOK ==
  ASSUME RowsOK, RequestsOK, FoundedOnce, NEW r \in Requests, AddOwner(r)
  PROVE  RowsOK' /\ RequestsOK'
  <1>1. /\ MembersOK' /\ DOMAIN members' = {1} /\ DOMAIN members = {}
        /\ members'[1].user = Founder /\ Finishes(r)
        /\ \A q \in Requests \ {r} : ~UnderWay(q)
    BY OwnerRows
  <1>2. UNCHANGED <<organization, invitations, keys, verified, mailed, faults, overtaken, admitted, orphaned>>
    BY DEF AddOwner, history
  <1>3. RowsOK'
    BY <1>1, <1>2 DEF RowsOK, InvitationsOK, OnePendingEach, Pending, KeysOK
  <1>4. Evolves({Founder})
    BY <1>1, <1>2 DEF Evolves, Pending
  <1>5. overtaken \subseteq overtaken' /\ overtaken' \subseteq Requests
    BY <1>2 DEF RequestsOK
  <1> QED
    BY <1>1, <1>3, <1>4, <1>5, Finished, RequestsKept

-----------------------------------------------------------------------------
(* API keys, and time.                                                     *)

LEMMA KeyRows ==
  ASSUME RowsOK, RequestsOK, NEW r \in Requests, CreateKey(r) \/ RevokeKey(r)
  PROVE  KeysOK' /\ DOMAIN keys \subseteq DOMAIN keys'
  <1>1. keys \in Seq(ApiKeyRow) /\ \A k \in DOMAIN keys : keys[k] \in ApiKeyRow
    BY DEF RowsOK, KeysOK
  <1>2. CASE CreateKey(r)
    <2> DEFINE x == NewKey(r)
    <2>1. Fits(req[r]) /\ req[r] \in Asked /\ req[r].op = "createKey"
      BY <1>2, ReadingIsAsked DEF CreateKey, Reads
    <2>2. req[r].by \in Users /\ req[r].scopes \subseteq PERMISSIONS
      BY <2>1 DEF Fits, Asked
    <2>3. x \in ApiKeyRow /\ \A p \in x.scopes : isPermissionGrantableToApiKey(p)
      BY <1>2, <2>2 DEF CreateKey, NewKey, ApiKeyRow
    <2>4. keys' = Append(keys, x)
      BY <1>2 DEF CreateKey
    <2> HIDE DEF x
    <2>5. keys' \in Seq(ApiKeyRow) /\ DOMAIN keys \subseteq DOMAIN keys'
          /\ \A k \in DOMAIN keys' : keys'[k] = x \/ (k \in DOMAIN keys /\ keys'[k] = keys[k])
      <3>1. keys' \in Seq(ApiKeyRow) /\ Len(keys) \in Nat /\ DOMAIN keys = 1..Len(keys)
            /\ Len(keys') = Len(keys) + 1 /\ DOMAIN keys' = 1..Len(keys')
        BY <1>1, <2>3, <2>4
      <3>2. keys'[Len(keys) + 1] = x /\ \A k \in 1..Len(keys) : keys'[k] = keys[k]
        BY <1>1, <2>3, <2>4
      <3>3. PICK n \in Nat : n = Len(keys)
        BY <3>1
      <3>4. /\ DOMAIN keys = 1..n /\ DOMAIN keys' = 1..(n + 1)
            /\ keys'[n + 1] = x /\ \A k \in 1..n : keys'[k] = keys[k]
        BY <3>1, <3>2, <3>3
      <3>5. 1..n \subseteq 1..(n + 1) /\ \A k \in 1..(n + 1) : k = n + 1 \/ k \in 1..n
        OBVIOUS
      <3>6. ASSUME NEW k \in DOMAIN keys'
            PROVE  keys'[k] = x \/ (k \in DOMAIN keys /\ keys'[k] = keys[k])
        <4>1. k = n + 1 \/ k \in 1..n
          BY <3>4, <3>5
        <4> QED
          BY <3>4, <4>1
      <3>7. DOMAIN keys \subseteq DOMAIN keys'
        BY <3>4, <3>5
      <3> QED
        BY <3>1, <3>6, <3>7
    <2> QED
      BY <2>3, <2>5 DEF RowsOK, KeysOK
  <1>3. CASE RevokeKey(r)
    <2>1. PICK k : k = req[r].id
      OBVIOUS
    <2>2. req[r].op = "revokeKey" /\ At(r, "writing") /\ keys' = [keys EXCEPT ![k].revoked = TRUE]
      BY <1>3, <2>1 DEF RevokeKey, Writes
    <2>3. k \in DOMAIN keys
      BY <2>1, <2>2 DEF RequestsOK, RequestFits, Accepts, Acceptances, WritesMember, MemberOps, Fits
    <2> DEFINE x == [keys[k] EXCEPT !.revoked = TRUE]
    <2>4. x \in ApiKeyRow /\ x.scopes = keys[k].scopes
      <3>1. \A y \in ApiKeyRow : /\ [y EXCEPT !.revoked = TRUE] \in ApiKeyRow
                                 /\ [y EXCEPT !.revoked = TRUE].scopes = y.scopes
        BY DEF ApiKeyRow
      <3> QED
        BY <1>1, <2>3, <3>1
    <2>5. keys' = [keys EXCEPT ![k] = x]
      BY <2>2
    <2> HIDE DEF x
    <2>6. /\ keys' \in Seq(ApiKeyRow) /\ DOMAIN keys' = DOMAIN keys
          /\ \A j \in DOMAIN keys : keys'[j].scopes = keys[j].scopes
      BY <1>1, <2>3, <2>4, <2>5
    <2> QED
      BY <2>6 DEF RowsOK, KeysOK
  <1> QED
    BY <1>2, <1>3

LEMMA KeyWritesOK ==
  ASSUME RowsOK, RequestsOK, NEW r \in Requests, CreateKey(r) \/ RevokeKey(r)
  PROVE  RowsOK' /\ RequestsOK'
  <1>1. /\ UNCHANGED <<organization, members, invitations, verified, mailed, faults, overtaken, admitted, orphaned>>
        /\ Finishes(r)
    BY DEF CreateKey, RevokeKey, history, Finishes
  <1>2. KeysOK' /\ DOMAIN keys \subseteq DOMAIN keys'
    BY KeyRows
  <1>3. RowsOK'
    BY <1>1, <1>2 DEF RowsOK, MembersOK, OneRowEach, InvitationsOK, OnePendingEach, Pending
  <1> QED
    BY <1>1, <1>2, <1>3, Finished, ReadingRequests DEF Reading

\* No request moves.
LEMMA NobodyMoves ==
  ASSUME RequestsOK, UNCHANGED <<step, req, overtaken>>, Evolves({})
  PROVE  RequestsOK'
  <1>1. ASSUME NEW q \in Requests
        PROVE  RequestFits(q)' /\ (q \notin overtaken' => Knows(q)')
    <2>1. RequestFits(q) /\ (q \notin overtaken => Knows(q))
      BY DEF RequestsOK
    <2>2. UnderWay(q) /\ q \notin overtaken' => {} \cap HasRead(q) = {}
      OBVIOUS
    <2>3. step'[q] = step[q] /\ req'[q] = req[q] /\ overtaken \subseteq overtaken'
      OBVIOUS
    <2> QED
      BY <2>1, <2>2, <2>3, KeptOne
  <1> QED
    BY <1>1 DEF RequestsOK

LEMMA ExpireOK ==
  ASSUME RowsOK, RequestsOK, NEW i \in DOMAIN invitations, Expire(i)
  PROVE  /\ RowsOK' /\ RequestsOK' /\ RowsMarked(i)
         /\ \A j \in DOMAIN invitations : /\ Pending(j)' <=> Pending(j)
                                          /\ invitations'[j].accepted = invitations[j].accepted
                                          /\ invitations'[j].revoked = invitations[j].revoked
  <1>1. /\ invitations' = WithExpired(i)
        /\ UNCHANGED <<organization, members, keys, verified, mailed, step, req, faults,
                       overtaken, admitted, orphaned>>
    BY DEF Expire, WithExpired, history
  <1>2. /\ RowsMarked(i) /\ invitations'[i].accepted = invitations[i].accepted
        /\ invitations'[i].revoked = invitations[i].revoked
    BY <1>1, ExpiredRows
  <1>3. \A j \in DOMAIN invitations : /\ invitations'[j].accepted = invitations[j].accepted
                                      /\ invitations'[j].revoked = invitations[j].revoked
    BY <1>2 DEF RowsMarked
  <1>4. \A j \in DOMAIN invitations : Pending(j)' <=> Pending(j)
    BY <1>3 DEF Pending
  <1>5. OnePendingEach'
    BY <1>2, <1>4, Marking
  <1>6. InvitationsOK'
    BY <1>1, <1>2, <1>3, <1>5 DEF RowsOK, InvitationsOK, RowsMarked
  <1>7. RowsOK'
    BY <1>1, <1>6 DEF RowsOK, MembersOK, OneRowEach, KeysOK
  <1>8. Evolves({})
    BY <1>1, <1>2, <1>4 DEF Evolves, RowsMarked
  <1> QED
    BY <1>1, <1>2, <1>3, <1>4, <1>7, <1>8, NobodyMoves

LEMMA ExpireKeyOK ==
  ASSUME RowsOK, RequestsOK, NEW k \in DOMAIN keys, ExpireKey(k)
  PROVE  RowsOK' /\ RequestsOK'
  <1>1. /\ keys' = [keys EXCEPT ![k].expired = TRUE]
        /\ UNCHANGED <<organization, members, invitations, verified, mailed, step, req, faults,
                       overtaken, admitted, orphaned>>
    BY DEF ExpireKey, history
  <1>2. keys \in Seq(ApiKeyRow) /\ keys[k] \in ApiKeyRow
    BY DEF RowsOK, KeysOK
  <1> DEFINE x == [keys[k] EXCEPT !.expired = TRUE]
  <1>3. x \in ApiKeyRow /\ x.scopes = keys[k].scopes
    <2>1. \A y \in ApiKeyRow : /\ [y EXCEPT !.expired = TRUE] \in ApiKeyRow
                               /\ [y EXCEPT !.expired = TRUE].scopes = y.scopes
      BY DEF ApiKeyRow
    <2> QED
      BY <1>2, <2>1
  <1>4. keys' = [keys EXCEPT ![k] = x]
    BY <1>1
  <1> HIDE DEF x
  <1>5. /\ keys' \in Seq(ApiKeyRow) /\ DOMAIN keys' = DOMAIN keys
        /\ \A j \in DOMAIN keys : keys'[j].scopes = keys[j].scopes
    BY <1>2, <1>3, <1>4
  <1>6. KeysOK'
    BY <1>5 DEF RowsOK, KeysOK
  <1>7. RowsOK'
    BY <1>1, <1>6 DEF RowsOK, MembersOK, OneRowEach, InvitationsOK, OnePendingEach, Pending
  <1>8. Evolves({})
    BY <1>1, <1>5 DEF Evolves, Pending
  <1> QED
    BY <1>1, <1>7, <1>8, NobodyMoves

-----------------------------------------------------------------------------
(* What has been written in spite of what was read.                        *)

Looks(r) ==
    \/ Arrive(r) \/ UpdateRole(r) \/ Remove(r) \/ Leave(r) \/ TransferOwnership(r)
    \/ CheckInvitee(r) \/ FindPending(r) \/ FindToRevoke(r) \/ FindKey(r)
    \/ \E i \in DOMAIN invitations : Accept(r, i)

InvitationWrites(r) == Retire(r) \/ InsertInvitation(r) \/ RevokeInvitation(r) \/ Join(r)

KeyWrites(r) == CreateKey(r) \/ RevokeKey(r)

\* What a request of an organization that has been founded does.
Works(r) ==
    Looks(r) \/ Ends(r) \/ MemberWrites(r) \/ InvitationWrites(r) \/ KeyWrites(r)

LEMMA KindsOfSteps ==
  ASSUME Next
  PROVE  \/ \E r \in Requests : CreateOrganization(r) \/ AddOwner(r) \/ Works(r)
         \/ \E i \in DOMAIN invitations : Expire(i)
         \/ \E k \in DOMAIN keys : ExpireKey(k)
  BY DEF Next, MemberStep, InvitationStep, KeyStep, Works, Looks, Ends, MemberWrites,
         InvitationWrites, KeyWrites

LEMMA LookingOK ==
  ASSUME RowsOK, RequestsOK, NEW r \in Requests, Looks(r)
  PROVE  RowsOK' /\ RequestsOK' /\ Still
  <1>1. Still
    BY DEF Looks, Arrive, UpdateRole, Remove, Leave, TransferOwnership, Found, CheckInvitee,
           FindPending, FindToRevoke, FindKey, Accept, Still
  <1>2. RowsOK'
    BY <1>1, StillRows
  <1>3. RequestsOK'
    BY ArriveRequests, MemberReads, InviteReads, RevokeReads, AcceptRequests DEF Looks
  <1> QED
    BY <1>1, <1>2, <1>3

LEMMA WorkingOK ==
  ASSUME RowsOK, RequestsOK, NEW r \in Requests, Works(r)
  PROVE  RowsOK' /\ RequestsOK'
  BY LookingOK, EndingOK, MemberWritesOK, RetireOK, InsertOK, RevokingOK, JoiningOK, KeyWritesOK
     DEF Works, InvitationWrites, KeyWrites

\* No request begins or founds anything but in CreateOrganization.
LEMMA WorkMoves ==
  ASSUME RequestsOK, NEW r \in Requests, Works(r)
  PROVE  /\ step' \in [Requests -> Steps] /\ Others(r) /\ step'[r] \notin {"new", "owning"}
         /\ ~At(r, "done")
  <1>1. step \in [Requests -> Steps] /\ req \in [Requests -> Forms]
    BY DEF RequestsOK
  <1>2. \A s, q : Goes(r, s, q) /\ s \in Steps \ {"new", "owning"} =>
           step' \in [Requests -> Steps] /\ Others(r) /\ step'[r] \notin {"new", "owning"}
    BY <1>1 DEF Goes, Others
  <1>3. \A s : To(r, s) /\ s \in Steps \ {"new", "owning"} =>
           step' \in [Requests -> Steps] /\ Others(r) /\ step'[r] \notin {"new", "owning"}
    BY <1>1 DEF To, Others
  <1>4. {"reading", "writing", "lookup", "retiring", "inserting", "mailing", "done"}
           \subseteq Steps \ {"new", "owning"}
    BY DEF Steps
  <1>5. Finishes(r) => \E q : Goes(r, "done", q)
    BY DEF Finishes, Answers
  <1>6. \A e : Refuses(r, e) => Finishes(r)
    BY Refused
  <1> HIDE DEF Finishes, Goes, To, Others, Refuses
  <1>7. CASE Looks(r)
    <2>1. Arrive(r) => \E q : Goes(r, "reading", q)
      BY DEF Arrive, ArriveAsUser, ArriveWithKey, Passes
    <2>2. \A refusal : Found(r, refusal) => Finishes(r) \/ \E q : Goes(r, "writing", q)
      BY <1>6 DEF Found
    <2>3. UpdateRole(r) \/ Remove(r) \/ Leave(r) \/ TransferOwnership(r)
            => \E refusal : Found(r, refusal)
      BY DEF UpdateRole, Remove, Leave, TransferOwnership
    <2>4. CheckInvitee(r) => Finishes(r) \/ To(r, "lookup")
      BY <1>6 DEF CheckInvitee
    <2>5. FindPending(r) => Finishes(r) \/ To(r, "inserting") \/ \E q : Goes(r, "retiring", q)
      BY <1>6 DEF FindPending, GoesOn
    <2>6. FindToRevoke(r) \/ FindKey(r) => Finishes(r) \/ To(r, "writing")
      BY <1>6 DEF FindToRevoke, FindKey
    <2>7. (\E i \in DOMAIN invitations : Accept(r, i)) => \E q : Goes(r, "writing", q)
      BY DEF Accept
    <2>8. ~At(r, "done")
      BY <1>7 DEF Looks, Arrive, UpdateRole, Remove, Leave, TransferOwnership, CheckInvitee,
                  FindPending, FindToRevoke, FindKey, Accept, Reads, At
    <2> QED
      BY <1>2, <1>3, <1>4, <1>5, <1>7, <2>1, <2>2, <2>3, <2>4, <2>5, <2>6, <2>7, <2>8 DEF Looks
  <1>8. CASE Ends(r)
    <2>1. UnderWay(r)
      BY <1>8 DEF Ends, List, KeyRefused, RowHasGone, JoinedAlready, MailInvitation, QueueFails,
                  DeleteOrganization, CutShort, Reads, Writes, At, UnderWay
    <2>2. Finishes(r)
      <3>1. List(r) \/ MailInvitation(r) \/ DeleteOrganization(r) => Finishes(r)
        BY DEF List, MailInvitation, DeleteOrganization, Finishes
      <3>2. KeyRefused(r) \/ RowHasGone(r) \/ JoinedAlready(r) \/ QueueFails(r) \/ CutShort(r)
              => Finishes(r)
        BY <1>6 DEF KeyRefused, RowHasGone, JoinedAlready, QueueFails, CutShort, Fails
      <3> QED
        BY <1>8, <3>1, <3>2 DEF Ends
    <2> QED
      BY <1>2, <1>4, <1>5, <2>1, <2>2 DEF UnderWay, At
  <1>9. CASE MemberWrites(r) \/ KeyWrites(r) \/ RevokeInvitation(r) \/ Join(r)
    <2>1. Finishes(r)
      BY <1>9 DEF MemberWrites, KeyWrites, SetRole, DeleteRow, CommitTransfer, CreateKey,
                  RevokeKey, RevokeInvitation, Join, Finishes
    <2>2. ~At(r, "done")
      BY <1>9 DEF MemberWrites, KeyWrites, SetRole, DeleteRow, CommitTransfer, CreateKey,
                  RevokeKey, RevokeInvitation, Join, Reads, Writes, At
    <2> QED
      BY <1>2, <1>4, <1>5, <2>1, <2>2
  <1>10. CASE Retire(r) \/ InsertInvitation(r)
    <2>1. Finishes(r) \/ To(r, "inserting") \/ \E q : Goes(r, "mailing", q)
      BY <1>6, <1>10 DEF Retire, GoesOn, InsertInvitation, Fails
    <2>2. ~At(r, "done")
      BY <1>10 DEF Retire, InsertInvitation, At
    <2> QED
      BY <1>2, <1>3, <1>4, <1>5, <2>1, <2>2
  <1> QED
    BY <1>7, <1>8, <1>9, <1>10 DEF Works, InvitationWrites

-----------------------------------------------------------------------------
(* The founding.                                                           *)

\* Nothing else happens before it.
LEMMA NothingBefore ==
  ASSUME FoundedOnce, Unowned, NEW r \in Requests, Works(r)
  PROVE  CutShort(r) /\ At(r, "owning")
  <1>1. /\ members = <<>> /\ invitations = <<>> /\ keys = <<>>
        /\ step[r] \in {"new", "owning", "done"}
    BY DEF FoundedOnce
  <1>2. ~Arrive(r)
    BY <1>1 DEF Arrive, ArriveAsUser, IsMember, RowsOf
  <1>3. ~\E i \in DOMAIN invitations : Accept(r, i)
    BY <1>1
  <1>4. ~Looks(r)
    BY <1>1, <1>2, <1>3 DEF Looks, UpdateRole, Remove, Leave, TransferOwnership,
          CheckInvitee, FindPending, FindToRevoke, FindKey, Reads, At
  <1>5. ~MemberWrites(r) /\ ~InvitationWrites(r) /\ ~KeyWrites(r)
    BY <1>1 DEF MemberWrites, InvitationWrites, KeyWrites, SetRole, DeleteRow, CommitTransfer,
                Retire, InsertInvitation, RevokeInvitation, Join, CreateKey, RevokeKey,
                Reads, Writes, At
  <1>6. Ends(r) => CutShort(r)
    BY <1>1 DEF Ends, List, KeyRefused, RowHasGone, JoinedAlready, MailInvitation, QueueFails,
                DeleteOrganization, Reads, Writes, At
  <1>7. CutShort(r) => At(r, "owning")
    BY <1>1 DEF CutShort, UnderWay, At
  <1> QED
    BY <1>4, <1>5, <1>6, <1>7 DEF Works

\* After it the organization is there, and owned.
LEMMA OwnedStays ==
  ASSUME RowsOK, RequestsOK, FoundedOnce, ~Unowned, NEW r \in Requests, Works(r)
  PROVE  ~Unowned'
  <1>1. organization # "none" /\ ~orphaned /\ \A q \in Requests : step[q] # "owning"
    BY DEF Unowned, At
  <1>2. \A q \in Requests : step'[q] # "owning"
    BY <1>1, WorkMoves DEF Others
  <1>3. organization' # "none" /\ ~orphaned'
    <2>1. CASE Ends(r)
      BY <1>1, <2>1, Ending DEF At
    <2>2. CASE Looks(r)
      BY <1>1, <2>2, LookingOK DEF Still, rows, history
    <2>3. CASE MemberWrites(r) \/ InvitationWrites(r) \/ KeyWrites(r)
      BY <1>1, <2>3 DEF MemberWrites, InvitationWrites, KeyWrites, SetRole, DeleteRow,
           CommitTransfer, Retire, InsertInvitation, RevokeInvitation, Join, CreateKey, RevokeKey,
           Wrote, rows, history
    <2> QED
      BY <2>1, <2>2, <2>3 DEF Works
  <1> QED
    BY <1>2, <1>3 DEF Unowned, At

LEMMA FoundedStays ==
  ASSUME RowsOK, RequestsOK, FoundedOnce, Next
  PROVE  FoundedOnce' /\ (~Unowned => ~Unowned')
  <1>1. ASSUME NEW r \in Requests, CreateOrganization(r)
        PROVE  FoundedOnce' /\ Unowned
    <2>1. organization = "none" /\ Goes(r, "owning", Founding) /\ organization' = "live"
          /\ UNCHANGED <<members, invitations, keys, orphaned>>
      BY <1>1 DEF CreateOrganization, Founding, history
    <2>2. Unowned /\ ~orphaned /\ \A q \in Requests : step[q] # "owning"
      BY <2>1 DEF FoundedOnce, Unowned, At
    <2>3. Others(r) /\ step'[r] = "owning"
      BY <2>1, GoesTo DEF Forms, Steps
    <2> QED
      BY <2>1, <2>2, <2>3 DEF FoundedOnce, Others, At
  <1>2. ASSUME NEW r \in Requests, AddOwner(r)
        PROVE  FoundedOnce' /\ Unowned /\ ~Unowned'
    <2>1. /\ Finishes(r) /\ organization # "none" /\ ~orphaned /\ At(r, "owning")
          /\ \A q \in Requests \ {r} : ~UnderWay(q)
      BY <1>2, OwnerRows DEF AddOwner
    <2>2. UNCHANGED <<organization, orphaned>>
      BY <1>2 DEF AddOwner, history
    <2>3. Others(r) /\ step'[r] = "done"
      BY <2>1, Finished
    <2>4. \A q \in Requests : step'[q] # "owning"
      BY <2>1, <2>3 DEF Others, UnderWay
    <2> QED
      BY <2>1, <2>2, <2>4 DEF FoundedOnce, Unowned, At
  <1>3. ASSUME NEW r \in Requests, Works(r)
        PROVE  FoundedOnce' /\ (~Unowned => ~Unowned')
    <2>1. CASE ~Unowned
      BY <1>3, <2>1, OwnedStays DEF FoundedOnce, Unowned
    <2>2. CASE Unowned
      <3>1. CutShort(r) /\ At(r, "owning")
        BY <1>3, <2>2, NothingBefore
      <3>2. Ends(r)
        BY <3>1 DEF Ends
      <3>3. /\ UNCHANGED <<members, invitations, keys, organization>> /\ Finishes(r)
        BY <3>1, <3>2, Ending DEF CutShort, rows
      <3>4. Others(r) /\ step'[r] = "done"
        BY <3>3, Finished
      <3>5. organization # "none" /\ \A q \in Requests : At(q, "owning") => q = r
        BY <3>1 DEF FoundedOnce
      <3>6. \A q \in Requests : step'[q] \in {"new", "owning", "done"} /\ step'[q] # "owning"
        BY <2>2, <3>4, <3>5 DEF Others, FoundedOnce, At
      <3>7. members' = <<>> /\ invitations' = <<>> /\ keys' = <<>>
        BY <2>2, <3>3 DEF FoundedOnce
      <3> QED
        BY <2>2, <3>3, <3>5, <3>6, <3>7 DEF FoundedOnce, At
    <2> QED
      BY <2>1, <2>2
  <1>4. ASSUME \/ \E i \in DOMAIN invitations : Expire(i)
               \/ \E k \in DOMAIN keys : ExpireKey(k)
        PROVE  FoundedOnce' /\ (~Unowned => ~Unowned')
    <2>1. UNCHANGED <<organization, orphaned, step, members>>
      BY <1>4 DEF Expire, ExpireKey, history
    <2>2. ~Unowned
      BY <1>4 DEF FoundedOnce
    <2> QED
      BY <2>1, <2>2 DEF FoundedOnce, Unowned, At
  <1> QED
    BY <1>1, <1>2, <1>3, <1>4, KindsOfSteps

-----------------------------------------------------------------------------
(* The history of stale writes.                                            *)

\* What a write adds to it.
Record(r) == [r |-> r, op |-> req[r].op, on |-> Subject(r)]

LEMMA Recorded ==
  ASSUME NEW r, NEW W, Wrote(r, W)
  PROVE  /\ Record(r).r = r /\ Record(r).op = req[r].op /\ Record(r).on = Subject(r)
         /\ r \in overtaken => stale' = stale \cup {Record(r)}
         /\ r \notin overtaken => stale' = stale
         /\ orphaned' = orphaned
  BY DEF Wrote, Record

StaleOf(ops) == {s \in stale : s.op \in ops}

LEMMA StaleGrows ==
  ASSUME StaleOnce, IsFiniteSet(stale'), stale \subseteq stale'
  PROVE  /\ \A ops, u : /\ StaleWrites(ops, u) \subseteq StaleWrites(ops, u)'
                        /\ IsFiniteSet(StaleWrites(ops, u)) /\ IsFiniteSet(StaleWrites(ops, u)')
                        /\ Cardinality(StaleWrites(ops, u)) \in Nat
                        /\ Cardinality(StaleWrites(ops, u)') \in Nat
                        /\ Cardinality(StaleWrites(ops, u)) <= Cardinality(StaleWrites(ops, u)')
         /\ \A ops : /\ IsFiniteSet(StaleOf(ops)) /\ IsFiniteSet(StaleOf(ops)')
                     /\ Cardinality(StaleOf(ops)) \in Nat /\ Cardinality(StaleOf(ops)') \in Nat
                     /\ Cardinality(StaleOf(ops)) <= Cardinality(StaleOf(ops)')
  <1>1. IsFiniteSet(stale)
    BY DEF StaleOnce
  <1>2. ASSUME NEW S, NEW T, S \subseteq stale, T \subseteq stale', S \subseteq T
        PROVE  /\ IsFiniteSet(S) /\ IsFiniteSet(T)
               /\ Cardinality(S) \in Nat /\ Cardinality(T) \in Nat
               /\ Cardinality(S) <= Cardinality(T)
    BY <1>1, <1>2, FS_Subset, FS_CardinalityType
  <1>3. ASSUME NEW ops, NEW u
        PROVE  /\ StaleWrites(ops, u) \subseteq StaleWrites(ops, u)'
               /\ StaleWrites(ops, u) \subseteq stale /\ StaleWrites(ops, u)' \subseteq stale'
    BY DEF StaleWrites
  <1>4. ASSUME NEW ops
        PROVE  /\ StaleOf(ops) \subseteq StaleOf(ops)'
               /\ StaleOf(ops) \subseteq stale /\ StaleOf(ops)' \subseteq stale'
    BY DEF StaleOf
  <1> QED
    BY <1>2, <1>3, <1>4

\* A request that writes to members is over, so its record is a new one.
LEMMA StaleStays ==
  ASSUME RequestsOK, StaleOnce, NEW r \in Requests, ~At(r, "done"), Others(r),
         NEW x, stale' \in {stale, stale \cup {x}},
         x.op \in MemberOps \cup {"accept"} => x.r = r /\ step'[r] = "done"
  PROVE  /\ StaleOnce' /\ stale \subseteq stale' /\ IsFiniteSet(stale')
         /\ x.op \in MemberOps \cup {"accept"} => x \notin stale
  <1>1. IsFiniteSet(stale') /\ stale \subseteq stale'
    BY FS_AddElement DEF StaleOnce
  <1>2. x.op \in MemberOps \cup {"accept"} => x \notin stale
    BY DEF StaleOnce
  <1>3. ASSUME NEW s \in stale', s.op \in MemberOps \cup {"accept"}
        PROVE  s.r \in Requests /\ step'[s.r] = "done"
    <2>1. CASE s \in stale
      BY <1>3, <2>1 DEF StaleOnce, Others, At
    <2>2. CASE s = x
      BY <1>3, <2>2
    <2> QED
      BY <2>1, <2>2
  <1> QED
    BY <1>1, <1>2, <1>3 DEF StaleOnce, At

\* One more.
LEMMA StaleAdds ==
  ASSUME StaleOnce, NEW x, x \notin stale, stale' = stale \cup {x}
  PROVE  /\ \A ops : x.op \in ops =>
               Cardinality(StaleOf(ops)') = Cardinality(StaleOf(ops)) + 1
         /\ \A ops : x.op \in ops =>
               Cardinality(StaleWrites(ops, x.on)') = Cardinality(StaleWrites(ops, x.on)) + 1
  <1>1. IsFiniteSet(stale)
    BY DEF StaleOnce
  <1>2. ASSUME NEW S \in SUBSET stale
        PROVE  Cardinality(S \cup {x}) = Cardinality(S) + 1
    BY <1>1, FS_Subset, FS_AddElement
  <1>3. ASSUME NEW ops, x.op \in ops
        PROVE  /\ StaleOf(ops)' = StaleOf(ops) \cup {x} /\ StaleOf(ops) \subseteq stale
               /\ StaleWrites(ops, x.on)' = StaleWrites(ops, x.on) \cup {x}
               /\ StaleWrites(ops, x.on) \subseteq stale
    BY <1>3 DEF StaleOf, StaleWrites
  <1> QED
    BY <1>2, <1>3

-----------------------------------------------------------------------------
(* The OWNER.                                                              *)

Taking == {"updateRole", "remove", "leave"}

Owned ==
    /\ Cardinality(Owners) <= 1 + Cardinality(StaleOf({"transfer"}))
    /\ Cardinality(Owners) >= 1 - Cardinality(StaleOf(Taking))

LEMMA OwnedIsSole ==
  /\ SoleOwner <=> (~Unowned => Owned)
  /\ SoleOwner' <=> (~Unowned' => Owned')
  <1>1. /\ StaleOf({"transfer"}) = {s \in stale : s.op = "transfer"}
        /\ StaleOf(Taking) = {s \in stale : s.op \in {"updateRole", "remove", "leave"}}
        /\ StaleOf({"transfer"})' = {s \in stale' : s.op = "transfer"}
        /\ StaleOf(Taking)' = {s \in stale' : s.op \in {"updateRole", "remove", "leave"}}
    BY DEF StaleOf, Taking
  <1> QED
    BY <1>1 DEF SoleOwner, Owned, Unowned

LEMMA OwnersFinite ==
  ASSUME RowsOK
  PROVE  IsFiniteSet(Owners) /\ Cardinality(Owners) \in Nat
  <1>1. Owners \subseteq 1..Len(members) /\ Len(members) \in Nat
    BY MemberRows DEF Owners
  <1>2. IsFiniteSet(1..Len(members))
    BY <1>1, FS_Interval
  <1> QED
    BY <1>1, <1>2, FS_Subset, FS_CardinalityType

LEMMA OwnersKept ==
  ASSUME StaleOnce, Owned, IsFiniteSet(stale'), stale \subseteq stale', RowsOK,
         Owners' = Owners
  PROVE  Owned'
  <1>1. \A ops : /\ Cardinality(StaleOf(ops)) \in Nat /\ Cardinality(StaleOf(ops)') \in Nat
                 /\ Cardinality(StaleOf(ops)) <= Cardinality(StaleOf(ops)')
    BY StaleGrows
  <1> HIDE DEF StaleOf
  <1>2. Cardinality(Owners) \in Nat /\ Cardinality(Owners)' = Cardinality(Owners)
    BY OwnersFinite
  <1> DEFINE a == Cardinality(StaleOf({"transfer"})) b == Cardinality(StaleOf(Taking))
  <1>3. a \in Nat /\ a' \in Nat /\ a <= a' /\ b \in Nat /\ b' \in Nat /\ b <= b'
    BY <1>1 DEF Taking
  <1>4. Cardinality(Owners) <= 1 + a /\ Cardinality(Owners) >= 1 - b
    BY DEF Owned
  <1> HIDE DEF a, b
  <1>5. Cardinality(Owners) <= 1 + a' /\ Cardinality(Owners) >= 1 - b'
    BY <1>2, <1>3, <1>4
  <1> QED
    BY <1>2, <1>5 DEF Owned, a, b

\* A role changed or a row deleted: an OWNER is lost by a stale write only.
LEMMA OwnerLost ==
  ASSUME RowsOK, RequestsOK, StaleOnce, Owned, NEW r \in Requests, SetRole(r) \/ DeleteRow(r)
  PROVE  Owned'
  <1>1. PICK i : i = req[r].id
    OBVIOUS
  <1>2. /\ Wrote(r, {req[r].on}) /\ Finishes(r) /\ DOMAIN members' = DOMAIN members
        /\ \A j \in DOMAIN members : j # i => members'[j] = members[j]
        /\ members'[i].role # "OWNER"
    BY <1>1, SetRoleRows, DeleteRows DEF Gone
  <1>3. PICK op \in Taking : Writes(r, op)
    BY DEF SetRole, DeleteRow, Taking
  <1>4. /\ op \in MemberOps /\ req[r].op = op /\ At(r, "writing") /\ i \in DOMAIN members
        /\ r \notin overtaken => members[i].role # "OWNER"
    BY <1>1, <1>3, WritingMember DEF Taking, MemberOps, WritesMember
  <1>5. Owners' = Owners \ {i}
    BY <1>2, <1>4 DEF Owners
  <1>6. Others(r) /\ step'[r] = "done"
    BY <1>2, Finished
  <1> DEFINE x == Record(r)
  <1>7. /\ x.r = r /\ x.op = op /\ (r \in overtaken => stale' = stale \cup {x})
        /\ (r \notin overtaken => stale' = stale)
    BY <1>2, <1>4, Recorded
  <1> HIDE DEF x
  <1>8. IsFiniteSet(stale') /\ stale \subseteq stale' /\ x \notin stale
    BY <1>4, <1>6, <1>7, StaleStays DEF At
  <1>9. CASE i \notin Owners
    BY <1>5, <1>8, <1>9, OwnersKept
  <1>10. CASE i \in Owners
    <2>1. stale' = stale \cup {x}
      BY <1>4, <1>7, <1>10 DEF Owners
    <2> DEFINE a == Cardinality(StaleOf({"transfer"})) b == Cardinality(StaleOf(Taking))
               c == Cardinality(Owners)
    <2>2. a \in Nat /\ a' \in Nat /\ a <= a' /\ b \in Nat /\ b' = b + 1
      BY <1>7, <1>8, <2>1, StaleGrows, StaleAdds DEF Taking
    <2>3. c \in Nat /\ c' = c - 1
      BY <1>5, <1>10, OwnersFinite, FS_RemoveElement
    <2>4. c <= 1 + a /\ c >= 1 - b
      BY DEF Owned
    <2> HIDE DEF a, b, c
    <2>5. c' <= 1 + a' /\ c' >= 1 - b'
      <3>1. \A m, n, l, o \in Nat : m <= n /\ l <= 1 + m /\ l >= 1 - o =>
               l - 1 <= 1 + n /\ l - 1 >= 1 - (o + 1)
        OBVIOUS
      <3> QED
        BY <2>2, <2>3, <2>4, <3>1
    <2> QED
      BY <2>5 DEF Owned, a, b, c
  <1> QED
    BY <1>9, <1>10

\* A transfer that is not stale changes the OWNER for another member.
LEMMA OwnerChanged ==
  ASSUME RowsOK, RequestsOK, StaleOnce, Owned, NEW r \in Requests, CommitTransfer(r)
  PROVE  Owned'
  <1>1. PICK i : i = req[r].id
    OBVIOUS
  <1>2. PICK k : k = req[r].row
    OBVIOUS
  <1>3. /\ Wrote(r, {req[r].by, req[r].on}) /\ Finishes(r) /\ DOMAIN members' = DOMAIN members
        /\ \A j \in DOMAIN members : j \notin {k, i} => members'[j] = members[j]
        /\ members'[i].role = "OWNER"
        /\ k # i => members'[k].role = "ADMIN"
    BY <1>1, <1>2, TransferRows
  <1>4. Writes(r, "transfer")
    BY DEF CommitTransfer
  <1>5. /\ WritesMember(req[r]) /\ req[r].op = "transfer" /\ At(r, "writing")
        /\ k \in DOMAIN members
        /\ r \notin overtaken => members[k].role = req[r].as /\ members[i].role # "OWNER"
    BY <1>1, <1>2, <1>4, WritingMember DEF MemberOps
  <1>6. i \in DOMAIN members
    BY <1>1, <1>5 DEF WritesMember
  <1>7. r \notin overtaken => k \in Owners /\ i \notin Owners
    <2>1. req[r].as = "OWNER"
      BY <1>5, TransferIsOwners DEF WritesMember, Fits
    <2> QED
      BY <1>5, <2>1 DEF Owners
  <1>8. Owners' = (Owners \ {k}) \cup {i}
    BY <1>3, <1>5, <1>6 DEF Owners
  <1>9. Others(r) /\ step'[r] = "done"
    BY <1>3, Finished
  <1> DEFINE x == Record(r)
  <1>10. /\ x.r = r /\ x.op = "transfer" /\ (r \in overtaken => stale' = stale \cup {x})
         /\ (r \notin overtaken => stale' = stale)
    BY <1>3, <1>5, Recorded
  <1> HIDE DEF x
  <1>11. IsFiniteSet(stale') /\ stale \subseteq stale' /\ x \notin stale
    BY <1>5, <1>9, <1>10, StaleStays DEF At, MemberOps
  <1> DEFINE a == Cardinality(StaleOf({"transfer"})) b == Cardinality(StaleOf(Taking))
             c == Cardinality(Owners)
  <1>12. /\ a \in Nat /\ a' \in Nat /\ a <= a' /\ b \in Nat /\ b' \in Nat
         /\ r \in overtaken => a' = a + 1
    BY <1>10, <1>11, StaleGrows, StaleAdds
  <1>13. /\ c \in Nat /\ c' \in Nat /\ c' <= c + 1 /\ c' >= 1
         /\ r \notin overtaken => c' <= c
    <2>1. IsFiniteSet(Owners) /\ c \in Nat
      BY OwnersFinite
    <2>2. /\ IsFiniteSet(Owners \ {k})
          /\ Cardinality(Owners \ {k}) = IF k \in Owners THEN c - 1 ELSE c
      BY <2>1, FS_RemoveElement
    <2>3. /\ IsFiniteSet(Owners')
          /\ Cardinality(Owners') = IF i \in Owners \ {k} THEN Cardinality(Owners \ {k})
                                                         ELSE Cardinality(Owners \ {k}) + 1
      BY <1>8, <2>2, FS_AddElement
    <2>4. Cardinality(Owners') \in Nat /\ Cardinality(Owners \ {k}) \in Nat
      BY <2>2, <2>3, FS_CardinalityType
    <2>5. Cardinality(Owners') # 0
      BY <1>8, <2>3, FS_EmptySet
    <2> HIDE DEF c
    <2>6. c' = Cardinality(Owners')
      BY DEF c
    <2> QED
      BY <1>7, <2>1, <2>2, <2>3, <2>4, <2>5, <2>6
  <1>14. c <= 1 + a
    BY DEF Owned
  <1> HIDE DEF a, b, c
  <1>15. c' <= 1 + a' /\ c' >= 1 - b'
    <2>1. \A m, n, l, o \in Nat : l <= 1 + m /\ ((m <= n /\ o <= l) \/ (n = m + 1 /\ o <= l + 1))
                                     => o <= 1 + n
      OBVIOUS
    <2>2. \A o, n \in Nat : o >= 1 => o >= 1 - n
      OBVIOUS
    <2>3. c' <= 1 + a'
      BY <1>12, <1>13, <1>14, <2>1
    <2> QED
      BY <1>12, <1>13, <2>2, <2>3
  <1> QED
    BY <1>15 DEF Owned, a, b, c

-----------------------------------------------------------------------------
(* Who was admitted.                                                       *)

AdmittedFor(i, u) ==
    /\ admitted[i] <= 1 + Cardinality(StaleWrites({"accept"}, u))
    /\ invitations[i].accepted /\ invitations[i].revoked
         => StaleWrites({"accept", "revoke", "invite"}, u) # {}
    /\ admitted[i] > 0 => u \in verified

LEMMA AdmittedMeans ==
  /\ AdmittedOnce <=> \A i \in DOMAIN invitations : \A u :
                         invitations[i].email = u => AdmittedFor(i, u)
  /\ AdmittedOnce' <=> \A i \in DOMAIN invitations' : \A u :
                         invitations'[i].email = u => AdmittedFor(i, u)'
  BY DEF AdmittedOnce, AdmittedFor, StaleWrites

LEMMA AdmittedForKept ==
  ASSUME RowsOK, StaleOnce, IsFiniteSet(stale'), stale \subseteq stale', verified \subseteq verified',
         NEW i \in DOMAIN invitations, NEW u, AdmittedFor(i, u), admitted'[i] = admitted[i],
         invitations'[i].accepted /\ invitations'[i].revoked =>
            \/ invitations[i].accepted /\ invitations[i].revoked
            \/ StaleWrites({"accept", "revoke", "invite"}, u)' # {}
  PROVE  AdmittedFor(i, u)'
  <1>1. \A ops : /\ StaleWrites(ops, u) \subseteq StaleWrites(ops, u)'
                 /\ Cardinality(StaleWrites(ops, u)) \in Nat
                 /\ Cardinality(StaleWrites(ops, u)') \in Nat
                 /\ Cardinality(StaleWrites(ops, u)) <= Cardinality(StaleWrites(ops, u)')
    BY StaleGrows
  <1>2. admitted[i] \in Nat
    BY InvitationRows
  <1>3. admitted'[i] <= 1 + Cardinality(StaleWrites({"accept"}, u)')
    BY <1>1, <1>2 DEF AdmittedFor
  <1>4. invitations'[i].accepted /\ invitations'[i].revoked
          => StaleWrites({"accept", "revoke", "invite"}, u)' # {}
    BY <1>1 DEF AdmittedFor
  <1>5. admitted'[i] > 0 => u \in verified'
    BY DEF AdmittedFor
  <1> QED
    BY <1>3, <1>4, <1>5 DEF AdmittedFor

LEMMA AdmittedKept ==
  ASSUME RowsOK, StaleOnce, IsFiniteSet(stale'), stale \subseteq stale', verified \subseteq verified',
         AdmittedOnce, UNCHANGED admitted, DOMAIN invitations' = DOMAIN invitations,
         \A j \in DOMAIN invitations : /\ invitations'[j].email = invitations[j].email
                                       /\ invitations'[j].accepted = invitations[j].accepted
                                       /\ invitations'[j].revoked = invitations[j].revoked
  PROVE  AdmittedOnce'
  <1>1. ASSUME NEW i \in DOMAIN invitations', NEW u, invitations'[i].email = u
        PROVE  AdmittedFor(i, u)'
    <2>1. i \in DOMAIN invitations /\ AdmittedFor(i, u)
      BY <1>1, AdmittedMeans
    <2>2. admitted'[i] = admitted[i]
      OBVIOUS
    <2> QED
      BY <2>1, <2>2, AdmittedForKept
  <1> QED
    BY <1>1, AdmittedMeans

\* A pending invitation that is revoked has let nobody in.
LEMMA AdmittedRevoking ==
  ASSUME RowsOK, RequestsOK, StaleOnce, AdmittedOnce, NEW r \in Requests, ~At(r, "done"), Others(r),
         NEW i \in DOMAIN invitations, invitations' = Revoked(i),
         Wrote(r, {invitations[i].email}), Subject(r) = invitations[i].email,
         req[r].op \in {"revoke", "invite"}, r \notin overtaken => Pending(i),
         UNCHANGED <<organization, members, keys, verified, mailed, faults, admitted>>
  PROVE  AdmittedOnce' /\ StaleOnce' /\ stale \subseteq stale' /\ IsFiniteSet(stale')
  <1>1. UNCHANGED orphaned
    BY Recorded
  <1>2. RowsMarked(i) /\ invitations'[i].accepted = invitations[i].accepted
    BY <1>1, RevokeRows
  <1> DEFINE x == Record(r)
  <1>3. /\ x.op = req[r].op /\ x.on = invitations[i].email
        /\ r \in overtaken => stale' = stale \cup {x}
        /\ r \notin overtaken => stale' = stale
    BY Recorded
  <1>4. x.op \notin MemberOps \cup {"accept"}
    BY <1>3 DEF MemberOps
  <1> HIDE DEF x
  <1>5. StaleOnce' /\ stale \subseteq stale' /\ IsFiniteSet(stale')
    BY <1>3, <1>4, StaleStays
  <1>6. ASSUME NEW j \in DOMAIN invitations', NEW u, invitations'[j].email = u
        PROVE  AdmittedFor(j, u)'
    <2>1. j \in DOMAIN invitations /\ invitations[j].email = u /\ AdmittedFor(j, u)
      BY <1>2, <1>6, AdmittedMeans DEF RowsMarked
    <2>2. admitted'[j] = admitted[j]
      OBVIOUS
    <2>3. invitations'[j].accepted /\ invitations'[j].revoked =>
            \/ invitations[j].accepted /\ invitations[j].revoked
            \/ StaleWrites({"accept", "revoke", "invite"}, u)' # {}
      <3>1. CASE j # i
        BY <1>2, <2>1, <3>1 DEF RowsMarked
      <3>2. CASE j = i /\ r \notin overtaken
        BY <1>2, <3>2 DEF Pending
      <3>3. CASE j = i /\ r \in overtaken
        BY <1>3, <2>1, <3>3 DEF StaleWrites
      <3> QED
        BY <3>1, <3>2, <3>3
    <2> QED
      BY <1>5, <2>1, <2>2, <2>3, AdmittedForKept
  <1> QED
    BY <1>5, <1>6, AdmittedMeans

LEMMA AdmittedJoining ==
  ASSUME RowsOK, RequestsOK, StaleOnce, AdmittedOnce, NEW r \in Requests, Join(r)
  PROVE  AdmittedOnce' /\ StaleOnce' /\ stale \subseteq stale' /\ IsFiniteSet(stale')
         /\ \A u : u = req[r].by /\ r \in overtaken => StaleWrites({"accept", "invite"}, u)' # {}
  <1>1. PICK i : i = req[r].id
    OBVIOUS
  <1>2. PICK w : w = req[r].by
    OBVIOUS
  <1>3. /\ i \in DOMAIN invitations /\ w = invitations[i].email
        /\ Subject(r) = w /\ Wrote(r, {w}) /\ Finishes(r)
        /\ r \notin overtaken => Pending(i)
        /\ req[r].op = "accept" /\ At(r, "writing")
        /\ RowsMarked(i) /\ invitations'[i].revoked = invitations[i].revoked
        /\ invitations'[i].accepted
        /\ admitted'[i] = admitted[i] + 1
        /\ \A j \in DOMAIN invitations : j # i => admitted'[j] = admitted[j]
        /\ verified' = verified \cup {w}
    BY <1>1, <1>2, Joining
  <1> PICK x : x = Record(r)
    OBVIOUS
  <1>4. /\ x.r = r /\ x.op = "accept" /\ x.on = w
        /\ r \in overtaken => stale' = stale \cup {x}
        /\ r \notin overtaken => stale' = stale
    BY <1>3, Recorded
  <1>5. Others(r) /\ step'[r] = "done" /\ ~At(r, "done")
    BY <1>3, Finished DEF At
  <1>6. StaleOnce' /\ stale \subseteq stale' /\ IsFiniteSet(stale') /\ x \notin stale
    BY <1>4, <1>5, StaleStays
  <1>7. verified \subseteq verified'
    BY <1>3
  <1>8. ASSUME NEW j \in DOMAIN invitations', NEW u, invitations'[j].email = u
        PROVE  AdmittedFor(j, u)'
    <2>1. j \in DOMAIN invitations /\ invitations[j].email = u /\ AdmittedFor(j, u)
      BY <1>3, <1>8, AdmittedMeans DEF RowsMarked
    <2>2. CASE j # i
      <3>1. admitted'[j] = admitted[j] /\ invitations'[j] = invitations[j]
        BY <1>3, <2>1, <2>2 DEF RowsMarked
      <3> QED
        BY <1>6, <1>7, <2>1, <3>1, AdmittedForKept
    <2>3. CASE j = i
      <3>1. u = w /\ u \in verified' /\ admitted[i] \in Nat
        BY <1>3, <2>1, <2>3, InvitationRows
      <3>2. admitted'[i] <= 1 + Cardinality(StaleWrites({"accept"}, u)')
        <4>1. Cardinality(StaleWrites({"accept"}, u)) \in Nat
              /\ Cardinality(StaleWrites({"accept"}, u)') \in Nat
          BY <1>6, StaleGrows
        <4>2. CASE r \in overtaken
          <5>1. Cardinality(StaleWrites({"accept"}, x.on)')
                  = Cardinality(StaleWrites({"accept"}, x.on)) + 1
            BY <1>4, <1>6, <4>2, StaleAdds
          <5>2. StaleWrites({"accept"}, x.on) = StaleWrites({"accept"}, u)
                /\ StaleWrites({"accept"}, x.on)' = StaleWrites({"accept"}, u)'
            BY <1>4, <3>1
          <5>3. admitted[i] <= 1 + Cardinality(StaleWrites({"accept"}, u))
            BY <2>1, <2>3 DEF AdmittedFor
          <5> QED
            BY <1>3, <3>1, <4>1, <5>1, <5>2, <5>3
        <4>3. CASE r \notin overtaken
          <5>1. admitted[i] = 0
            BY <1>3, <4>3 DEF Pending, RowsOK, InvitationsOK
          <5> QED
            BY <1>3, <4>1, <5>1
        <4> QED
          BY <4>2, <4>3
      <3>3. invitations'[i].revoked => StaleWrites({"accept", "revoke", "invite"}, u)' # {}
        <4>1. CASE r \in overtaken
          BY <1>4, <3>1, <4>1 DEF StaleWrites
        <4>2. CASE r \notin overtaken
          BY <1>3, <4>2 DEF Pending
        <4> QED
          BY <4>1, <4>2
      <3> QED
        BY <2>3, <3>1, <3>2, <3>3 DEF AdmittedFor
    <2> QED
      BY <2>2, <2>3
  <1>9. r \in overtaken => StaleWrites({"accept", "invite"}, w)' # {}
    BY <1>4 DEF StaleWrites
  <1> QED
    BY <1>2, <1>6, <1>8, <1>9, AdmittedMeans

LEMMA AdmittedInserting ==
  ASSUME RowsOK, RequestsOK, StaleOnce, AdmittedOnce, NEW r \in Requests, At(r, "inserting"),
         Inserts(r), Others(r)
  PROVE  AdmittedOnce' /\ StaleOnce' /\ stale \subseteq stale' /\ IsFiniteSet(stale')
         /\ \A u : u = req[r].on /\ r \in overtaken => StaleWrites({"accept", "invite"}, u)' # {}
  <1>1. PICK n : n = Len(invitations) + 1
    OBVIOUS
  <1>2. /\ DOMAIN invitations' = DOMAIN invitations \cup {n}
        /\ \A i \in DOMAIN invitations :
              invitations'[i] = invitations[i] /\ admitted'[i] = admitted[i]
        /\ admitted'[n] = 0 /\ ~invitations'[n].accepted
    BY <1>1, InsertedRows
  <1>3. req[r].op = "invite" /\ Subject(r) = req[r].on
    BY InvitingFits DEF At, Inviting
  <1> PICK x : x = Record(r)
    OBVIOUS
  <1>4. /\ x.op = "invite" /\ x.on = req[r].on
        /\ r \in overtaken => stale' = stale \cup {x}
        /\ r \notin overtaken => stale' = stale
    BY <1>3, Recorded DEF Inserts
  <1>5. x.op \notin MemberOps \cup {"accept"} /\ ~At(r, "done")
    BY <1>4 DEF MemberOps, At
  <1>6. StaleOnce' /\ stale \subseteq stale' /\ IsFiniteSet(stale')
    BY <1>4, <1>5, StaleStays
  <1>7. ASSUME NEW i \in DOMAIN invitations', NEW u, invitations'[i].email = u
        PROVE  AdmittedFor(i, u)'
    <2>1. CASE i \in DOMAIN invitations
      <3>1. AdmittedFor(i, u)
        BY <1>2, <1>7, <2>1, AdmittedMeans
      <3>2. verified' = verified
        BY DEF Inserts
      <3> QED
        BY <1>2, <1>6, <2>1, <3>1, <3>2, AdmittedForKept
    <2>2. CASE i = n
      <3>1. Cardinality(StaleWrites({"accept"}, u)') \in Nat
        BY <1>6, StaleGrows
      <3> QED
        BY <1>2, <2>2, <3>1 DEF AdmittedFor
    <2> QED
      BY <1>2, <2>1, <2>2
  <1>8. \A u : u = req[r].on /\ r \in overtaken => StaleWrites({"accept", "invite"}, u)' # {}
    BY <1>4 DEF StaleWrites
  <1> QED
    BY <1>6, <1>7, <1>8, AdmittedMeans

-----------------------------------------------------------------------------
(* Invitations that wait.                                                  *)

\* Nobody invited is a member, and each invitation is mailed or its request at it.
Uninvited(u) == IsMember(u) => StaleWrites({"accept", "invite"}, u) # {}
Posted(i) == i \in mailed \/ faults > 0 \/ \E r \in Requests : At(r, "mailing") /\ req[r].id = i

LEMMA PendingMeans ==
  /\ PendingInvitations <=> \A i \in DOMAIN invitations : \A u :
        invitations[i].email = u /\ Pending(i) => Uninvited(u) /\ Posted(i)
  /\ PendingInvitations' <=> \A i \in DOMAIN invitations' : \A u :
        invitations'[i].email = u /\ Pending(i)' => Uninvited(u)' /\ Posted(i)'
  <1>1. PendingInvitations <=> \A i \in DOMAIN invitations : \A u :
          invitations[i].email = u /\ Pending(i) => Uninvited(u) /\ Posted(i)
    BY DEF PendingInvitations, Uninvited, Posted, StaleWrites, IsMember, RowsOf
  <1>2. PendingInvitations' <=> \A i \in DOMAIN invitations' : \A u :
          invitations'[i].email = u /\ Pending(i)' => Uninvited(u)' /\ Posted(i)'
    BY DEF PendingInvitations, Uninvited, Posted, StaleWrites, IsMember, RowsOf
  <1> QED
    BY <1>1, <1>2

LEMMA UninvitedKept ==
  ASSUME StaleOnce, IsFiniteSet(stale'), stale \subseteq stale', NEW u, Uninvited(u),
         IsMember(u)' => IsMember(u) \/ StaleWrites({"accept", "invite"}, u)' # {}
  PROVE  Uninvited(u)'
  <1>1. StaleWrites({"accept", "invite"}, u) \subseteq StaleWrites({"accept", "invite"}, u)'
    BY StaleGrows
  <1> QED
    BY <1>1 DEF Uninvited

LEMMA PostedKept ==
  ASSUME RowsOK, NEW r \in Requests, Others(r), mailed \subseteq mailed', NEW i, Posted(i),
         faults' \in {faults, faults + 1},
         At(r, "mailing") => mailed' = mailed \cup {req[r].id} \/ faults' = faults + 1
  PROVE  Posted(i)'
  <1>1. faults \in Nat
    BY OrganizationConstants DEF RowsOK
  <1>2. CASE i \in mailed
    BY <1>2 DEF Posted
  <1>3. CASE faults > 0
    <2>1. faults' > 0
      BY <1>1, <1>3
    <2> QED
      BY <2>1 DEF Posted
  <1>4. ASSUME NEW q \in Requests, At(q, "mailing"), req[q].id = i
        PROVE  Posted(i)'
    <2>1. CASE q # r
      BY <1>4, <2>1 DEF Others, Posted, At
    <2>2. CASE q = r /\ mailed' = mailed \cup {req[r].id}
      BY <1>4, <2>2 DEF Posted
    <2>3. CASE faults' = faults + 1
      <3>1. faults' > 0
        BY <1>1, <2>3
      <3> QED
        BY <3>1 DEF Posted
    <2> QED
      BY <1>4, <2>1, <2>2, <2>3
  <1> QED
    BY <1>2, <1>3, <1>4 DEF Posted

LEMMA PendingKept ==
  ASSUME RowsOK, StaleOnce, IsFiniteSet(stale'), stale \subseteq stale', PendingInvitations,
         DOMAIN invitations' = DOMAIN invitations,
         \A j \in DOMAIN invitations : /\ invitations'[j].email = invitations[j].email
                                       /\ Pending(j)' => Pending(j) /\ (Posted(j) => Posted(j)'),
         \A j \in DOMAIN invitations : \A u : invitations[j].email = u /\ Pending(j)' /\ IsMember(u)' =>
            IsMember(u) \/ StaleWrites({"accept", "invite"}, u)' # {}
  PROVE  PendingInvitations'
  <1>1. ASSUME NEW i \in DOMAIN invitations', NEW u, invitations'[i].email = u, Pending(i)'
        PROVE  Uninvited(u)' /\ Posted(i)'
    <2>1. i \in DOMAIN invitations /\ invitations[i].email = u /\ Pending(i)
          /\ (Posted(i) => Posted(i)')
      BY <1>1
    <2>2. Uninvited(u) /\ Posted(i)
      BY <2>1, PendingMeans
    <2>3. IsMember(u)' => IsMember(u) \/ StaleWrites({"accept", "invite"}, u)' # {}
      BY <1>1, <2>1
    <2> QED
      BY <2>1, <2>2, <2>3, UninvitedKept
  <1> QED
    BY <1>1, PendingMeans

LEMMA PendingInserting ==
  ASSUME RowsOK, RequestsOK, StaleOnce, AdmittedOnce, PendingInvitations, NEW r \in Requests,
         At(r, "inserting"), Inserts(r)
  PROVE  PendingInvitations'
  <1>1. PICK n : n = Len(invitations) + 1
    OBVIOUS
  <1>2. PICK w : w = req[r].on
    OBVIOUS
  <1>3. /\ DOMAIN invitations' = DOMAIN invitations \cup {n} /\ n \in Nat
        /\ \A i \in DOMAIN invitations : invitations'[i] = invitations[i]
        /\ invitations'[n].email = w
    BY <1>1, <1>2, InsertedRows
  <1>4. r \notin overtaken => ~IsMember(w)
    BY <1>2, InvitingFits DEF At, Inviting
  <1>5. req[r] \in Asked
    BY InvitingFits DEF At, Inviting
  <1>6. Others(r) /\ step'[r] = "mailing" /\ req'[r].id = n
    <2>1. PICK q : q = [req[r] EXCEPT !.id = n]
      OBVIOUS
    <2>2. q \in Asked /\ q.id = n
      BY <1>3, <1>5, <2>1, WithId
    <2>3. Goes(r, "mailing", q)
      BY <1>1, <2>1 DEF Inserts
    <2> QED
      BY <2>2, <2>3, GoesTo DEF Forms, Steps
  <1>7. /\ stale \subseteq stale' /\ IsFiniteSet(stale')
        /\ r \in overtaken => StaleWrites({"accept", "invite"}, w)' # {}
    BY <1>2, <1>6, AdmittedInserting
  <1>8. UNCHANGED <<members, mailed, faults>>
    BY DEF Inserts
  <1>9. \A u : IsMember(u)' <=> IsMember(u)
    BY <1>8 DEF IsMember, RowsOf
  <1>10. ASSUME NEW i \in DOMAIN invitations', NEW u, invitations'[i].email = u, Pending(i)'
         PROVE  Uninvited(u)' /\ Posted(i)'
    <2>1. CASE i \in DOMAIN invitations
      <3>1. invitations[i].email = u /\ Pending(i)
        BY <1>3, <1>10, <2>1 DEF Pending
      <3>2. Uninvited(u) /\ Posted(i)
        BY <2>1, <3>1, PendingMeans
      <3>3. Posted(i)'
        BY <1>6, <1>8, <3>2, PostedKept DEF At
      <3> QED
        BY <1>7, <1>9, <3>2, <3>3, UninvitedKept
    <2>2. CASE i = n
      <3>1. u = w
        BY <1>3, <1>10, <2>2
      <3>2. Uninvited(u)'
        BY <1>4, <1>5, <1>7, <1>9, <3>1 DEF Uninvited
      <3>3. Posted(i)'
        BY <1>6, <2>2 DEF Posted, At
      <3> QED
        BY <3>2, <3>3
    <2> QED
      BY <1>3, <2>1, <2>2
  <1> QED
    BY <1>10, PendingMeans

-----------------------------------------------------------------------------
(* All of it, for each kind of step.                                       *)

Safe == StaleOnce /\ SoleOwner /\ AdmittedOnce /\ PendingInvitations

\* The members stay, the invitations at most expire, and nothing stale is written.
Quiet ==
    /\ UNCHANGED <<members, verified, stale, admitted>>
    /\ DOMAIN invitations' = DOMAIN invitations
    /\ \A j \in DOMAIN invitations : /\ invitations'[j].email = invitations[j].email
                                     /\ invitations'[j].accepted = invitations[j].accepted
                                     /\ invitations'[j].revoked = invitations[j].revoked

LEMMA QuietSafe ==
  ASSUME RowsOK, Safe, Quiet, Unowned' \/ ~Unowned,
         \A q \in Requests : At(q, "done") => step'[q] = "done",
         \A j \in DOMAIN invitations : Posted(j) => Posted(j)'
  PROVE  Safe'
  <1>1. StaleOnce'
    BY DEF Safe, Quiet, StaleOnce, At
  <1>2. IsFiniteSet(stale') /\ stale \subseteq stale'
    BY DEF Safe, Quiet, StaleOnce
  <1>3. SoleOwner'
    <2>1. Owners' = Owners
      BY DEF Quiet, Owners
    <2>2. ~Unowned => Owned'
      BY <1>2, <2>1, OwnersKept, OwnedIsSole DEF Safe
    <2> QED
      BY <2>2, OwnedIsSole
  <1>4. AdmittedOnce'
    <2>1. /\ StaleOnce /\ AdmittedOnce /\ UNCHANGED admitted /\ verified \subseteq verified'
          /\ DOMAIN invitations' = DOMAIN invitations
          /\ \A j \in DOMAIN invitations : /\ invitations'[j].email = invitations[j].email
                                           /\ invitations'[j].accepted = invitations[j].accepted
                                           /\ invitations'[j].revoked = invitations[j].revoked
      BY DEF Safe, Quiet
    <2> QED
      BY <1>2, <2>1, AdmittedKept
  <1>5. PendingInvitations'
    <2>1. \A j \in DOMAIN invitations :
             /\ invitations'[j].email = invitations[j].email
             /\ Pending(j)' => Pending(j)
      BY DEF Quiet, Pending
    <2>2. \A u : IsMember(u)' => IsMember(u)
      BY DEF Quiet, IsMember, RowsOf
    <2>3. StaleOnce /\ PendingInvitations /\ DOMAIN invitations' = DOMAIN invitations
      BY DEF Safe, Quiet
    <2> QED
      BY <1>2, <2>1, <2>2, <2>3, PendingKept
  <1> QED
    BY <1>1, <1>3, <1>4, <1>5 DEF Safe

LEMMA DoneStays ==
  ASSUME NEW r \in Requests, Others(r), ~At(r, "done"), RequestsOK, step' \in [Requests -> Steps]
  PROVE  \A q \in Requests : At(q, "done") => step'[q] = "done"
  BY DEF Others, At

LEMMA QuietWorks ==
  ASSUME RowsOK, RequestsOK, FoundedOnce, Safe, NEW r \in Requests,
         \/ Looks(r) \/ Ends(r) \/ KeyWrites(r)
         \/ Works(r) /\ Still /\ ~At(r, "mailing")
  PROVE  Safe'
  <1>1. Works(r)
    BY DEF Works
  <1>2. /\ UNCHANGED <<members, verified, stale, admitted, invitations>>
        /\ mailed \subseteq mailed' /\ faults' \in {faults, faults + 1}
        /\ At(r, "mailing") => mailed' = mailed \cup {req[r].id} \/ faults' = faults + 1
    <2>1. CASE Looks(r)
      <3>1. Still
        BY <2>1, LookingOK
      <3>2. ~At(r, "mailing")
        BY <2>1 DEF Looks, Arrive, UpdateRole, Remove, Leave, TransferOwnership, CheckInvitee,
                    FindPending, FindToRevoke, FindKey, Accept, Reads, At
      <3> QED
        BY <3>1, <3>2 DEF Still, rows, history
    <2>2. CASE Ends(r)
      BY <2>2, Ending
    <2>3. CASE KeyWrites(r)
      BY <2>3 DEF KeyWrites, CreateKey, RevokeKey, history, Reads, Writes, At
    <2>4. CASE Still /\ ~At(r, "mailing")
      BY <2>4 DEF Still, rows, history
    <2> QED
      BY <2>1, <2>2, <2>3, <2>4
  <1>3. Others(r) /\ ~At(r, "done") /\ step' \in [Requests -> Steps]
    BY <1>1, WorkMoves
  <1>4. Unowned' \/ ~Unowned
    <2>1. CASE Unowned
      <3>1. Ends(r) /\ At(r, "owning")
        BY <1>1, <2>1, NothingBefore DEF Ends
      <3>2. orphaned'
        BY <3>1, Ending
      <3> QED
        BY <3>2 DEF Unowned
    <2> QED
      BY <2>1
  <1>5. Quiet
    BY <1>2 DEF Quiet
  <1>6. \A j \in DOMAIN invitations : Posted(j) => Posted(j)'
    BY <1>2, <1>3, PostedKept
  <1>7. \A q \in Requests : At(q, "done") => step'[q] = "done"
    BY <1>3, DoneStays
  <1> QED
    BY <1>4, <1>5, <1>6, <1>7, QuietSafe

LEMMA MemberWritesSafe ==
  ASSUME RowsOK, RequestsOK, FoundedOnce, Safe, NEW r \in Requests, MemberWrites(r)
  PROVE  Safe'
  <1>1. /\ StaleOnce /\ SoleOwner /\ AdmittedOnce /\ PendingInvitations
        /\ UNCHANGED <<invitations, verified, mailed, faults, admitted>>
    BY DEF Safe, MemberWrites, SetRole, DeleteRow, CommitTransfer
  <1>2. Works(r)
    BY DEF Works
  <1>3. ~Unowned
    BY <1>2, NothingBefore DEF MemberWrites, SetRole, DeleteRow, CommitTransfer, Writes, At
  <1>4. Owned
    BY <1>1, <1>3, OwnedIsSole
  <1>5. Owned'
    BY <1>1, <1>4, OwnerLost, OwnerChanged DEF MemberWrites
  <1>6. At(r, "writing") /\ \E W : Wrote(r, W)
    BY DEF MemberWrites, SetRole, DeleteRow, CommitTransfer, Writes
  <1>7. Others(r) /\ step'[r] = "done" /\ ~At(r, "done")
    <2>1. Finishes(r)
      BY SetRoleRows, DeleteRows, TransferRows DEF MemberWrites
    <2> QED
      BY <1>6, <2>1, Finished DEF At
  <1>8. StaleOnce' /\ stale \subseteq stale' /\ IsFiniteSet(stale')
    <2> PICK x : x = Record(r)
      OBVIOUS
    <2>1. x.r = r /\ stale' \in {stale, stale \cup {x}}
      BY <1>6, Recorded
    <2> QED
      BY <1>1, <1>7, <2>1, StaleStays
  <1>9. AdmittedOnce'
    BY <1>1, <1>8, AdmittedKept
  <1>10. \A u : IsMember(u)' => IsMember(u)
    <2>1. /\ DOMAIN members' = DOMAIN members
          /\ \A j \in DOMAIN members : /\ members'[j].user = members[j].user
                                       /\ members'[j].role # Gone => members[j].role # Gone
      <3>1. CASE SetRole(r)
        BY <3>1, SetRoleRows
      <3>2. CASE DeleteRow(r)
        BY <3>2, DeleteRows
      <3>3. CASE CommitTransfer(r)
        BY <3>3, TransferRows
      <3> QED
        BY <3>1, <3>2, <3>3 DEF MemberWrites
    <2> QED
      BY <2>1 DEF IsMember, RowsOf
  <1>11. \A j \in DOMAIN invitations : (Pending(j)' => Pending(j)) /\ (Posted(j) => Posted(j)')
    <2>1. \A j : Posted(j) => Posted(j)'
      BY <1>1, <1>6, <1>7, PostedKept DEF At
    <2> QED
      BY <1>1, <2>1 DEF Pending
  <1>12. PendingInvitations'
    BY <1>1, <1>8, <1>10, <1>11, PendingKept
  <1> QED
    BY <1>5, <1>8, <1>9, <1>12, OwnedIsSole DEF Safe

\* An invitation is revoked or retired.
LEMMA RevokesSafe ==
  ASSUME RowsOK, RequestsOK, FoundedOnce, Safe, NEW r \in Requests,
         Retire(r) \/ RevokeInvitation(r)
  PROVE  Safe'
  <1>1. StaleOnce /\ SoleOwner /\ AdmittedOnce /\ PendingInvitations
    BY DEF Safe
  <1>2. PICK i \in DOMAIN invitations :
          /\ invitations' = Revoked(i) /\ Wrote(r, {invitations[i].email})
          /\ Subject(r) = invitations[i].email /\ req[r].op \in {"revoke", "invite"}
          /\ r \notin overtaken => Pending(i)
          /\ UNCHANGED <<organization, members, keys, verified, mailed, faults, admitted, orphaned>>
    <2>1. CASE Retire(r)
      <3>1. step[r] = "retiring" /\ step[r] \in Inviting
        BY <2>1 DEF Retire, At, Inviting
      <3>2. /\ req[r].id \in DOMAIN invitations /\ invitations[req[r].id].email = req[r].on
            /\ Subject(r) = req[r].on /\ req[r].op = "invite"
            /\ r \notin overtaken => Pending(req[r].id)
        BY <3>1, InvitingFits
      <3>3. /\ invitations' = Revoked(req[r].id) /\ Wrote(r, {req[r].on}) /\ orphaned' = orphaned
            /\ UNCHANGED <<organization, members, keys, verified, mailed, faults, admitted>>
        BY <2>1 DEF Retire, Wrote
      <3> QED
        BY <3>2, <3>3
    <2>2. CASE RevokeInvitation(r)
      BY <2>2, Revoking
    <2> QED
      BY <2>1, <2>2
  <1>3. Works(r)
    BY DEF Works, InvitationWrites
  <1>4. Others(r) /\ ~At(r, "done")
    BY <1>3, WorkMoves
  <1>5. AdmittedOnce' /\ StaleOnce' /\ stale \subseteq stale' /\ IsFiniteSet(stale')
    BY <1>1, <1>2, <1>4, AdmittedRevoking
  <1>6. RowsMarked(i) /\ \A j \in DOMAIN invitations : Pending(j)' => Pending(j)
    BY <1>2, RevokeRows
  <1>7. \A j \in DOMAIN invitations : Posted(j) => Posted(j)'
    <2>1. ~At(r, "mailing")
      BY DEF Retire, RevokeInvitation, Writes, At
    <2> QED
      BY <1>2, <1>4, <2>1, PostedKept
  <1>8. \A u : IsMember(u)' => IsMember(u)
    BY <1>2 DEF IsMember, RowsOf
  <1>9. PendingInvitations'
    BY <1>1, <1>5, <1>6, <1>7, <1>8, PendingKept DEF RowsMarked
  <1>10. ~Unowned
    BY <1>3, NothingBefore DEF Retire, RevokeInvitation, Writes, At
  <1>11. Owned'
    <2>1. Owned /\ Owners' = Owners
      BY <1>1, <1>2, <1>10, OwnedIsSole DEF Owners
    <2> QED
      BY <1>1, <1>5, <2>1, OwnersKept
  <1> QED
    BY <1>5, <1>9, <1>11, OwnedIsSole DEF Safe

LEMMA InsertSafe ==
  ASSUME RowsOK, RequestsOK, FoundedOnce, Safe, NEW r \in Requests, InsertInvitation(r)
  PROVE  Safe'
  <1>1. StaleOnce /\ SoleOwner /\ AdmittedOnce /\ PendingInvitations
    BY DEF Safe
  <1>2. Works(r) /\ At(r, "inserting")
    BY DEF Works, InvitationWrites, InsertInvitation
  <1>3. Others(r)
    BY <1>2, WorkMoves
  <1>4. CASE PendingFor(req[r].on) # {}
    <2>1. Still /\ ~At(r, "mailing")
      BY <1>4 DEF InsertInvitation, Still, At
    <2> QED
      BY <1>2, <2>1, QuietWorks
  <1>5. CASE PendingFor(req[r].on) = {}
    <2>1. Inserts(r)
      BY <1>5 DEF InsertInvitation, Inserts
    <2>2. AdmittedOnce' /\ StaleOnce' /\ stale \subseteq stale' /\ IsFiniteSet(stale')
      BY <1>1, <1>2, <1>3, <2>1, AdmittedInserting
    <2>3. PendingInvitations'
      BY <1>1, <1>2, <2>1, PendingInserting
    <2>4. ~Unowned
      BY <1>2, NothingBefore DEF At
    <2>5. Owned'
      <3>1. Owned /\ Owners' = Owners
        BY <1>1, <2>1, <2>4, OwnedIsSole DEF Owners, Inserts
      <3> QED
        BY <1>1, <2>2, <3>1, OwnersKept
    <2> QED
      BY <2>2, <2>3, <2>5, OwnedIsSole DEF Safe
  <1> QED
    BY <1>4, <1>5

LEMMA JoinSafe ==
  ASSUME RowsOK, RequestsOK, FoundedOnce, Safe, NEW r \in Requests, Join(r)
  PROVE  Safe'
  <1>1. StaleOnce /\ SoleOwner /\ AdmittedOnce /\ PendingInvitations
    BY DEF Safe
  <1>2. PICK i : i = req[r].id
    OBVIOUS
  <1>3. PICK w : w = req[r].by
    OBVIOUS
  <1>4. PICK n : n = Len(members) + 1
    OBVIOUS
  <1>5. /\ i \in DOMAIN invitations /\ w = invitations[i].email
        /\ r \notin overtaken => Pending(i)
        /\ At(r, "writing")
        /\ RowsMarked(i) /\ invitations'[i].accepted
        /\ DOMAIN members' = DOMAIN members \cup {n} /\ n \notin DOMAIN members
        /\ \A j \in DOMAIN members : members'[j] = members[j]
        /\ members'[n].user = w /\ members'[n].role \in Roles \ {"OWNER"}
        /\ UNCHANGED <<organization, keys, mailed, faults, orphaned>>
    BY <1>2, <1>3, <1>4, Joining
  <1>6. Works(r)
    BY DEF Works, InvitationWrites
  <1>7. Others(r)
    BY <1>6, WorkMoves
  <1>8. /\ AdmittedOnce' /\ StaleOnce' /\ stale \subseteq stale' /\ IsFiniteSet(stale')
        /\ r \in overtaken => StaleWrites({"accept", "invite"}, w)' # {}
    BY <1>1, <1>3, AdmittedJoining
  <1>9. ~Pending(i)'
    BY <1>5 DEF Pending
  <1>10. \A j \in DOMAIN invitations : (Pending(j)' => Pending(j)) /\ (j = i => ~Pending(j)')
    BY <1>5, <1>9, Marking
  <1>11. \A j \in DOMAIN invitations : Posted(j) => Posted(j)'
    BY <1>5, <1>7, PostedKept DEF At
  <1>12. ASSUME NEW j \in DOMAIN invitations, NEW u, invitations[j].email = u, Pending(j)',
                IsMember(u)'
         PROVE  IsMember(u) \/ StaleWrites({"accept", "invite"}, u)' # {}
    <2>1. CASE u # w
      BY <1>5, <1>12, <2>1 DEF IsMember, RowsOf
    <2>2. CASE u = w /\ r \in overtaken
      BY <1>8, <2>2
    <2>3. CASE u = w /\ r \notin overtaken
      BY <1>5, <1>10, <1>12, <2>3 DEF RowsOK, InvitationsOK, OnePendingEach
    <2> QED
      BY <2>1, <2>2, <2>3
  <1>13. PendingInvitations'
    BY <1>1, <1>5, <1>8, <1>10, <1>11, <1>12, PendingKept DEF RowsMarked
  <1>14. ~Unowned
    BY <1>5, <1>6, NothingBefore DEF At
  <1>15. Owned'
    <2>1. Owned
      BY <1>1, <1>14, OwnedIsSole
    <2>2. Owners' = Owners
      BY <1>5 DEF Owners
    <2> QED
      BY <1>1, <1>8, <2>1, <2>2, OwnersKept
  <1> QED
    BY <1>8, <1>13, <1>15, OwnedIsSole DEF Safe

LEMMA FoundingSafe ==
  ASSUME RowsOK, RequestsOK, FoundedOnce, Safe, NEW r \in Requests,
         CreateOrganization(r) \/ AddOwner(r)
  PROVE  Safe'
  <1>1. CASE CreateOrganization(r)
    <2>1. /\ step[r] = "new" /\ organization = "none" /\ Goes(r, "owning", Founding)
          /\ UNCHANGED <<members, invitations, verified, mailed, faults, stale, admitted>>
      BY <1>1 DEF CreateOrganization, Founding, history, At
    <2>2. Others(r) /\ step'[r] = "owning" /\ step' \in [Requests -> Steps]
      BY <2>1, GoesTo DEF Forms, Steps, Typed
    <2>3. Quiet /\ Unowned'
      BY <2>1, <2>2 DEF Quiet, Unowned, At
    <2>4. \A j \in DOMAIN invitations : Posted(j) => Posted(j)'
      BY <2>1, <2>2, PostedKept DEF At
    <2>5. \A q \in Requests : At(q, "done") => step'[q] = "done"
      BY <2>1, <2>2, DoneStays DEF At
    <2> QED
      BY <2>3, <2>4, <2>5, QuietSafe
  <1>2. CASE AddOwner(r)
    <2>1. /\ DOMAIN members' = {1} /\ members'[1].role = "OWNER" /\ Finishes(r)
          /\ invitations' = <<>> /\ At(r, "owning")
      BY <1>2, OwnerRows DEF AddOwner
    <2>2. UNCHANGED <<stale, admitted>>
      BY <1>2 DEF AddOwner, history
    <2>3. Others(r) /\ step'[r] = "done" /\ ~At(r, "done") /\ step' \in [Requests -> Steps]
      BY <2>1, Finished DEF At, Typed
    <2>4. StaleOnce'
      <3>1. \A q \in Requests : At(q, "done") => step'[q] = "done"
        BY <2>3, DoneStays
      <3> QED
        BY <2>2, <3>1 DEF Safe, StaleOnce, At
    <2>5. DOMAIN invitations' = {}
      BY <2>1
    <2>6. AdmittedOnce' /\ PendingInvitations'
      BY <2>5 DEF AdmittedOnce, PendingInvitations
    <2>7. SoleOwner'
      <3>1. Owners' = {1}
        BY <2>1 DEF Owners
      <3>2. Cardinality(Owners)' = 1
        BY <3>1, FS_Singleton
      <3>3. \A ops : Cardinality(StaleOf(ops)') \in Nat
        <4>1. IsFiniteSet(stale') /\ stale \subseteq stale'
          BY <2>2 DEF Safe, StaleOnce
        <4> QED
          BY <4>1, StaleGrows DEF Safe
      <3> DEFINE a == Cardinality(StaleOf({"transfer"})) b == Cardinality(StaleOf(Taking))
      <3>4. a' \in Nat /\ b' \in Nat
        BY <3>3 DEF Taking
      <3> HIDE DEF a, b
      <3>5. 1 <= 1 + a' /\ 1 >= 1 - b'
        <4>1. \A n \in Nat : 1 <= 1 + n /\ 1 >= 1 - n
          OBVIOUS
        <4> QED
          BY <3>4, <4>1
      <3>6. Owned'
        BY <3>2, <3>5 DEF Owned, a, b
      <3> QED
        BY <3>6, OwnedIsSole
    <2> QED
      BY <2>4, <2>6, <2>7 DEF Safe
  <1> QED
    BY <1>1, <1>2

LEMMA TimeSafe ==
  ASSUME RowsOK, RequestsOK, FoundedOnce, Safe,
         \/ \E i \in DOMAIN invitations : Expire(i)
         \/ \E k \in DOMAIN keys : ExpireKey(k)
  PROVE  Safe'
  <1>1. UNCHANGED <<organization, members, verified, mailed, step, req, faults, stale, admitted,
                    orphaned>>
    BY DEF Expire, ExpireKey, history
  <1>2. Quiet
    <2>1. ASSUME NEW i \in DOMAIN invitations, Expire(i)
          PROVE  Quiet
      BY <1>1, <2>1, ExpireOK DEF Quiet, RowsMarked
    <2>2. ASSUME NEW k \in DOMAIN keys, ExpireKey(k)
          PROVE  Quiet
      BY <1>1, <2>2 DEF Quiet, ExpireKey
    <2> QED
      BY <2>1, <2>2
  <1>3. /\ Unowned' \/ ~Unowned
        /\ \A q \in Requests : At(q, "done") => step'[q] = "done"
    BY <1>1 DEF Unowned, At
  <1>4. \A j \in DOMAIN invitations : Posted(j) => Posted(j)'
    BY <1>1 DEF Posted, At
  <1> QED
    BY <1>2, <1>3, <1>4, QuietSafe

LEMMA WorksSafe ==
  ASSUME RowsOK, RequestsOK, FoundedOnce, Safe, NEW r \in Requests, Works(r)
  PROVE  Safe'
  BY QuietWorks, MemberWritesSafe, RevokesSafe, InsertSafe, JoinSafe DEF Works, InvitationWrites

-----------------------------------------------------------------------------
(* The theorems.                                                           *)

LEMMA InitHolds ==
  ASSUME Init
  PROVE  Inv
  <1>1. /\ step = [r \in Requests |-> "new"] /\ req = [r \in Requests |-> None] /\ keys = <<>>
        /\ faults = 0 /\ overtaken = {} /\ stale = {} /\ orphaned = FALSE
    BY DEF Init
  <1>2. KeysOK /\ faults \in 0..MaxFaults /\ orphaned \in BOOLEAN
    <2>1. keys = <<>> /\ DOMAIN keys = {} /\ keys \in Seq(ApiKeyRow)
      BY <1>1
    <2>2. 0 \in 0..MaxFaults
      BY OrganizationConstants
    <2> QED
      BY <1>1, <2>1, <2>2 DEF KeysOK
  <1>3. RequestsOK
    <2>1. None \in Forms /\ "new" \in Steps
      BY DEF Forms, Steps
    <2>2. \A r \in Requests : RequestFits(r) /\ Knows(r)
      BY <1>1 DEF RequestFits, Knows, At, Inviting
    <2> QED
      BY <1>1, <2>1, <2>2 DEF RequestsOK
  <1>4. StaleOnce
    BY <1>1, FS_EmptySet DEF StaleOnce
  <1>5. \A ops : Cardinality(StaleOf(ops)) = 0
    BY <1>1, FS_EmptySet DEF StaleOf
  <1>6. CASE organization = "none" /\ members = <<>> /\ invitations = <<>> /\ verified = {}
             /\ mailed = {} /\ admitted = <<>>
    <2>1. RowsOK
      BY <1>2, <1>6 DEF RowsOK, MembersOK, OneRowEach, InvitationsOK, OnePendingEach
    <2>2. FoundedOnce
      BY <1>1, <1>6 DEF FoundedOnce, Unowned, At
    <2>3. Unowned
      BY <1>6 DEF Unowned
    <2>4. SoleOwner
      BY <2>3, OwnedIsSole
    <2>5. AdmittedOnce /\ PendingInvitations
      BY <1>6 DEF AdmittedOnce, PendingInvitations
    <2> QED
      BY <1>3, <1>4, <2>1, <2>2, <2>4, <2>5 DEF Inv
  <1>7. CASE organization # "none"
    <2>1. PICK colleague \in Users \ {Founder}, joined \in BOOLEAN, guest \in Users \ {Founder} :
          /\ guest # colleague
          /\ organization = "live"
          /\ members = <<[user |-> Founder, role |-> "OWNER"],
                         [user |-> colleague, role |-> "ADMIN"]>>
                       \o IF joined THEN <<[user |-> guest, role |-> "MEMBER"]>> ELSE <<>>
          /\ invitations = <<[email |-> guest, role |-> "MEMBER",
                              accepted |-> joined, revoked |-> FALSE, expired |-> FALSE]>>
          /\ verified = {colleague} \cup (IF joined THEN {guest} ELSE {})
          /\ mailed = {1}
          /\ admitted = <<IF joined THEN 1 ELSE 0>>
      BY <1>7 DEF Init
    <2>2. /\ {[user |-> Founder, role |-> "OWNER"], [user |-> colleague, role |-> "ADMIN"],
              [user |-> guest, role |-> "MEMBER"]} \subseteq MembershipRow
          /\ [email |-> guest, role |-> "MEMBER", accepted |-> joined,
              revoked |-> FALSE, expired |-> FALSE] \in InvitationRow
      BY OrganizationConstants DEF MembershipRow, InvitationRow, Roles
    <2>3. /\ members \in Seq(MembershipRow)
          /\ members[1].user = Founder /\ members[1].role = "OWNER"
          /\ members[2].user = colleague /\ members[2].role = "ADMIN"
          /\ IF joined THEN /\ DOMAIN members = {1, 2, 3}
                            /\ members[3].user = guest /\ members[3].role = "MEMBER"
                       ELSE DOMAIN members = {1, 2}
      <3>1. CASE joined
        <4> PICK a, b, c : /\ a = [user |-> Founder, role |-> "OWNER"]
                           /\ b = [user |-> colleague, role |-> "ADMIN"]
                           /\ c = [user |-> guest, role |-> "MEMBER"]
          OBVIOUS
        <4>1. members = <<a, b>> \o <<c>>
          BY <2>1, <3>1
        <4>2. /\ <<a, b>> \in Seq(MembershipRow) /\ <<c>> \in Seq(MembershipRow)
              /\ Len(<<a, b>>) = 2 /\ Len(<<c>>) = 1
          BY <2>2
        <4>3. /\ members \in Seq(MembershipRow) /\ Len(members) = 3
              /\ members[1] = a /\ members[2] = b /\ members[3] = c
          BY <4>1, <4>2, ConcatProperties
        <4>4. DOMAIN members = {1, 2, 3}
          BY <4>3
        <4> QED
          BY <3>1, <4>3, <4>4
      <3>2. CASE ~joined
        <4>1. members = <<[user |-> Founder, role |-> "OWNER"],
                          [user |-> colleague, role |-> "ADMIN"]>>
          BY <2>1, <3>2
        <4> QED
          BY <2>2, <3>2, <4>1
      <3> QED
        BY <3>1, <3>2
    <2>4. /\ invitations \in Seq(InvitationRow) /\ Len(invitations) = 1
          /\ DOMAIN invitations = {1} /\ invitations[1].email = guest
          /\ invitations[1].accepted = joined /\ ~invitations[1].revoked
          /\ admitted \in Seq(Nat) /\ Len(admitted) = 1
          /\ admitted[1] = IF joined THEN 1 ELSE 0
      BY <2>1, <2>2
    <2>5. RowsOK
      <3>1. MembersOK
        BY <2>1, <2>3 DEF MembersOK, OneRowEach
      <3>2. InvitationsOK
        BY <2>1, <2>4 DEF InvitationsOK, OnePendingEach
      <3>3. verified \subseteq Users
        BY <2>1
      <3> QED
        BY <1>2, <2>1, <3>1, <3>2, <3>3 DEF RowsOK
    <2>6. ~Unowned /\ FoundedOnce
      BY <1>1, <2>1 DEF FoundedOnce, Unowned, At
    <2>7. Owned
      <3>1. Owners = {1}
        BY <2>3 DEF Owners
      <3>2. Cardinality(Owners) = 1
        BY <3>1, FS_Singleton
      <3> QED
        BY <1>5, <3>2 DEF Owned
    <2>8. SoleOwner
      BY <2>7, OwnedIsSole
    <2>9. \A ops, u : Cardinality(StaleWrites(ops, u)) = 0
      BY <1>1, FS_EmptySet DEF StaleWrites
    <2>10. AdmittedOnce
      <3>1. AdmittedFor(1, guest)
        BY <2>1, <2>4, <2>9 DEF AdmittedFor
      <3> QED
        BY <2>4, <3>1, AdmittedMeans
    <2>11. PendingInvitations
      <3>1. ~joined => ~IsMember(guest)
        BY <2>1, <2>3 DEF IsMember, RowsOf
      <3>2. 1 \in mailed
        BY <2>1
      <3>3. Pending(1) => ~joined
        BY <2>4 DEF Pending
      <3> QED
        BY <2>4, <3>1, <3>2, <3>3, PendingMeans DEF Uninvited, Posted
    <2> QED
      BY <1>3, <1>4, <2>5, <2>6, <2>8, <2>10, <2>11 DEF Inv
  <1> QED
    BY <1>6, <1>7 DEF Init

\* The inductive invariant holds in every state.
THEOREM InvHolds == Spec => []Inv
  <1>1. Init => Inv
    BY InitHolds
  <1>2. Inv /\ [Next]_vars => Inv'
    <2> SUFFICES ASSUME Inv, [Next]_vars PROVE Inv'
      OBVIOUS
    <2>1. RowsOK /\ RequestsOK /\ FoundedOnce /\ Safe
      BY DEF Inv, Safe
    <2>2. CASE Next
      <3>1. FoundedOnce'
        BY <2>1, <2>2, FoundedStays
      <3>2. RowsOK' /\ RequestsOK'
        BY <2>1, <2>2, KindsOfSteps, FoundingOK, OwnerOK, WorkingOK, ExpireOK, ExpireKeyOK
      <3>3. Safe'
        BY <2>1, <2>2, KindsOfSteps, FoundingSafe, WorksSafe, TimeSafe
      <3> QED
        BY <3>1, <3>2, <3>3 DEF Inv, Safe
    <2>3. CASE UNCHANGED vars
      <3>1. UNCHANGED <<organization, members, invitations, keys, verified, mailed, step, req, faults,
                        overtaken, stale, admitted, orphaned>>
        BY <2>3 DEF vars, rows, history
      <3>2. RowsOK' /\ RequestsOK'
        <4>1. Still
          BY <3>1 DEF Still, rows, history
        <4>2. Evolves({})
          BY <4>1, StillReading, ReadingEvolves
        <4> QED
          BY <2>1, <3>1, <4>1, <4>2, StillRows, NobodyMoves
      <3>3. FoundedOnce'
        BY <2>1, <3>1 DEF FoundedOnce, Unowned, At
      <3>4. Safe'
        <4>1. Quiet /\ (Unowned' \/ ~Unowned)
              /\ \A q \in Requests : At(q, "done") => step'[q] = "done"
          BY <3>1 DEF Quiet, Unowned, At
        <4>2. \A j \in DOMAIN invitations : Posted(j) => Posted(j)'
          BY <3>1 DEF Posted, At
        <4> QED
          BY <2>1, <4>1, <4>2, QuietSafe
      <3> QED
        BY <3>2, <3>3, <3>4 DEF Inv, Safe
    <2> QED
      BY <2>2, <2>3
  <1> QED
    BY <1>1, <1>2, PTL DEF Spec

\* The rows of one organization and its requests are well formed, with one membership
\* for each user and one pending invitation for each address, whatever requests of
\* members.service.ts and invitations.service.ts overlap.
THEOREM TypeCorrect == Spec => []TypeOK
  <1>1. Inv => TypeOK
    <2> SUFFICES ASSUME Inv PROVE TypeOK
      OBVIOUS
    <2>1. \A r \in Requests : /\ req[r] = None <=> step[r] = "new"
                              /\ req[r].op = "answered" <=> step[r] = "done"
      <3> TAKE r \in Requests
      <3>1. RequestFits(r) /\ step[r] \in Steps
        BY DEF Inv, RequestsOK
      <3>2. step[r] \notin {"new", "done"} => req[r].op \in Ops \cup {"create", "accept"}
        BY <3>1 DEF RequestFits, Steps, Inviting, At, Founding, Fits, Asked, Accepts, Acceptances,
                    WritesMember, Ops, MemberOps
      <3>3. step[r] = "done" => req[r].op = "answered"
        BY <3>1 DEF RequestFits, At, Replies
      <3>4. step[r] = "new" => req[r] = None
        BY <3>1 DEF RequestFits, At
      <3>5. None.op = "none" /\ "none" \notin Ops \cup {"create", "accept", "answered"}
            /\ "answered" \notin Ops \cup {"create", "accept"}
        BY DEF None, Ops, MemberOps
      <3> QED
        BY <3>2, <3>3, <3>4, <3>5
    <2>2. RowsOK /\ RequestsOK
      BY DEF Inv
    <2>3. DOMAIN admitted = DOMAIN invitations
      BY <2>2, InvitationRows
    <2> QED
      BY <2>1, <2>2, <2>3 DEF TypeOK, RowsOK, RequestsOK, MembersOK, OneRowEach, InvitationsOK,
                              OnePendingEach, Pending, KeysOK
  <1> QED
    BY <1>1, InvHolds, PTL

\* members.service.ts: an organization has one OWNER, but for stale writes of update by
\* id and the founding without a transaction, and by no more than those.
THEOREM OwnersByStaleWritesOnly == Spec => []SoleOwner
  <1>1. Inv => SoleOwner
    BY DEF Inv
  <1> QED
    BY <1>1, InvHolds, PTL

\* invitations.service.ts, accept: however acceptances and revocations of one invitation
\* overlap, it makes one member, and one more for each stale acceptance at most.
THEOREM InvitationsAdmitOnce == Spec => []AdmittedOnce
  <1>1. Inv => AdmittedOnce
    BY DEF Inv
  <1> QED
    BY <1>1, InvHolds, PTL

\* invitations.service.ts, create: a pending invitation is for somebody outside, but where
\* an acceptance and a creation overlapped, and was mailed, unless something failed.
THEOREM PendingAreOutside == Spec => []PendingInvitations
  <1>1. Inv => PendingInvitations
    BY DEF Inv
  <1> QED
    BY <1>1, InvHolds, PTL

\* api-key-scopes.ts: of the routes of an organization a key passes the middlewares of
\* one, whatever the scopes its creator asked for.
THEOREM KeysOnlyList == Spec => []KeysAdministerNothing
  <1>1. Inv => KeysAdministerNothing
    <2> SUFFICES ASSUME Inv, NEW r \in Requests, UnderWay(r), req[r].by = Key
                 PROVE  req[r].op = "list"
      BY DEF KeysAdministerNothing
    <2>1. RequestFits(r) /\ step[r] \in Steps \ {"new", "done"}
      BY DEF Inv, RequestsOK, UnderWay
    <2>2. req[r] # Founding /\ ~Accepts(req[r])
      BY OrganizationConstants DEF Founding, Accepts, Acceptances
    <2>3. Fits(req[r])
      BY <2>1, <2>2 DEF RequestFits, Steps, Inviting, At, WritesMember
    <2> QED
      BY <2>3 DEF Fits
  <1> QED
    BY <1>1, InvHolds, PTL

-----------------------------------------------------------------------------
(* Where the refuted statement holds.                                      *)

\* No other request to change a member is under way with a transfer of the ownership.
TransfersAlone ==
    \A r, q \in Requests : /\ UnderWay(r) /\ req[r].op = "transfer"
                           /\ UnderWay(q) /\ req[q].op \in MemberOps
                           => r = q

\* What a request takes for granted about the OWNER, overtaken or not: the row it will
\* write to is another's, and that of the one who transfers is the OWNER's.
KnowsOwner(r) ==
    /\ At(r, "writing") /\ req[r].op \in MemberOps => req[r].id \notin Owners
    /\ step[r] \in {"reading", "writing"} /\ req[r].op = "transfer" => req[r].row \in Owners

OneOwner ==
    /\ ~Unowned => \E i \in DOMAIN members : Owners = {i}
    /\ \A r \in Requests : KnowsOwner(r)

\* A step that leaves the OWNER leaves what others know.
LEMMA OwnerStays ==
  ASSUME OneOwner, Owners' = Owners, DOMAIN members \subseteq DOMAIN members',
         NEW r \in Requests, Others(r), KnowsOwner(r)', Unowned => Unowned'
  PROVE  OneOwner'
  <1>1. \A q \in Requests \ {r} : KnowsOwner(q)'
    BY DEF OneOwner, KnowsOwner, Others, At
  <1>2. ~Unowned' => \E i \in DOMAIN members' : Owners' = {i}
    BY DEF OneOwner
  <1> QED
    BY <1>1, <1>2 DEF OneOwner

\* Only a request that has just arrived, or just found its row, has something to know.
LEMMA NothingToKnow ==
  ASSUME NEW r \in Requests,
         step'[r] \notin {"reading", "writing"} \/ req'[r].op \notin MemberOps
  PROVE  KnowsOwner(r)'
  BY DEF KnowsOwner, At, MemberOps

LEMMA ArrivesKnowing ==
  ASSUME RowsOK, RequestsOK, NEW r \in Requests, Arrive(r)
  PROVE  KnowsOwner(r)'
  <1>1. PICK b \in Bodies : \/ \E u \in Users : ArriveAsUser(r, u, b)
                            \/ \E k \in DOMAIN keys : ArriveWithKey(r, k, b)
    BY DEF Arrive
  <1>2. step \in [Requests -> Steps] /\ req \in [Requests -> Forms] /\ UNCHANGED members
    BY DEF RequestsOK, Arrive, rows
  <1>3. ASSUME NEW u \in Users, ArriveAsUser(r, u, b) PROVE KnowsOwner(r)'
    <2>1. /\ step'[r] = "reading" /\ req'[r].op = b.op /\ req'[r].row = RowOf(u)
          /\ IsMember(u) /\ roleHasPermission(RoleOf(u), RoutePermission(b.op))
      BY <1>2, <1>3 DEF ArriveAsUser, Passes, Goes
    <2>2. RowOf(u) \in DOMAIN members /\ RoleOf(u) \in Roles
          /\ members[RowOf(u)].role = RoleOf(u)
      BY <2>1, RowOfMember DEF RoleOf
    <2>3. b.op = "transfer" => RoleOf(u) = "OWNER"
      BY <2>1, <2>2, TransferIsOwners
    <2> HIDE DEF RowOf, RoleOf
    <2>4. b.op = "transfer" => RowOf(u) \in Owners'
      BY <1>2, <2>2, <2>3 DEF Owners
    <2> QED
      BY <2>1, <2>4 DEF KnowsOwner, At
  <1>4. ASSUME NEW k \in DOMAIN keys, ArriveWithKey(r, k, b) PROVE KnowsOwner(r)'
    <2>1. isPermissionGrantableToApiKey(RoutePermission(b.op))
      BY <1>4 DEF ArriveWithKey, RowsOK, MembersOK, InvitationsOK, KeysOK
    <2>2. b.op = "list"
      BY <2>1, BodyFields, KeyRoutes
    <2>3. req'[r].op = b.op
      BY <1>2, <1>4 DEF ArriveWithKey, Passes, Goes
    <2> QED
      BY <2>2, <2>3, NothingToKnow DEF MemberOps
  <1> QED
    BY <1>1, <1>3, <1>4

\* The row of the OWNER is refused to each of the four that write to members.
LEMMA FindsKnowing ==
  ASSUME RowsOK, RequestsOK, NEW r \in Requests, KnowsOwner(r),
         UpdateRole(r) \/ Remove(r) \/ Leave(r) \/ TransferOwnership(r)
  PROVE  KnowsOwner(r)'
  <1>1. PICK refusal : /\ At(r, "reading") /\ Found(r, refusal)
                       /\ refusal = "none" => RoleOf(req[r].on) # "OWNER"
    <2>1. CASE UpdateRole(r)
      BY <2>1 DEF UpdateRole, Reads
    <2>2. CASE Remove(r)
      BY <2>2 DEF Remove, Reads
    <2>3. CASE Leave(r) \/ TransferOwnership(r)
      BY <2>3 DEF Leave, TransferOwnership, Reads
    <2> QED
      BY <2>1, <2>2, <2>3
  <1>2. step \in [Requests -> Steps] /\ req \in [Requests -> Forms] /\ UNCHANGED members
    BY <1>1 DEF RequestsOK, Found, rows
  <1>3. CASE IsMember(req[r].on) /\ refusal = "none"
    <2>1. Goes(r, "writing", [req[r] EXCEPT !.id = RowOf(req[r].on)])
      BY <1>1, <1>3 DEF Found
    <2>2. req[r] \in Asked
      BY <1>1, ReadingIsAsked
    <2>3. PICK i : i = RowOf(req[r].on)
      OBVIOUS
    <2>4. i \in Nat /\ members[i].role # "OWNER"
      BY <1>1, <1>3, <2>3, RowOfMember DEF RoleOf
    <2>5. /\ step'[r] = "writing" /\ req'[r].id = i
          /\ req'[r].op = req[r].op /\ req'[r].row = req[r].row
      BY <1>2, <2>1, <2>2, <2>3 DEF Goes, Asked
    <2>6. i \notin Owners' /\ Owners' = Owners
      BY <1>2, <2>4 DEF Owners
    <2> QED
      BY <1>1, <2>5, <2>6 DEF KnowsOwner, At
  <1>4. CASE ~(IsMember(req[r].on) /\ refusal = "none")
    <2>1. Finishes(r)
      BY <1>1, <1>4, Refused DEF Found
    <2> QED
      BY <2>1, Finished, NothingToKnow
  <1> QED
    BY <1>3, <1>4

\* One kind of step at a time.
LEMMA LooksKnowing ==
  ASSUME RowsOK, RequestsOK, OneOwner, NEW r \in Requests, Looks(r)
  PROVE  KnowsOwner(r)'
  <1>1. step \in [Requests -> Steps] /\ req \in [Requests -> Forms] /\ KnowsOwner(r)
    BY DEF RequestsOK, OneOwner
  <1>2. \A e : Refuses(r, e) => KnowsOwner(r)'
    BY Refused, Finished, NothingToKnow
  <1>3. \A s, q : Goes(r, s, q) => step'[r] = s /\ req'[r] = q
    BY <1>1 DEF Goes
  <1>4. \A s : To(r, s) => step'[r] = s /\ req'[r] = req[r]
    BY <1>1 DEF To
  <1> HIDE DEF Goes, To, Refuses
  <1>5. CASE CheckInvitee(r)
    BY <1>2, <1>4, <1>5, NothingToKnow DEF CheckInvitee
  <1>6. CASE FindPending(r)
    <2>1. (\E e : Refuses(r, e)) \/ step'[r] \in {"inserting", "retiring"}
      BY <1>3, <1>4, <1>6 DEF FindPending, GoesOn
    <2> QED
      BY <1>2, <2>1, NothingToKnow
  <1>7. CASE FindToRevoke(r) \/ FindKey(r)
    <2>1. (\E e : Refuses(r, e)) \/ req'[r].op \in {"revoke", "revokeKey"}
      BY <1>4, <1>7 DEF FindToRevoke, FindKey, Reads
    <2> QED
      BY <1>2, <2>1, NothingToKnow DEF MemberOps
  <1>8. CASE \E i \in DOMAIN invitations : Accept(r, i)
    <2>1. req'[r].op = "accept"
      BY <1>3, <1>8 DEF Accept
    <2> QED
      BY <2>1, NothingToKnow DEF MemberOps
  <1> QED
    BY <1>1, <1>5, <1>6, <1>7, <1>8, ArrivesKnowing, FindsKnowing DEF Looks

LEMMA WritesKnowing ==
  ASSUME RowsOK, RequestsOK, NEW r \in Requests,
         Ends(r) \/ MemberWrites(r) \/ InvitationWrites(r) \/ KeyWrites(r)
  PROVE  KnowsOwner(r)'
  <1>1. step \in [Requests -> Steps] /\ req \in [Requests -> Forms]
    BY DEF RequestsOK
  <1>2. Finishes(r) => KnowsOwner(r)'
    BY Finished, NothingToKnow
  <1>3. CASE Ends(r) \/ MemberWrites(r) \/ Join(r)
    <2>1. Finishes(r)
      BY <1>3, Ending, SetRoleRows, DeleteRows, TransferRows, Joining DEF MemberWrites
    <2> QED
      BY <1>2, <2>1
  <1>4. CASE RevokeInvitation(r) \/ KeyWrites(r)
    BY <1>2, <1>4 DEF RevokeInvitation, KeyWrites, CreateKey, RevokeKey, Finishes
  <1>5. CASE Retire(r) \/ InsertInvitation(r)
    <2>1. (\E e : Refuses(r, e)) \/ step'[r] \in {"inserting", "mailing"}
      BY <1>1, <1>5 DEF Retire, InsertInvitation, GoesOn, To, Goes, Fails
    <2> QED
      BY <1>2, <2>1, Refused, NothingToKnow
  <1> QED
    BY <1>3, <1>4, <1>5 DEF InvitationWrites

\* The OWNER changes in CommitTransfer alone, and then there is nobody else who knows.
LEMMA OneOwnerStep ==
  ASSUME Inv, Inv', OneOwner, TransfersAlone, [Next]_vars
  PROVE  OneOwner'
  <1>1. RowsOK /\ RequestsOK /\ FoundedOnce /\ DOMAIN members \subseteq Nat
    BY MemberRows DEF Inv
  <1>2. ASSUME UNCHANGED <<members, step, req, organization, orphaned>> PROVE OneOwner'
    BY <1>2 DEF OneOwner, KnowsOwner, Owners, Unowned, At
  <1>3. ASSUME NEW r \in Requests, CreateOrganization(r) PROVE OneOwner'
    <2>1. /\ UNCHANGED members /\ Goes(r, "owning", Founding)
      BY <1>3 DEF CreateOrganization, Founding
    <2>2. Others(r) /\ step'[r] = "owning"
      BY <1>1, <2>1, GoesTo DEF Forms, Steps
    <2>3. Unowned' /\ Owners' = Owners
      BY <2>1, <2>2 DEF Unowned, At, Owners
    <2>4. KnowsOwner(r)'
      BY <2>2, NothingToKnow
    <2> QED
      BY <2>1, <2>2, <2>3, <2>4, OwnerStays
  <1>4. ASSUME NEW r \in Requests, AddOwner(r) PROVE OneOwner'
    <2>1. /\ DOMAIN members' = {1} /\ members'[1].role = "OWNER" /\ Finishes(r)
          /\ \A q \in Requests : step[q] \in {"new", "owning", "done"}
      BY <1>1, <1>4, OwnerRows
    <2>2. Owners' = {1}
      BY <2>1 DEF Owners
    <2>3. Others(r) /\ step'[r] = "done"
      BY <1>1, <2>1, Finished
    <2>4. \A q \in Requests : step'[q] \in {"new", "owning", "done"}
      BY <2>1, <2>3 DEF Others
    <2> QED
      BY <2>1, <2>2, <2>4, NothingToKnow DEF OneOwner
  <1>5. ASSUME NEW r \in Requests, Works(r) PROVE OneOwner'
    <2>1. Others(r) /\ ~At(r, "done")
      BY <1>1, <1>5, WorkMoves
    <2>2. KnowsOwner(r)'
      BY <1>1, <1>5, LooksKnowing, WritesKnowing DEF Works
    <2>3. Unowned => Unowned'
      <3>1. CASE Unowned
        <4>1. CutShort(r) /\ At(r, "owning")
          BY <1>1, <1>5, <3>1, NothingBefore
        <4>2. orphaned'
          BY <4>1 DEF CutShort
        <4> QED
          BY <4>2 DEF Unowned
      <3> QED
        BY <3>1
    <2>4. ASSUME Owners' = Owners, DOMAIN members \subseteq DOMAIN members' PROVE OneOwner'
      BY <2>1, <2>2, <2>3, <2>4, OwnerStays
    <2>5. ASSUME UNCHANGED members PROVE OneOwner'
      BY <2>4, <2>5 DEF Owners
    <2>6. CASE Looks(r) \/ Ends(r) \/ KeyWrites(r)
      BY <1>1, <2>5, <2>6, LookingOK, Ending DEF Still, rows, KeyWrites, CreateKey, RevokeKey
    <2>7. CASE Retire(r) \/ InsertInvitation(r) \/ RevokeInvitation(r)
      BY <2>5, <2>7 DEF Retire, InsertInvitation, RevokeInvitation, rows
    <2>8. CASE Join(r)
      <3>1. PICK n : /\ DOMAIN members' = DOMAIN members \cup {n} /\ n \notin DOMAIN members
                     /\ \A j \in DOMAIN members : members'[j] = members[j]
                     /\ members'[n].role # "OWNER"
        BY <1>1, <2>8, Joining
      <3>2. Owners' = Owners
        BY <3>1 DEF Owners
      <3> QED
        BY <2>4, <3>1, <3>2
    <2>9. CASE SetRole(r) \/ DeleteRow(r)
      <3>1. PICK i : i = req[r].id
        OBVIOUS
      <3>2. /\ DOMAIN members' = DOMAIN members
            /\ \A j \in DOMAIN members : j # i => members'[j] = members[j]
            /\ members'[i].role # "OWNER"
        BY <1>1, <2>9, <3>1, SetRoleRows, DeleteRows DEF Gone
      <3>3. i \notin Owners
        BY <2>9, <3>1 DEF SetRole, DeleteRow, Writes, OneOwner, KnowsOwner, MemberOps
      <3>4. Owners' = Owners
        BY <3>2, <3>3 DEF Owners
      <3> QED
        BY <2>4, <3>2, <3>4
    <2>10. CASE CommitTransfer(r)
      <3>1. PICK i, k : i = req[r].id /\ k = req[r].row
        OBVIOUS
      <3>2. /\ DOMAIN members' = DOMAIN members
            /\ \A j \in DOMAIN members : j \notin {k, i} => members'[j] = members[j]
            /\ members'[i].role = "OWNER"
            /\ k # i => members'[k].role = "ADMIN"
        BY <1>1, <2>10, <3>1, TransferRows
      <3>3. At(r, "writing") /\ req[r].op = "transfer"
        BY <2>10 DEF CommitTransfer, Writes
      <3>4. k \in Owners /\ i \notin Owners /\ i \in DOMAIN members
        <4>1. i \in DOMAIN members
          BY <1>1, <2>10, <3>1, WritingMember DEF CommitTransfer, MemberOps, WritesMember
        <4> QED
          BY <3>1, <3>3, <4>1 DEF OneOwner, KnowsOwner, At, MemberOps
      <3>5. ~Unowned
        BY <1>1, <3>3 DEF FoundedOnce, At
      <3>6. Owners = {k}
        BY <3>4, <3>5 DEF OneOwner
      <3>7. Owners' = {i}
        BY <3>2, <3>4, <3>6 DEF Owners
      <3>8. ASSUME NEW q \in Requests \ {r} PROVE KnowsOwner(q)'
        <4>1. UnderWay(r)
          BY <3>3 DEF UnderWay, At
        <4>2. step[q] \notin {"reading", "writing"} \/ req[q].op \notin MemberOps
          BY <3>3, <4>1 DEF TransfersAlone, UnderWay
        <4> QED
          BY <2>1, <4>2, NothingToKnow DEF Others
      <3> QED
        BY <2>2, <3>2, <3>4, <3>7, <3>8 DEF OneOwner
    <2> QED
      BY <1>5, <2>6, <2>7, <2>8, <2>9, <2>10 DEF Works, MemberWrites, InvitationWrites
  <1>6. ASSUME NEW i, Expire(i) \/ ExpireKey(i) PROVE OneOwner'
    BY <1>2, <1>6 DEF Expire, ExpireKey, history
  <1>7. CASE UNCHANGED vars
    BY <1>2, <1>7 DEF vars, rows, history
  <1> QED
    BY <1>3, <1>4, <1>5, <1>6, <1>7, KindsOfSteps

LEMMA OneOwnerInit ==
  ASSUME Init
  PROVE  OneOwner
  <1>1. step = [r \in Requests |-> "new"] /\ stale = {} /\ Inv
    BY InitHolds DEF Init
  <1>2. \A r \in Requests : KnowsOwner(r)
    BY <1>1 DEF KnowsOwner, At
  <1>3. ~Unowned => \E i \in DOMAIN members : Owners = {i}
    <2>1. SUFFICES ASSUME ~Unowned PROVE \E i \in DOMAIN members : Owners = {i}
      OBVIOUS
    <2>2. Owned /\ IsFiniteSet(Owners) /\ Cardinality(Owners) \in Nat
      BY <1>1, <2>1, OwnedIsSole, OwnersFinite DEF Inv
    <2>3. \A ops : Cardinality(StaleOf(ops)) = 0
      BY <1>1, FS_EmptySet DEF StaleOf
    <2>4. Cardinality(Owners) = 1
      BY <2>2, <2>3 DEF Owned
    <2>5. PICK i : Owners = {i}
      BY <2>2, <2>4, FS_Singleton
    <2> QED
      BY <2>5 DEF Owners
  <1> QED
    BY <1>2, <1>3 DEF OneOwner

\* adr/0005 is true wherever no role change, removal, departure or second transfer is
\* under way with a transfer of the ownership: no other overlap of requests, no fault and
\* no invitation leaves an organization that has members without its OWNER, or with two.
THEOREM OneOwnerIfTransfersAlone == Spec /\ []TransfersAlone => []ExactlyOneOwner
  <1>1. Init => OneOwner
    BY OneOwnerInit
  <1>2. Inv /\ Inv' /\ OneOwner /\ TransfersAlone /\ [Next]_vars => OneOwner'
    BY OneOwnerStep
  <1>3. Inv /\ OneOwner => ExactlyOneOwner
    <2> SUFFICES ASSUME Inv, OneOwner, members # <<>> PROVE Cardinality(Owners) = 1
      BY DEF ExactlyOneOwner
    <2>1. ~Unowned
      BY DEF Inv, FoundedOnce
    <2>2. PICK i \in DOMAIN members : Owners = {i}
      BY <2>1 DEF OneOwner
    <2> QED
      BY <2>2, FS_Singleton
  <1> QED
    BY <1>1, <1>2, <1>3, InvHolds, PTL DEF Spec

-----------------------------------------------------------------------------
(* Who changes whom, and what answers tell.                                *)

LEMMA UpdatersAreHigh ==
  ASSUME NEW role \in Roles, roleHasPermission(role, RoutePermission("updateRole")),
         NEW given \in Roles, given # "OWNER"
  PROVE  ROLE_RANK[given] <= ROLE_RANK[role]
  <1>1. RoutePermission("updateRole") = "member:update-role"
    BY DEF RoutePermission, OrganizationRoutes, MemberRoutes, InvitationRoutes, ApiKeyRoutes
  <1>2. /\ "member:update-role" \notin MEMBER_PERMISSIONS
        /\ "member:update-role" \notin VIEWER_PERMISSIONS
    BY DEF MEMBER_PERMISSIONS, VIEWER_PERMISSIONS
  <1>3. role \in {"OWNER", "ADMIN"}
    BY <1>1, <1>2 DEF roleHasPermission, ROLE_PERMISSIONS, Roles
  <1> QED
    BY <1>3 DEF ROLE_RANK, Roles

\* The row of a member is the one its user has.
LEMMA TheRow ==
  ASSUME RowsOK, NEW i \in DOMAIN members, NEW u, members[i].user = u, members[i].role # Gone
  PROVE  IsMember(u) /\ RoleOf(u) = members[i].role
  <1>1. i \in RowsOf(u)
    BY DEF RowsOf
  <1>2. \A j \in RowsOf(u) : j = i
    BY DEF RowsOf, RowsOK, MembersOK, OneRowEach
  <1>3. RowOf(u) = i
    BY <1>1, <1>2 DEF RowOf
  <1> QED
    BY <1>1, <1>3 DEF IsMember, RoleOf

\* Of what is done to members, only their writing requests do it.
LEMMA WhoChanges ==
  ASSUME Inv, Next, NEW r \in Requests, ChangesMembers(r)
  PROVE  SetRole(r) \/ DeleteRow(r) \/ CommitTransfer(r)
  <1>1. RowsOK /\ RequestsOK /\ FoundedOnce /\ step[r] = "writing" /\ step'[r] = "done"
        /\ members' # members /\ req[r].op \in {"updateRole", "remove", "transfer"}
    BY DEF Inv, ChangesMembers, At
  <1>2. ASSUME NEW q \in Requests, CreateOrganization(q) \/ AddOwner(q)
        PROVE  FALSE
    <2>1. members' = members \/ step[r] \in {"new", "owning", "done"}
      BY <1>1, <1>2, OwnerRows DEF CreateOrganization
    <2> QED
      BY <1>1, <2>1
  <1>3. ASSUME NEW q \in Requests, Works(q), q # r
        PROVE  FALSE
    BY <1>1, <1>3, WorkMoves DEF Others
  <1>4. \A i : ~Expire(i) /\ ~ExpireKey(i)
    BY <1>1 DEF Expire, ExpireKey
  <1>5. Works(r)
    BY <1>2, <1>3, <1>4, KindsOfSteps
  <1>6. ~Looks(r) /\ ~Ends(r) /\ ~KeyWrites(r)
    BY <1>1, LookingOK, Ending DEF Still, rows, KeyWrites, CreateKey, RevokeKey
  <1>7. ~InvitationWrites(r)
    BY <1>1 DEF InvitationWrites, Retire, InsertInvitation, RevokeInvitation, Join, rows, Writes
  <1> QED
    BY <1>5, <1>6, <1>7 DEF Works, MemberWrites

LEMMA ChangersStandAbove ==
  ASSUME Inv, Next, NEW r \in Requests, r \notin overtaken, ChangesMembers(r)
  PROVE  FromAbove(r)
  <1>1. RowsOK /\ RequestsOK
    BY DEF Inv
  <1>2. PICK op : op = req[r].op
    OBVIOUS
  <1>3. op \in {"updateRole", "remove", "transfer"} /\ Writes(r, op) /\ op \in MemberOps
    BY <1>2 DEF ChangesMembers, Writes, At, MemberOps
  <1> DEFINE q == req[r]  mine == RoleOf(q.by)  theirs == RoleOf(q.on)
  <1>4. /\ WritesMember(q) /\ q.row \in DOMAIN members /\ members[q.row].user = q.by
        /\ members[q.row].role = q.as /\ members[q.id].role \notin {Gone, "OWNER"}
        /\ q.by # Key
        /\ op \in {"updateRole", "remove"} => canManageRole(q.as, members[q.id].role)
    BY <1>1, <1>3, WritingMember
  <1>5. /\ q.id \in DOMAIN members /\ members[q.id].user = q.on /\ q.as \in Roles
        /\ roleHasPermission(q.as, RoutePermission(q.op))
        /\ op = "updateRole" => q.give \in Given /\ q.give # "OWNER"
    BY <1>2, <1>4 DEF WritesMember, Fits
  <1>6. q.as # Gone
    BY <1>5 DEF Roles, Gone
  <1>7. /\ IsMember(q.by) /\ mine = q.as
        /\ IsMember(q.on) /\ theirs = members[q.id].role
    BY <1>1, <1>4, <1>5, <1>6, TheRow
  <1>8. op # "transfer" => /\ theirs # "OWNER"
                           /\ mine # "OWNER" => ROLE_RANK[theirs] < ROLE_RANK[mine]
    <2>1. \A a, b : ROLE_RANK[a] > ROLE_RANK[b] <=> ROLE_RANK[b] < ROLE_RANK[a]
      OBVIOUS
    <2> QED
      BY <1>3, <1>4, <1>7, <2>1 DEF canManageRole, isRoleAbove
  <1>9. ASSUME op # "transfer", NEW i \in DOMAIN members,
               members'[i].role \notin {members[i].role, Gone}
        PROVE  ROLE_RANK[members'[i].role] <= ROLE_RANK[mine]
    <2>1. CASE SetRole(r)
      <3>1. i = q.id /\ members'[i].role = q.give
        BY <1>1, <1>9, <2>1, SetRoleRows
      <3>2. op = "updateRole"
        BY <1>2, <2>1 DEF SetRole, Writes
      <3> QED
        BY <1>2, <1>5, <1>7, <3>1, <3>2, UpdatersAreHigh, OrganizationConstants
    <2>2. CASE DeleteRow(r)
      BY <1>1, <1>9, <2>2, DeleteRows
    <2>3. CASE CommitTransfer(r)
      BY <1>2, <1>9, <2>3 DEF CommitTransfer, Writes
    <2> QED
      BY <2>1, <2>2, <2>3, WhoChanges
  <1> QED
    BY <1>2, <1>5, <1>7, <1>8, <1>9 DEF FromAbove

\* members.service.ts, assertCanManage and transferOwnership: the roles read by the
\* middleware and by the handler hold at the write, for every request that no other
\* has overtaken, although nothing locks the rows in between.
THEOREM ManagersStandAbove == Spec => ChangesFromAbove
  <1>1. Inv /\ [Next]_vars => [\A r \in Requests \ overtaken : ChangesMembers(r) => FromAbove(r)]_vars
    BY ChangersStandAbove
  <1> QED
    BY <1>1, InvHolds, PTL DEF Spec, ChangesFromAbove

Refusals == {"NotFoundError", "ConflictError", "ForbiddenError", "UnprocessableEntityError"}

\* The status of a refusal.
LEMMA StatusOf ==
  ASSUME NEW error \in Refusals
  PROVE  /\ toProblemDetails(error) \in {403, 404, 409, 422}
         /\ error = "UnprocessableEntityError" => toProblemDetails(error) = 422
  <1>1. /\ AppError["NotFoundError"] = 404 /\ AppError["ConflictError"] = 409
        /\ AppError["ForbiddenError"] = 403 /\ AppError["UnprocessableEntityError"] = 422
    BY DEF AppError
  <1>2. Refusals \subseteq DOMAIN AppError
    BY DEF AppError, Refusals
  <1>3. ~isMalformedJsonBody(error) /\ ~isRedisUnavailable(error)
    BY DEF Refusals, isMalformedJsonBody, isRedisUnavailable
  <1>4. toProblemDetails(error) = AppError[error]
    BY <1>2, <1>3 DEF toProblemDetails
  <1> QED
    BY <1>1, <1>4 DEF Refusals

\* What the application did not throw on purpose.
Unforeseen(error) == error \notin DOMAIN AppError /\ ~isMalformedJsonBody(error)

LEMMA FailureOf ==
  ASSUME NEW error, Unforeseen(error)
  PROVE  toProblemDetails(error) \in {500, 503}
  <1>1. AppError["ServiceUnavailableError"] = 503
    BY DEF AppError
  <1> QED
    BY <1>1 DEF toProblemDetails, Unforeseen

LEMMA Failures ==
  /\ Unforeseen("Command timed out")
  /\ Unforeseen("PrismaClientKnownRequestError")
  BY Zenon DEF Unforeseen, AppError, isMalformedJsonBody

LEMMA AnswerOf ==
  ASSUME RequestsOK, NEW r \in Requests, NEW status, Answers(r, status)
  PROVE  req'[r].status = status
  BY DEF RequestsOK, Answers, Goes, Answered

\* One that refused for what it had read has written nothing.
LEMMA RefusedTells ==
  ASSUME RequestsOK, NEW r \in Requests, NEW error \in Refusals, Refuses(r, error),
         rows' = rows, ~HasWritten(r)
  PROVE  Tells(r, req'[r].status)
  <1>1. req'[r].status = toProblemDetails(error)
    BY AnswerOf DEF Refuses
  <1>2. toProblemDetails(error) \in {403, 404, 409, 422}
    BY StatusOf DEF Refusals
  <1>3. \A n \in {403, 404, 409, 422} : ~(n >= 500)
    OBVIOUS
  <1> QED
    BY <1>1, <1>2, <1>3 DEF Tells

LEMMA DoneTells ==
  ASSUME RequestsOK, NEW r \in Requests, NEW status \in {200, 201, 204}, Answers(r, status)
  PROVE  Tells(r, req'[r].status)
  <1>1. req'[r].status = status
    BY AnswerOf
  <1>2. status \notin 400..499 /\ ~(status >= 500)
    OBVIOUS
  <1> QED
    BY <1>1, <1>2 DEF Tells

\* One that failed was overtaken, or the queue or the database was not there.
Excused(r) == faults' > faults \/ r \in overtaken

LEMMA FailedTells ==
  ASSUME RequestsOK, NEW r \in Requests, Excused(r),
         NEW error, Unforeseen(error), Refuses(r, error)
  PROVE  Tells(r, req'[r].status)
  <1>1. req'[r].status \in {500, 503}
    BY AnswerOf, FailureOf DEF Refuses
  <1>2. \A n \in {500, 503} : n \notin 400..499
    OBVIOUS
  <1> QED
    BY <1>1, <1>2 DEF Tells, Excused

\* What is under way and ends by looking is refused.
LEMMA LooksTell ==
  ASSUME RowsOK, RequestsOK, NEW r \in Requests, Looks(r), UnderWay(r), step'[r] = "done"
  PROVE  Tells(r, req'[r].status)
  <1>1. \A s, q : s # "done" => ~Goes(r, s, q) /\ ~To(r, s)
    BY DEF RequestsOK, Goes, To
  <1>2. ~Arrive(r) /\ ~\E i \in DOMAIN invitations : Accept(r, i)
    BY DEF UnderWay, Arrive, Accept, At
  <1>3. \A refusal \in Refusals \cup {"none"} : Found(r, refusal) =>
           \E error \in Refusals : Refuses(r, error)
    BY <1>1 DEF Found, Refusals
  <1> HIDE DEF Found
  <1>4. UpdateRole(r) \/ Remove(r) \/ Leave(r) \/ TransferOwnership(r) =>
           At(r, "reading") /\ \E refusal \in Refusals \cup {"none"} : Found(r, refusal)
    BY DEF UpdateRole, Remove, Leave, TransferOwnership, Refusals, Reads
  <1>5. CheckInvitee(r) => At(r, "reading") /\ \E error \in Refusals : Refuses(r, error)
    BY <1>1 DEF CheckInvitee, Refusals, Reads
  <1>6. FindPending(r) => At(r, "lookup") /\ \E error \in Refusals : Refuses(r, error)
    BY <1>1 DEF FindPending, GoesOn, Refusals
  <1>7. FindToRevoke(r) \/ FindKey(r) =>
           At(r, "reading") /\ \E error \in Refusals : Refuses(r, error)
    BY <1>1 DEF FindToRevoke, FindKey, Refusals, Reads
  <1>8. step[r] \in {"reading", "lookup"} /\ \E error \in Refusals : Refuses(r, error)
    BY <1>2, <1>3, <1>4, <1>5, <1>6, <1>7 DEF Looks, At
  <1>9. rows' = rows
    BY LookingOK DEF Still
  <1>10. ~HasWritten(r)
    BY <1>8 DEF HasWritten, At
  <1> QED
    BY <1>8, <1>9, <1>10, RefusedTells

\* What a request that nobody has overtaken was right to rely on.
LEMMA Undisturbed ==
  ASSUME RequestsOK, NEW r \in Requests, r \notin overtaken
  PROVE  /\ ~RowHasGone(r) /\ ~JoinedAlready(r)
         /\ At(r, "inserting") => PendingFor(req[r].on) = {}
  <1>1. Knows(r) /\ RequestFits(r)
    BY DEF RequestsOK
  <1>2. ASSUME RowHasGone(r)
        PROVE  FALSE
    <2>1. At(r, "writing") /\ req[r].op \in MemberOps
      BY <1>2 DEF RowHasGone, MemberOps
    <2>2. WritesMember(req[r]) /\ req[r].by # Key /\ members[req[r].row].role = req[r].as
      BY <1>1, <2>1 DEF Knows, RequestFits, Accepts, Acceptances, WritesMember, Fits, MemberOps,
                        At
    <2>3. req[r].as # Gone
      BY <2>2 DEF WritesMember, Fits, Roles, Gone
    <2>4. members[req[r].id].role # Gone
      BY <1>1, <2>1 DEF Knows
    <2> QED
      BY <1>2, <2>2, <2>3, <2>4 DEF RowHasGone, StillThere
  <1>3. ~JoinedAlready(r)
    BY <1>1 DEF JoinedAlready, Writes, Knows
  <1>4. At(r, "inserting") => PendingFor(req[r].on) = {}
    BY <1>1 DEF Knows
  <1> QED
    BY <1>2, <1>3, <1>4

LEMMA EndsTell ==
  ASSUME RowsOK, RequestsOK, NEW r \in Requests, Ends(r)
  PROVE  Tells(r, req'[r].status)
  <1>1. CASE List(r)
    BY <1>1, DoneTells DEF List
  <1>2. CASE KeyRefused(r)
    <2>1. \E error \in Refusals : Refuses(r, error)
      BY <1>2 DEF KeyRefused, Refusals
    <2>2. rows' = rows /\ ~HasWritten(r)
      BY <1>2 DEF KeyRefused, Reads, At, HasWritten
    <2> QED
      BY <2>1, <2>2, RefusedTells
  <1>3. CASE RowHasGone(r) \/ JoinedAlready(r)
    <2>1. r \in overtaken
      BY <1>3, Undisturbed
    <2>2. Refuses(r, "PrismaClientKnownRequestError")
      BY <1>3 DEF RowHasGone, JoinedAlready, Fails
    <2>3. Excused(r)
      BY <2>1 DEF Excused
    <2> QED
      BY <2>2, <2>3, FailedTells, Failures
  <1>4. CASE MailInvitation(r)
    BY <1>4, DoneTells DEF MailInvitation
  <1>5. CASE DeleteOrganization(r)
    BY <1>5, DoneTells DEF DeleteOrganization
  <1>6. CASE QueueFails(r) \/ CutShort(r)
    <2>1. faults \in 0..MaxFaults /\ faults' = faults + 1 /\ MaxFaults \in Nat
      BY <1>6, OrganizationConstants DEF RowsOK, QueueFails, CutShort
    <2>2. Excused(r)
      BY <2>1 DEF Excused
    <2>3. \E error : Unforeseen(error) /\ Refuses(r, error)
      BY <1>6, Failures, Zenon DEF QueueFails, CutShort, Fails
    <2> QED
      BY <2>2, <2>3, FailedTells
  <1> QED
    BY <1>1, <1>2, <1>3, <1>4, <1>5, <1>6 DEF Ends

\* Retiring writes, and what is refused after it is so for a deleted organization.
LEMMA RetireTells ==
  ASSUME RowsOK, RequestsOK, organization # "none", NEW r \in Requests, Retire(r),
         step'[r] = "done"
  PROVE  Tells(r, req'[r].status)
  <1>1. ~To(r, "inserting")
    BY DEF RequestsOK, To
  <1>2. organization = "deleted" /\ Refuses(r, "UnprocessableEntityError") /\ At(r, "retiring")
    BY <1>1 DEF Retire, GoesOn, RowsOK
  <1>3. req'[r].status = 422
    <2>1. toProblemDetails("UnprocessableEntityError") = 422
      BY StatusOf DEF Refusals
    <2> QED
      BY <1>2, <2>1, AnswerOf DEF Refuses
  <1>4. ~(422 >= 500)
    OBVIOUS
  <1> QED
    BY <1>2, <1>3, <1>4 DEF Tells

LEMMA WorksTell ==
  ASSUME Inv, NEW r \in Requests, Works(r), UnderWay(r), step'[r] = "done"
  PROVE  Tells(r, req'[r].status)
  <1>1. RowsOK /\ RequestsOK /\ FoundedOnce
    BY DEF Inv
  <1>2. CASE Looks(r)
    BY <1>1, <1>2, LooksTell
  <1>3. CASE Ends(r)
    BY <1>1, <1>3, EndsTell
  <1>4. CASE MemberWrites(r) \/ KeyWrites(r) \/ RevokeInvitation(r) \/ Join(r)
    <2>1. \E status \in {200, 201, 204} : Answers(r, status)
      BY <1>4 DEF MemberWrites, SetRole, DeleteRow, CommitTransfer, KeyWrites, CreateKey,
                  RevokeKey, RevokeInvitation, Join
    <2> QED
      BY <1>1, <2>1, DoneTells
  <1>5. CASE Retire(r)
    <2>1. ~(CutShort(r) /\ At(r, "owning"))
      BY <1>5 DEF Retire, At
    <2>2. organization # "none"
      BY <1>1, <2>1, NothingBefore DEF Unowned
    <2> QED
      BY <1>1, <1>5, <2>2, RetireTells
  <1>6. CASE InsertInvitation(r)
    <2>1. \A q : ~Goes(r, "mailing", q)
      BY <1>1 DEF RequestsOK, Goes
    <2>2. PendingFor(req[r].on) # {} /\ At(r, "inserting")
          /\ Refuses(r, "PrismaClientKnownRequestError")
      BY <1>6, <2>1 DEF InsertInvitation, Fails
    <2>3. r \in overtaken
      BY <1>1, <2>2, Undisturbed
    <2> QED
      BY <1>1, <2>2, <2>3, FailedTells, Failures DEF Excused
  <1> QED
    BY <1>2, <1>3, <1>4, <1>5, <1>6 DEF Works, InvitationWrites

\* shared/errors and the services of members, invitations and keys: the status of an
\* answer tells whether something was written, and a 500 is never the caller's doing.
THEOREM AnswersAreTrue == Spec => AnswersTell
  <1>1. ASSUME Inv, Next, NEW r \in Requests, UnderWay(r), step'[r] = "done"
        PROVE  Tells(r, req'[r].status)
    <2>1. RequestsOK
      BY <1>1 DEF Inv
    <2>2. CASE \E q \in Requests : CreateOrganization(q) \/ AddOwner(q)
      <3>1. PICK q \in Requests : CreateOrganization(q) \/ AddOwner(q)
        BY <2>2
      <3>2. q = r
        BY <1>1, <2>1, <3>1
           DEF RequestsOK, CreateOrganization, AddOwner, Answers, Goes, UnderWay
      <3>3. Answers(r, 201)
        BY <1>1, <3>1, <3>2 DEF CreateOrganization, AddOwner, At, UnderWay
      <3> QED
        BY <2>1, <3>3, DoneTells
    <2>3. CASE \E q \in Requests : Works(q)
      <3>1. PICK q \in Requests : Works(q)
        BY <2>3
      <3>2. q = r
        BY <1>1, <2>1, <3>1, WorkMoves DEF Others, UnderWay
      <3> QED
        BY <1>1, <3>1, <3>2, WorksTell
    <2>4. CASE (\E i \in DOMAIN invitations : Expire(i)) \/ \E k \in DOMAIN keys : ExpireKey(k)
      BY <1>1, <2>4 DEF Expire, ExpireKey, UnderWay
    <2> QED
      BY <1>1, <2>2, <2>3, <2>4, KindsOfSteps
  <1>2. Inv /\ [Next]_vars =>
          [\A r \in Requests : UnderWay(r) /\ step'[r] = "done" => Tells(r, req'[r].status)]_vars
    BY <1>1
  <1> QED
    BY <1>2, InvHolds, PTL DEF Spec, AnswersTell
=============================================================================
