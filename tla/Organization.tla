---------------------------- MODULE Organization ----------------------------
(***************************************************************************)
(* One organization: its members and their roles, its invitations and its  *)
(* API keys.                                                               *)
(*                                                                         *)
(* A request passes requireAuth, requireMembership and requirePermission,  *)
(* which leave the caller's role in the request; its handler reads what it *)
(* is about and then writes by id, whatever has become of it.  Each of     *)
(* these is a step, so requests interleave; a transaction is one step, its *)
(* commit.  An access token names its user for 15 minutes, so any user may *)
(* call at any time.  Requests that are refused by the middlewares change  *)
(* nothing and are left out.                                               *)
(*                                                                         *)
(* A user stands for its e-mail address too, the one invitations are sent  *)
(* to.  Names, slugs, tokens and prefixes are left out.                    *)
(***************************************************************************)
EXTENDS Permissions, Problems, Sequences, FiniteSets

CONSTANTS
    Users,
    Founder,          \* who creates the organization
    Key,              \* stands for the caller of a request made with an API key
    Requests,         \* requests, each made once
    Given,            \* the roles requests ask for
    ScopeSets,        \* the sets of scopes that keys are asked for with
    \* bounds of a run
    MaxInvitations,
    MaxKeys,
    MaxFaults         \* failed commands and requests cut short

ASSUME OrganizationConstants ==
    /\ Founder \in Users /\ Key \notin Users
    /\ Given \subseteq Roles
    /\ ScopeSets \subseteq SUBSET PERMISSIONS
    /\ MaxInvitations \in Nat /\ MaxKeys \in Nat /\ MaxFaults \in Nat

VARIABLES
    organization,   \* "none", "live" or "deleted"
    members,        \* Membership rows, in order of creation; a deleted one has role Gone
    invitations,    \* Invitation rows, in order of creation
    keys,           \* ApiKey rows, in order of creation
    verified,       \* the users with emailVerifiedAt
    mailed,         \* the invitations whose e-mail is in the queue or beyond
    step,           \* where a request is
    req,            \* what it is about, and what it has read; its answer in the end
    faults,
    \* history, read by no action
    overtaken,      \* requests under way when something they had read changed
    stale,          \* what such requests wrote nevertheless
    admitted,       \* how many members an invitation has made
    orphaned        \* the founding was cut short

rows    == <<organization, members, invitations, keys, verified, mailed>>
history == <<overtaken, stale, admitted, orphaned>>
vars == <<rows, step, req, faults, history>>

Gone == "gone"
Steps == {"new", "owning", "reading", "lookup", "retiring", "inserting", "mailing",
          "writing", "done"}
None == [op |-> "none"]
Answered(status) == [op |-> "answered", status |-> status]

\* The permission each route asks for.
OrganizationRoutes == [delete |-> "organization:delete", transfer |-> "ownership:transfer"]
MemberRoutes == [updateRole |-> "member:update-role", remove |-> "member:remove",
                 leave |-> "member:leave", list |-> "member:list"]
InvitationRoutes == [invite |-> "invitation:create", revoke |-> "invitation:revoke"]
ApiKeyRoutes == [createKey |-> "apikey:manage", revokeKey |-> "apikey:manage"]
RoutePermission(op) ==
    CASE op \in DOMAIN OrganizationRoutes -> OrganizationRoutes[op]
      [] op \in DOMAIN MemberRoutes       -> MemberRoutes[op]
      [] op \in DOMAIN InvitationRoutes   -> InvitationRoutes[op]
      [] op \in DOMAIN ApiKeyRoutes       -> ApiKeyRoutes[op]

\* The handlers that call requireUserActor or requireUserId, or need a membership id.
PeopleOnly == {"updateRole", "remove", "leave", "transfer", "invite", "createKey"}

MembershipRow == [user : Users, role : Roles \cup {Gone}]
InvitationRow == [email : Users, role : Roles \ {"OWNER"},
                  accepted : BOOLEAN, revoked : BOOLEAN, expired : BOOLEAN]
ApiKeyRow     == [by : Users, scopes : SUBSET PERMISSIONS, revoked : BOOLEAN, expired : BOOLEAN]

TypeOK ==
    /\ organization \in {"none", "live", "deleted"}
    /\ members \in Seq(MembershipRow)
    /\ invitations \in Seq(InvitationRow)
    /\ keys \in Seq(ApiKeyRow)
    /\ verified \subseteq Users
    /\ mailed \subseteq DOMAIN invitations
    /\ step \in [Requests -> Steps]
    /\ \A r \in Requests : /\ req[r] = None <=> step[r] = "new"
                           /\ req[r].op = "answered" <=> step[r] = "done"
    /\ faults \in 0..MaxFaults
    /\ overtaken \subseteq Requests
    /\ DOMAIN admitted = DOMAIN invitations
    /\ orphaned \in BOOLEAN
    \* the unique indexes
    /\ \A i, j \in DOMAIN members :
          members[i].user = members[j].user /\ Gone \notin {members[i].role, members[j].role} => i = j
    /\ \A i, j \in DOMAIN invitations :
          /\ invitations[i].email = invitations[j].email
          /\ \A k \in {i, j} : ~invitations[k].accepted /\ ~invitations[k].revoked
          => i = j

-----------------------------------------------------------------------------
RowsOf(u) == {i \in DOMAIN members : members[i].user = u /\ members[i].role # Gone}
IsMember(u) == RowsOf(u) # {}
RowOf(u) == CHOOSE i \in RowsOf(u) : TRUE
RoleOf(u) == members[RowOf(u)].role
Owners == {i \in DOMAIN members : members[i].role = "OWNER"}

Pending(i) == ~invitations[i].accepted /\ ~invitations[i].revoked
PendingFor(u) == {i \in DOMAIN invitations : invitations[i].email = u /\ Pending(i)}

At(r, s) == step[r] = s
UnderWay(r) == step[r] \notin {"new", "done"}

To(r, s) == step' = [step EXCEPT ![r] = s] /\ UNCHANGED req
Goes(r, s, what) == step' = [step EXCEPT ![r] = s] /\ req' = [req EXCEPT ![r] = what]
Answers(r, status) == Goes(r, "done", Answered(status))
Refuses(r, error) == Answers(r, toProblemDetails(error))
Fails(r) == Refuses(r, "PrismaClientKnownRequestError")

\* The user a request is about.
Subject(r) ==
    CASE req[r].op \in {"updateRole", "remove", "transfer", "leave", "invite"} -> req[r].on
      [] req[r].op \in {"revoke", "accept"} -> invitations[req[r].id].email
      [] OTHER -> req[r].by

\* The users of whom a request has read something.
HasRead(r) ==
    {req[r].by} \cup (IF At(r, "reading") \/ At(r, "owning") THEN {} ELSE {Subject(r)})

\* History of a write by r that changes what others may have read of the user u.
Wrote(r, u) ==
    /\ overtaken' = overtaken \cup {q \in Requests \ {r} : UnderWay(q) /\ u \cap HasRead(q) # {}}
    /\ stale' = IF r \in overtaken THEN stale \cup {[r |-> r, op |-> req[r].op, on |-> Subject(r)]}
                                   ELSE stale
    /\ UNCHANGED orphaned

-----------------------------------------------------------------------------
(* The organization itself *)

\* POST /organizations: the organization, then its OWNER, without a transaction.
CreateOrganization(r) ==
    /\ At(r, "new") /\ organization = "none"
    /\ organization' = "live"
    /\ Goes(r, "owning", [op |-> "create", by |-> Founder])
    /\ UNCHANGED <<members, invitations, keys, verified, mailed, faults, history>>

AddOwner(r) ==
    /\ At(r, "owning")
    /\ members' = Append(members, [user |-> Founder, role |-> "OWNER"])
    /\ Answers(r, 201)
    /\ UNCHANGED <<organization, invitations, keys, verified, mailed, faults, history>>

\* What requests can be about.
Bodies ==
    LET Body(op, on, id, give, scopes) ==
            [op |-> op, on |-> on, id |-> id, give |-> give, scopes |-> scopes]
    IN   {Body("updateRole", u, 0, g, {}) : u \in Users, g \in Given}
    \cup {Body(op, u, 0, "none", {}) : op \in {"remove", "transfer"}, u \in Users}
    \cup {Body(op, Key, 0, "none", {}) : op \in {"leave", "delete", "list"}}
    \cup {Body("invite", u, 0, g, {}) : u \in Users, g \in Given}
    \cup {Body("revoke", Key, i, "none", {}) : i \in DOMAIN invitations}
    \cup {Body("createKey", Key, 0, "none", s) : s \in ScopeSets}
    \cup {Body("revokeKey", Key, k, "none", {}) : k \in DOMAIN keys}

\* A bound of the run: rows there may still come to be.
Room(op) ==
    LET coming == Cardinality({r \in Requests : UnderWay(r) /\ req[r].op = op}) IN
    CASE op = "invite"    -> Len(invitations) + coming < MaxInvitations
      [] op = "createKey" -> Len(keys) + coming < MaxKeys
      [] OTHER            -> TRUE

\* What the middlewares leave in the request: the caller, its row and its role.
Passes(r, body, by, row, as) ==
    Goes(r, "reading",
         [op |-> body.op, id |-> body.id, give |-> body.give, scopes |-> body.scopes,
          on |-> IF body.op = "leave" THEN by ELSE body.on,
          by |-> by, row |-> row, as |-> as])

\* requireMembership and requirePermission for a user with an access token.
ArriveAsUser(r, u, body) ==
    /\ IsMember(u)
    /\ roleHasPermission(RoleOf(u), RoutePermission(body.op))
    /\ Passes(r, body, u, RowOf(u), RoleOf(u))

\* requireAuth with an API key: authenticate, then its scopes instead of a role.
ArriveWithKey(r, k, body) ==
    /\ ~keys[k].revoked /\ ~keys[k].expired
    /\ RoutePermission(body.op) \in keys[k].scopes
    /\ body.op \notin PeopleOnly
    /\ Passes(r, body, Key, 0, "none")

Arrive(r) ==
    /\ At(r, "new") /\ organization = "live"
    /\ \E body \in {b \in Bodies : Room(b.op)} :
          \/ \E u \in Users : ArriveAsUser(r, u, body)
          \/ \E k \in DOMAIN keys : ArriveWithKey(r, k, body)
    /\ UNCHANGED <<rows, faults, history>>

\* softDelete: members, invitations and keys stay as they are.
DeleteOrganization(r) ==
    /\ At(r, "reading") /\ req[r].op = "delete"
    /\ organization' = "deleted"
    /\ Answers(r, 204)
    /\ UNCHANGED <<members, invitations, keys, verified, mailed, faults, history>>

-----------------------------------------------------------------------------
(* Members *)

\* The handler finds the row it will write to, unless it has a reason to refuse.
Found(r, refusal) ==
    /\ CASE ~IsMember(req[r].on) -> Refuses(r, "NotFoundError")
         [] IsMember(req[r].on) /\ refusal # "none" -> Refuses(r, refusal)
         [] OTHER -> Goes(r, "writing", [req[r] EXCEPT !.id = RowOf(req[r].on)])
    /\ UNCHANGED <<rows, faults, history>>

Reads(r, op) == At(r, "reading") /\ req[r].op = op
Writes(r, op) == At(r, "writing") /\ req[r].op = op

\* assertCanManage, of the role the middleware read and the one just read.
CanManage(r) == canManageRole(req[r].as, RoleOf(req[r].on))

UpdateRole(r) ==
    /\ Reads(r, "updateRole")
    /\ Found(r, IF "OWNER" \in {RoleOf(req[r].on), req[r].give} THEN "ConflictError"
                ELSE IF CanManage(r) THEN "none" ELSE "ForbiddenError")

Remove(r) ==
    /\ Reads(r, "remove")
    /\ Found(r, IF RoleOf(req[r].on) = "OWNER" THEN "ConflictError"
                ELSE IF CanManage(r) THEN "none" ELSE "ForbiddenError")

\* FAULTY: the OWNER may leave like anybody else.
LeaveAnyway(r) ==
    /\ Reads(r, "leave")
    /\ Found(r, "none")

Leave(r) ==
    /\ Reads(r, "leave")
    /\ Found(r, IF RoleOf(req[r].on) = "OWNER" THEN "ConflictError" ELSE "none")

TransferOwnership(r) ==
    /\ Reads(r, "transfer")
    /\ Found(r, IF RoleOf(req[r].on) = "OWNER" THEN "ConflictError" ELSE "none")

\* GET /members, which a key may ask for too.
List(r) ==
    /\ Reads(r, "list")
    /\ Answers(r, 200)
    /\ UNCHANGED <<rows, faults, history>>

\* The rows of ids are still there; update and delete by id throw otherwise.
StillThere(ids) == \A i \in ids : members[i].role # Gone

\* membersRepository.updateRole of updateRole.
SetRole(r) ==
    /\ Writes(r, "updateRole") /\ StillThere({req[r].id})
    /\ members' = [members EXCEPT ![req[r].id].role = req[r].give]
    /\ Wrote(r, {req[r].on})
    /\ Answers(r, 200)
    /\ UNCHANGED <<organization, invitations, keys, verified, mailed, faults, admitted>>

\* membersRepository.remove, of remove and of leave.
DeleteRow(r) ==
    /\ Writes(r, "remove") \/ Writes(r, "leave")
    /\ StillThere({req[r].id})
    /\ members' = [members EXCEPT ![req[r].id].role = Gone]
    /\ Wrote(r, {req[r].on})
    /\ Answers(r, 204)
    /\ UNCHANGED <<organization, invitations, keys, verified, mailed, faults, admitted>>

\* The transaction of transferOwnership: the caller down, the target up.
CommitTransfer(r) ==
    /\ Writes(r, "transfer") /\ StillThere({req[r].row, req[r].id})
    /\ members' = [members EXCEPT ![req[r].row].role = "ADMIN", ![req[r].id].role = "OWNER"]
    /\ Wrote(r, {req[r].by, req[r].on})
    /\ Answers(r, 204)
    /\ UNCHANGED <<organization, invitations, keys, verified, mailed, faults, admitted>>

\* A row written to by id has gone: the statement fails, the transaction rolls back.
RowHasGone(r) ==
    /\ At(r, "writing") /\ req[r].op \in {"updateRole", "remove", "leave", "transfer"}
    /\ ~StillThere(IF req[r].op = "transfer" THEN {req[r].row, req[r].id} ELSE {req[r].id})
    /\ Fails(r)
    /\ UNCHANGED <<rows, faults, history>>

-----------------------------------------------------------------------------
(* Invitations *)

\* FAULTY: the address of a member is invited like any other.
CheckRoleOnly(r) ==
    /\ Reads(r, "invite")
    /\ IF canGrantRole(req[r].as, req[r].give) THEN To(r, "lookup")
                                              ELSE Refuses(r, "ForbiddenError")
    /\ UNCHANGED <<rows, faults, history>>

\* create, up to the look for a member with this address.
CheckInvitee(r) ==
    /\ Reads(r, "invite")
    /\ CASE req[r].give = "OWNER"                    -> Refuses(r, "ConflictError")
         [] req[r].give # "OWNER" /\ ~canGrantRole(req[r].as, req[r].give)
                                                     -> Refuses(r, "ForbiddenError")
         [] canGrantRole(req[r].as, req[r].give) /\ IsMember(req[r].on)
                                                     -> Refuses(r, "ConflictError")
         [] OTHER                                    -> To(r, "lookup")
    /\ UNCHANGED <<rows, faults, history>>

\* Inserting follows when the organization is still there.
GoesOn(r) == IF organization = "live" THEN To(r, "inserting")
                                      ELSE Refuses(r, "UnprocessableEntityError")

\* FAULTY: the index will tell.
FindPendingByIndex(r) ==
    /\ At(r, "lookup")
    /\ GoesOn(r)
    /\ UNCHANGED <<rows, faults, history>>

\* create, the pending invitation: one that has expired is retired.
FindPending(r) ==
    /\ At(r, "lookup")
    /\ IF PendingFor(req[r].on) = {} THEN GoesOn(r)
       ELSE LET i == CHOOSE i \in PendingFor(req[r].on) : TRUE IN
            IF invitations[i].expired
            THEN Goes(r, "retiring", [req[r] EXCEPT !.id = i])
            ELSE Refuses(r, "ConflictError")
    /\ UNCHANGED <<rows, faults, history>>

\* invitationsRepository.revoke, without a condition.
Revoked(i) == [invitations EXCEPT ![i].revoked = TRUE]

Retire(r) ==
    /\ At(r, "retiring")
    /\ invitations' = Revoked(req[r].id)
    /\ Wrote(r, {req[r].on})
    /\ GoesOn(r)
    /\ UNCHANGED <<organization, members, keys, verified, mailed, faults, admitted>>

Invitation(r) == [email |-> req[r].on, role |-> req[r].give,
                  accepted |-> FALSE, revoked |-> FALSE, expired |-> FALSE]

\* FAULTY: without the index, what was looked up before decides.
InsertUnindexed(r) ==
    /\ At(r, "inserting")
    /\ invitations' = Append(invitations, Invitation(r))
    /\ admitted' = Append(admitted, 0)
    /\ Wrote(r, {req[r].on})
    /\ Goes(r, "mailing", [req[r] EXCEPT !.id = Len(invitations) + 1])
    /\ UNCHANGED <<organization, members, keys, verified, mailed, faults>>

\* create, the row; the partial unique index takes one pending row for each address.
InsertInvitation(r) ==
    /\ At(r, "inserting")
    /\ IF PendingFor(req[r].on) # {}
       THEN Fails(r) /\ UNCHANGED <<rows, faults, history>>
       ELSE /\ invitations' = Append(invitations, Invitation(r))
            /\ admitted' = Append(admitted, 0)
            /\ Wrote(r, {req[r].on})
            /\ Goes(r, "mailing", [req[r] EXCEPT !.id = Len(invitations) + 1])
            /\ UNCHANGED <<organization, members, keys, verified, mailed, faults>>

\* create, the e-mail job, after the row is there for good.
MailInvitation(r) ==
    /\ At(r, "mailing")
    /\ mailed' = mailed \cup {req[r].id}
    /\ Answers(r, 201)
    /\ UNCHANGED <<organization, members, invitations, keys, verified, faults, history>>

\* create, when Redis is out of reach or does not answer in time.
QueueFails(r) ==
    /\ At(r, "mailing") /\ faults < MaxFaults
    /\ faults' = faults + 1
    /\ mailed' \in {mailed, mailed \cup {req[r].id}}
    /\ Refuses(r, "Command timed out")
    /\ UNCHANGED <<organization, members, invitations, keys, verified, history>>

\* revoke, up to its checks.
FindToRevoke(r) ==
    /\ Reads(r, "revoke")
    /\ IF Pending(req[r].id) THEN To(r, "writing") ELSE Refuses(r, "NotFoundError")
    /\ UNCHANGED <<rows, faults, history>>

RevokeInvitation(r) ==
    /\ Writes(r, "revoke")
    /\ invitations' = Revoked(req[r].id)
    /\ Wrote(r, {Subject(r)})
    /\ Answers(r, 204)
    /\ UNCHANGED <<organization, members, keys, verified, mailed, faults, admitted>>

\* FAULTY: an invitation is not looked at for having been accepted.
AcceptAgain(r, i) ==
    LET u == invitations[i].email IN
    /\ At(r, "new")
    /\ i \in mailed
    /\ ~invitations[i].revoked /\ ~invitations[i].expired
    /\ ~IsMember(u)
    /\ Goes(r, "writing", [op |-> "accept", id |-> i, by |-> u])
    /\ UNCHANGED <<rows, faults, history>>

\* accept, up to its checks, by the user the link was mailed to.  It is not asked
\* whether the organization is still there.
Accept(r, i) ==
    LET u == invitations[i].email IN
    /\ At(r, "new")
    /\ i \in mailed
    /\ Pending(i) /\ ~invitations[i].expired
    /\ ~IsMember(u)
    /\ Goes(r, "writing", [op |-> "accept", id |-> i, by |-> u])
    /\ UNCHANGED <<rows, faults, history>>

\* accept, the transaction: the membership (one for each user), the mark without a
\* condition, and the address verified.
Join(r) ==
    LET u == req[r].by IN
    /\ Writes(r, "accept") /\ ~IsMember(u)
    /\ members' = Append(members, [user |-> u, role |-> invitations[req[r].id].role])
    /\ invitations' = [invitations EXCEPT ![req[r].id].accepted = TRUE]
    /\ verified' = verified \cup {u}
    /\ admitted' = [admitted EXCEPT ![req[r].id] = @ + 1]
    /\ Wrote(r, {u})
    /\ Answers(r, 204)
    /\ UNCHANGED <<organization, keys, mailed, faults>>

\* The unique index refuses a second membership, and the transaction rolls back.
JoinedAlready(r) ==
    /\ Writes(r, "accept") /\ IsMember(req[r].by)
    /\ Fails(r)
    /\ UNCHANGED <<rows, faults, history>>

-----------------------------------------------------------------------------
(* API keys *)

\* apiKeysRepository.create.
NewKey(r) == [by |-> req[r].by, scopes |-> req[r].scopes, revoked |-> FALSE, expired |-> FALSE]

\* create: the creator must hold every scope, and the catalog must have it.
CreateKey(r) ==
    /\ Reads(r, "createKey")
    /\ \A p \in req[r].scopes :
          /\ actorHasPermission(UserActor(req[r].by, req[r].as), p)
          /\ isPermissionGrantableToApiKey(p)
    /\ keys' = Append(keys, NewKey(r))
    /\ Answers(r, 201)
    /\ UNCHANGED <<organization, members, invitations, verified, mailed, faults, history>>

\* Which of the two it is depends on whether the creator lacks a scope.
KeyRefused(r) ==
    /\ Reads(r, "createKey")
    /\ LET lacking == {p \in req[r].scopes : ~actorHasPermission(UserActor(req[r].by, req[r].as), p)}
           foreign == {p \in req[r].scopes : ~isPermissionGrantableToApiKey(p)}
       IN /\ lacking \cup foreign # {}
          /\ Refuses(r, IF lacking # {} THEN "ForbiddenError" ELSE "UnprocessableEntityError")
    /\ UNCHANGED <<rows, faults, history>>

\* revoke of a key, up to its checks.
FindKey(r) ==
    /\ Reads(r, "revokeKey")
    /\ IF keys[req[r].id].revoked THEN Refuses(r, "NotFoundError") ELSE To(r, "writing")
    /\ UNCHANGED <<rows, faults, history>>

RevokeKey(r) ==
    /\ Writes(r, "revokeKey")
    /\ keys' = [keys EXCEPT ![req[r].id].revoked = TRUE]
    /\ Answers(r, 204)
    /\ UNCHANGED <<organization, members, invitations, verified, mailed, faults, history>>

-----------------------------------------------------------------------------
(* Time and faults *)

Expire(i) ==
    /\ Pending(i) /\ ~invitations[i].expired
    /\ invitations' = [invitations EXCEPT ![i].expired = TRUE]
    /\ UNCHANGED <<organization, members, keys, verified, mailed, step, req, faults, history>>

\* A key was made with an expiry that is over.
ExpireKey(k) ==
    /\ ~keys[k].revoked /\ ~keys[k].expired
    /\ keys' = [keys EXCEPT ![k].expired = TRUE]
    /\ UNCHANGED <<organization, members, invitations, verified, mailed, step, req, faults, history>>

\* A statement fails, or the process dies between two of them and its client hears of
\* nothing, which counts as 500 here.
CutShort(r) ==
    /\ UnderWay(r) /\ faults < MaxFaults
    /\ faults' = faults + 1
    /\ orphaned' = (orphaned \/ At(r, "owning"))
    /\ Fails(r)
    /\ UNCHANGED <<rows, overtaken, stale, admitted>>

\* None yet, or one as registration and the acceptance of a colleague leave it, with
\* a guest who is invited or has joined.
Init ==
    /\ \/ /\ organization = "none"
          /\ members = <<>> /\ invitations = <<>> /\ verified = {} /\ mailed = {}
          /\ admitted = <<>>
       \/ \E colleague \in Users \ {Founder}, joined \in BOOLEAN :
          \E guest \in Users \ {Founder, colleague} :
          /\ organization = "live"
          /\ members = <<[user |-> Founder, role |-> "OWNER"],
                         [user |-> colleague, role |-> "ADMIN"]>>
                       \o IF joined THEN <<[user |-> guest, role |-> "MEMBER"]>> ELSE <<>>
          /\ invitations = <<[email |-> guest, role |-> "MEMBER",
                              accepted |-> joined, revoked |-> FALSE, expired |-> FALSE]>>
          /\ verified = {colleague} \cup (IF joined THEN {guest} ELSE {})
          /\ mailed = {1}
          /\ admitted = <<IF joined THEN 1 ELSE 0>>
    /\ keys = <<>>
    /\ step = [r \in Requests |-> "new"] /\ req = [r \in Requests |-> None]
    /\ faults = 0
    /\ overtaken = {} /\ stale = {} /\ orphaned = FALSE

MemberStep(r) ==
    \/ UpdateRole(r) \/ SetRole(r) \/ Remove(r) \/ Leave(r) \/ DeleteRow(r)
    \/ TransferOwnership(r) \/ CommitTransfer(r) \/ RowHasGone(r) \/ List(r)

InvitationStep(r) ==
    \/ CheckInvitee(r) \/ FindPending(r) \/ Retire(r) \/ InsertInvitation(r)
    \/ MailInvitation(r) \/ QueueFails(r)
    \/ FindToRevoke(r) \/ RevokeInvitation(r)
    \/ \E i \in DOMAIN invitations : Accept(r, i)
    \/ Join(r) \/ JoinedAlready(r)

KeyStep(r) == CreateKey(r) \/ KeyRefused(r) \/ FindKey(r) \/ RevokeKey(r)

Next ==
    \/ \E r \in Requests :
          \/ CreateOrganization(r) \/ AddOwner(r) \/ Arrive(r) \/ DeleteOrganization(r)
          \/ MemberStep(r) \/ InvitationStep(r) \/ KeyStep(r)
          \/ CutShort(r)
    \/ \E i \in DOMAIN invitations : Expire(i)
    \/ \E k \in DOMAIN keys : ExpireKey(k)

Spec == Init /\ [][Next]_vars

-----------------------------------------------------------------------------
(* Properties *)

StaleWrites(ops, u) == {s \in stale : s.op \in ops /\ s.on = u}

\* members.service.ts:38: exactly one OWNER per organization.  It holds but for
\* writes resting on what another request has changed since it was read: each such
\* transfer may add an OWNER, and each such removal, departure or role change may
\* take one away; a founding that was cut short leaves an organization nobody owns.
SoleOwner ==
    organization # "none" /\ ~orphaned /\ (\A r \in Requests : ~At(r, "owning")) =>
        LET owners == Cardinality(Owners) IN
        /\ owners <= 1 + Cardinality({s \in stale : s.op = "transfer"})
        /\ owners >= 1 - Cardinality({s \in stale : s.op \in {"updateRole", "remove", "leave"}})

\* The one who writes may manage the other, and give what it gives.
FromAbove(r) ==
    LET mine   == RoleOf(req[r].by)
        theirs == RoleOf(req[r].on)
    IN /\ IsMember(req[r].by) /\ IsMember(req[r].on)
       /\ roleHasPermission(mine, RoutePermission(req[r].op))
       /\ req[r].op # "transfer" =>
             /\ theirs # "OWNER"
             /\ mine # "OWNER" => ROLE_RANK[theirs] < ROLE_RANK[mine]
             /\ \A i \in DOMAIN members : members'[i].role \notin {members[i].role, Gone} =>
                   ROLE_RANK[members'[i].role] <= ROLE_RANK[mine]

ChangesMembers(r) ==
    /\ At(r, "writing") /\ req[r].op \in {"updateRole", "remove", "transfer"}
    /\ step'[r] = "done" /\ members' # members

\* adr/0005: ranks, not only permissions, say who manages whom.  Whoever changes a
\* role or removes somebody stands above that member and holds the permission at the
\* moment of the write, and gives nothing above its own role; but for requests
\* under way while one of the two was changed.
ChangesFromAbove ==
    [][\A r \in Requests \ overtaken : ChangesMembers(r) => FromAbove(r)]_vars

\* One invitation lets one person in once, and not after it was revoked; more, or
\* later, only by acceptances past their check when somebody else wrote.  (Such an
\* acceptance lets in again a member who was removed since.)
AdmittedOnce ==
    \A i \in DOMAIN invitations :
        LET u == invitations[i].email IN
        /\ admitted[i] <= 1 + Cardinality(StaleWrites({"accept"}, u))
        /\ invitations[i].accepted /\ invitations[i].revoked
             => StaleWrites({"accept", "revoke", "invite"}, u) # {}
        /\ admitted[i] > 0 => u \in verified

\* A pending invitation is for somebody who is not a member, but where an
\* acceptance and another invitation overlapped; and somebody was mailed it, but
\* where its request ends early, which leaves an invitation that blocks the next.
PendingInvitations ==
    \A i \in DOMAIN invitations : Pending(i) =>
        /\ IsMember(invitations[i].email)
             => StaleWrites({"accept", "invite"}, invitations[i].email) # {}
        /\ i \notin mailed => \/ faults > 0
                              \/ \E r \in Requests : At(r, "mailing") /\ req[r].id = i

\* api-key-scopes.ts:22: a key manages neither people nor keys, whatever scopes were
\* asked for it and by whom; three of the handlers rely on the catalog for it.
KeysAdministerNothing ==
    \A r \in Requests : UnderWay(r) /\ req[r].by = Key => req[r].op = "list"

\* A statement of the request has been committed already.
HasWritten(r) ==
    At(r, "owning") \/ At(r, "mailing") \/ (At(r, "inserting") /\ req[r].id # 0)

Tells(r, status) ==
    /\ status \in 400..499 => \/ ~HasWritten(r) /\ rows' = rows
                              \/ At(r, "retiring") /\ organization = "deleted"
    /\ status >= 500 => faults' > faults \/ r \in overtaken

\* A refusal (4xx) tells that nothing was changed, by no step of the request, but where an
\* expired invitation was retired for an organization that has just been deleted.  And
\* nobody is answered 500 for what they asked alone: either a command failed or another
\* request has changed what this one had read, and the database refused the write.
AnswersTell ==
    [][\A r \in Requests : UnderWay(r) /\ step'[r] = "done" => Tells(r, req'[r].status)]_vars

\* adr/0005: an organization always has exactly one OWNER.
ExactlyOneOwner == organization = "live" /\ members # <<>> => Cardinality(Owners) = 1
=============================================================================
