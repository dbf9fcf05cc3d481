----------------------------- MODULE Permissions -----------------------------
(***************************************************************************)
(* The permission matrix of shared/authorization: which role holds which   *)
(* permission, who may manage whom, and which permissions an API key may   *)
(* be given.  Definitions without state, used by the other modules.        *)
(*                                                                         *)
(* A definition marked FAULTY is a wrong version of the next one and used  *)
(* by nothing.                                                             *)
(***************************************************************************)
EXTENDS Naturals

Roles == {"OWNER", "ADMIN", "MEMBER", "VIEWER"}

PERMISSIONS ==
    {"organization:update", "organization:delete",
     "member:list", "member:update-role", "member:remove", "member:leave", "ownership:transfer",
     "invitation:create", "invitation:list", "invitation:revoke",
     "project:create", "project:read", "project:update", "project:delete",
     "task:create", "task:read", "task:assign", "task:update:own", "task:update:any",
     "task:delete:own", "task:delete:any", "task:assign:self",
     "comment:create", "comment:update:own", "comment:delete:own", "comment:delete:any",
     "label:manage", "webhook:manage", "apikey:manage"}

VIEWER_PERMISSIONS == {"member:list", "member:leave", "project:read", "task:read"}

MEMBER_PERMISSIONS ==
    VIEWER_PERMISSIONS \cup {"task:create", "task:update:own", "task:delete:own",
                             "task:assign:self", "comment:create", "comment:update:own",
                             "comment:delete:own"}

OWNER_PERMISSIONS == PERMISSIONS \ {"task:assign:self"}

ADMIN_PERMISSIONS == OWNER_PERMISSIONS \ {"organization:delete", "ownership:transfer"}

ROLE_PERMISSIONS ==
    [OWNER |-> OWNER_PERMISSIONS, ADMIN |-> ADMIN_PERMISSIONS,
     MEMBER |-> MEMBER_PERMISSIONS, VIEWER |-> VIEWER_PERMISSIONS]

roleHasPermission(role, permission) == permission \in ROLE_PERMISSIONS[role]

\* May a member of this role act on a resource, its own or somebody else's?
canActOnResource(role, anyPermission, ownPermission, isOwn) ==
    \/ roleHasPermission(role, anyPermission)
    \/ isOwn /\ roleHasPermission(role, ownPermission)

ROLE_RANK == [OWNER |-> 3, ADMIN |-> 2, MEMBER |-> 1, VIEWER |-> 0]

isRoleAbove(role, other) == ROLE_RANK[role] > ROLE_RANK[other]

\* FAULTY: an equal may be managed too.
canManageEqual(actorRole, targetRole) == ~isRoleAbove(targetRole, actorRole)

\* Whose role one may change, or whom one may remove: the OWNER anybody's,
\* everybody else only those strictly below.
canManageRole(actorRole, targetRole) ==
    actorRole = "OWNER" \/ isRoleAbove(actorRole, targetRole)

\* What one may hand out by invitation: nothing above one's own, never OWNER.
canGrantRole(actorRole, grantedRole) ==
    grantedRole # "OWNER" /\ ~isRoleAbove(grantedRole, actorRole)

-----------------------------------------------------------------------------
(* API keys: scopes of the same vocabulary, from a catalog. *)

API_KEY_READ_SCOPES == {"project:read", "task:read", "member:list"}

\* FAULTY: a key may take back invitations.
API_KEY_WRITE_SCOPES_Inviting ==
    {"project:create", "project:update", "task:create", "task:update:any", "task:assign",
     "comment:create", "label:manage", "invitation:revoke"}

API_KEY_WRITE_SCOPES ==
    {"project:create", "project:update", "task:create", "task:update:any", "task:assign",
     "comment:create", "label:manage"}

isPermissionGrantableToApiKey(permission) ==
    permission \in API_KEY_READ_SCOPES \cup API_KEY_WRITE_SCOPES

-----------------------------------------------------------------------------
(* An actor is a member with a role or an API key with scopes. *)

UserActor(user, role) == [type |-> "user", user |-> user, role |-> role]
KeyActor(key, scopes) == [type |-> "apiKey", key |-> key, scopes |-> scopes]

actorHasPermission(actor, permission) ==
    IF actor.type = "user" THEN roleHasPermission(actor.role, permission)
                           ELSE permission \in actor.scopes

\* The same for any actor; a key owns nothing.
canActorActOnResource(actor, anyPermission, ownPermission, isOwn) ==
    \/ actorHasPermission(actor, anyPermission)
    \/ actor.type = "user" /\ isOwn /\ actorHasPermission(actor, ownPermission)

-----------------------------------------------------------------------------
(* What the docs promise of the matrix. *)

\* The pairs of a wider and a narrower permission for one thing.
Scoped ==
    {<<"task:update:any", "task:update:own">>, <<"task:delete:any", "task:delete:own">>,
     <<"comment:delete:any", "comment:delete:own">>, <<"task:assign", "task:assign:self">>}

\* Whatever a role may do to a thing, its own or not, every role above it may do
\* too, for each of the scoped permissions and each of the plain ones.
RolesAreNested ==
    \A lower, higher \in Roles : isRoleAbove(higher, lower) =>
        /\ \A s \in Scoped, isOwn \in BOOLEAN :
              canActOnResource(lower, s[1], s[2], isOwn)
                => canActOnResource(higher, s[1], s[2], isOwn)
        /\ \A p \in PERMISSIONS \ {s[2] : s \in Scoped} :
              roleHasPermission(lower, p) => roleHasPermission(higher, p)
=============================================================================
