------------------------------- MODULE Access -------------------------------
(***************************************************************************)
(* Roles, permissions and the access tokens that carry them: RbacService's *)
(* grant, revoke, assign and unassign transactions, the permission         *)
(* snapshot AuthService.buildResponse puts into a token, and the guards    *)
(* that accept it.                                                         *)
(*                                                                         *)
(* Transactions run READ COMMITTED: a statement sees what is committed and *)
(* what its own transaction wrote, and holds the users rows it updated     *)
(* until the end.  A transaction's writes become visible at its commit.    *)
(***************************************************************************)
EXTENDS Naturals, FiniteSets

CONSTANTS
    Operator,       \* users, all ACTIVE
    Role,
    Permission,
    ManageGrants,   \* permissions.manage
    ManageUsers,    \* users.manage
    RbacRequest,    \* administration requests in flight
    SeedRoles,      \* user_roles at the start
    SeedGrants,     \* role_permissions at the start
    VersionBound    \* bound on permissionVersion

ASSUME AccessAssumption ==
    /\ ManageGrants \in Permission /\ ManageUsers \in Permission
    /\ SeedRoles \subseteq Operator \X Role
    /\ SeedGrants \subseteq Role \X Permission
    /\ VersionBound \in Nat

\* The seed gives somebody each of the two administration permissions.
ASSUME SeedAssumption ==
    \A c \in {ManageGrants, ManageUsers} :
        \E u \in Operator, r \in Role : <<u, r>> \in SeedRoles /\ <<r, c>> \in SeedGrants

VARIABLES
    userRoles,   \* user_roles
    roleGrants,  \* role_permissions
    version,     \* operator -> users.permission_version
    token,       \* operator -> the access token it holds
    build,       \* operator -> buildResponse in progress
    rbac,        \* request -> the administration transaction
    skewed       \* observer: a revoke committed beside another one that has counted

accessVars == <<userRoles, roleGrants, version, token, build, rbac, skewed>>

-----------------------------------------------------------------------------
Op == [kind : {"grant", "revoke"}, role : Role, perm : Permission]
        \cup [kind : {"assign", "unassign"}, role : Role, user : Operator]

\* The field raced is an observer: a change slipped past this snapshot.
Snapshot == [perms : SUBSET Permission, pv : Nat, raced : BOOLEAN]

Building == [at : {"roles", "grants", "version"}, roles : SUBSET Role,
             perms : SUBSET Permission, raced : BOOLEAN]
NoBuild == [at |-> "none"]

\* late is an observer: operators who gained the role after this transaction
\* had picked whom to bump.
Tx == [at : {"read", "write", "count", "countUsers", "bump", "commit"}, op : Op,
       actor : SUBSET Permission, bumped : SUBSET Operator, late : SUBSET Operator]
NoTx == [at |-> "idle"]

AccessTypeOK ==
    /\ userRoles \subseteq Operator \X Role
    /\ roleGrants \subseteq Role \X Permission
    /\ version \in [Operator -> Nat]
    /\ token \in [Operator -> Snapshot]
    /\ build \in [Operator -> Building \cup {NoBuild}]
    /\ rbac \in [RbacRequest -> Tx \cup {NoTx}]
    /\ skewed \in BOOLEAN

\* CRITICAL_ADMIN_PERMISSIONS
Critical == {ManageGrants, ManageUsers}

RolesOf(roles, u) == {r \in Role : <<u, r>> \in roles}
PermsOf(grants, rs) == {c \in Permission : \E r \in rs : <<r, c>> \in grants}

\* resolvePermissions on one snapshot of the tables.
Effective(roles, grants, u) == PermsOf(grants, RolesOf(roles, u))

Holders(roles, grants, c) == {u \in Operator : c \in Effective(roles, grants, u)}

AccessInit ==
    /\ userRoles = SeedRoles
    /\ roleGrants = SeedGrants
    /\ version = [u \in Operator |-> 0]
    /\ token = [u \in Operator |-> [perms |-> Effective(SeedRoles, SeedGrants, u), pv |-> 0,
                                 raced |-> FALSE]]
    /\ build = [u \in Operator |-> NoBuild]
    /\ rbac = [p \in RbacRequest |-> NoTx]
    /\ skewed = FALSE

-----------------------------------------------------------------------------
\* Building a token: three reads of committed data, in this order.

BeginBuild(u) ==
    /\ build[u] = NoBuild
    /\ build' = [build EXCEPT ![u] = [at |-> "roles", roles |-> {}, perms |-> {},
                                      raced |-> FALSE]]
    /\ UNCHANGED <<userRoles, roleGrants, version, token, rbac, skewed>>

\* resolvePermissions: one SELECT for user_roles, one for role_permissions.
ReadRoles(u) ==
    /\ build[u].at = "roles"
    /\ build' = [build EXCEPT ![u].at = "grants", ![u].roles = RolesOf(userRoles, u)]
    /\ UNCHANGED <<userRoles, roleGrants, version, token, rbac, skewed>>

ReadGrants(u) ==
    /\ build[u].at = "grants"
    /\ build' = [build EXCEPT ![u].at = "version",
                              ![u].perms = PermsOf(roleGrants, build[u].roles)]
    /\ UNCHANGED <<userRoles, roleGrants, version, token, rbac, skewed>>

\* permissionVersion is read last and signed together with the permissions.
SignToken(u) ==
    /\ build[u].at = "version"
    /\ token' = [token EXCEPT ![u] = [perms |-> build[u].perms, pv |-> version[u],
                                      raced |-> build[u].raced]]
    /\ build' = [build EXCEPT ![u] = NoBuild]
    /\ UNCHANGED <<userRoles, roleGrants, version, rbac, skewed>>

-----------------------------------------------------------------------------
\* Mutant: the guard trusts the token until it expires.
TrustToken(u) == TRUE

\* PermissionsGuard: the token was minted at the present version.
VersionCurrent(u) == token[u].pv = version[u]

\* @RequirePermissions of the four routes.
Required(op) == IF op.kind \in {"grant", "revoke"} THEN ManageGrants ELSE ManageUsers

\* JwtAuthGuard and PermissionsGuard let the request of operator a in.
Administer(p, a, op) ==
    /\ rbac[p] = NoTx
    /\ \A u \in Operator : version[u] < VersionBound
    /\ VersionCurrent(a)
    /\ Required(op) \in token[a].perms
    /\ rbac' = [rbac EXCEPT ![p] = [at |-> "read", op |-> op, actor |-> token[a].perms,
                                    bumped |-> {}, late |-> {}]]
    /\ UNCHANGED <<userRoles, roleGrants, version, token, build, skewed>>

Held(p) == rbac[p].actor

\* The self-escalation guard, on the token's permissions: a DENIED audit row, 403.
MayGrant(p) ==
    LET op == rbac[p].op IN
    CASE op.kind = "grant" -> op.perm \in Held(p)
      [] op.kind = "assign" -> PermsOf(roleGrants, {op.role}) \subseteq Held(p)
      [] OTHER -> TRUE

CheckEscalation(p) ==
    /\ rbac[p].at = "read"
    /\ rbac' = [rbac EXCEPT ![p] = IF MayGrant(p) THEN [@ EXCEPT !.at = "write"] ELSE NoTx]
    /\ UNCHANGED <<userRoles, roleGrants, version, token, build, skewed>>

Undoes(p) == rbac[p].op.kind \in {"revoke", "unassign"}
Wrote(p) == rbac[p].at \in {"count", "countUsers", "bump", "commit"}

\* Two transactions that write the same row: the second waits for the first.
SameRow(p, q) ==
    /\ Wrote(q)
    /\ rbac[p].op.role = rbac[q].op.role
    /\ \/ /\ {rbac[p].op.kind, rbac[q].op.kind} \subseteq {"grant", "revoke"}
          /\ rbac[p].op.perm = rbac[q].op.perm
       \/ /\ {rbac[p].op.kind, rbac[q].op.kind} \subseteq {"assign", "unassign"}
          /\ rbac[p].op.user = rbac[q].op.user

\* The upsert or deleteMany of the transaction.
WriteRow(p) ==
    /\ rbac[p].at = "write"
    /\ \A q \in RbacRequest \ {p} : rbac[q] # NoTx => ~SameRow(p, q)
    /\ rbac' = [rbac EXCEPT ![p].at = IF Undoes(p) THEN "count" ELSE "bump"]
    /\ UNCHANGED <<userRoles, roleGrants, version, token, build, skewed>>

\* The tables as transaction p sees them: committed rows and its own write.
RolesSeen(p) ==
    LET op == rbac[p].op IN
    CASE op.kind = "assign" -> userRoles \cup {<<op.user, op.role>>}
      [] op.kind = "unassign" -> userRoles \ {<<op.user, op.role>>}
      [] OTHER -> userRoles

GrantsSeen(p) ==
    LET op == rbac[p].op IN
    CASE op.kind = "grant" -> roleGrants \cup {<<op.role, op.perm>>}
      [] op.kind = "revoke" -> roleGrants \ {<<op.role, op.perm>>}
      [] OTHER -> roleGrants

\* Mutant: the holders are counted as they were before the delete.
HoldersBefore(p, c) == Holders(userRoles, roleGrants, c)

HoldersSeen(p, c) == Holders(RolesSeen(p), GrantsSeen(p), c)

\* assertAdminSurvives, a COUNT for each of the critical permissions: nobody left rolls
\* the revoke back, with a DENIED audit row.
CountHolders(p, c, next) ==
    /\ rbac' = [rbac EXCEPT ![p] = IF HoldersSeen(p, c) = {} THEN NoTx
                                   ELSE [@ EXCEPT !.at = next]]
    /\ UNCHANGED <<userRoles, roleGrants, version, token, build, skewed>>

AssertAdminSurvives(p) ==
    \/ rbac[p].at = "count" /\ CountHolders(p, ManageGrants, "countUsers")
    \/ rbac[p].at = "countUsers" /\ CountHolders(p, ManageUsers, "bump")

\* The users whose permissionVersion is incremented.
Affected(p) ==
    IF rbac[p].op.kind \in {"assign", "unassign"}
    THEN {rbac[p].op.user}
    ELSE {u \in Operator : <<u, rbac[p].op.role>> \in userRoles}

\* The UPDATE of users waits for rows another transaction has updated.
BumpVersions(p) ==
    /\ rbac[p].at = "bump"
    /\ \A q \in RbacRequest \ {p} :
           rbac[q].at = "commit" => rbac[q].bumped \cap Affected(p) = {}
    /\ rbac' = [rbac EXCEPT ![p].at = "commit", ![p].bumped = Affected(p)]
    /\ UNCHANGED <<userRoles, roleGrants, version, token, build, skewed>>

Changed(p) == {u \in Operator : Effective(RolesSeen(p), GrantsSeen(p), u)
                                   # Effective(userRoles, roleGrants, u)}

\* Transaction q has picked the holders of a role to bump and p adds a holder.
OvertakenBy(q, p) ==
    /\ rbac[q].at = "commit"
    /\ rbac[q].op.kind \in {"grant", "revoke"}
    /\ rbac[p].op.kind = "assign"
    /\ rbac[q].op.role = rbac[p].op.role

\* A change slips past the token being built for u: its roles were read before
\* the change of them, or its permissions before the change of those.
SlipsPast(p, u) ==
    \/ build[u].at = "grants" /\ RolesOf(RolesSeen(p), u) # RolesOf(userRoles, u)
    \/ build[u].at = "version" /\ u \in Changed(p)

\* Audit append and COMMIT.  The observers note the two windows a change can slip
\* through: a token being built while what it has already read changes, and a
\* holder gained after a change of the role has picked whom to bump.
CommitRbac(p) ==
    /\ rbac[p].at = "commit"
    /\ userRoles' = RolesSeen(p)
    /\ roleGrants' = GrantsSeen(p)
    /\ version' = [u \in Operator |-> version[u] + (IF u \in rbac[p].bumped THEN 1 ELSE 0)]
    /\ build' = [u \in Operator |-> IF SlipsPast(p, u) THEN [build[u] EXCEPT !.raced = TRUE]
                                                    ELSE build[u]]
    /\ token' = [u \in Operator |-> [token[u] EXCEPT !.raced = @ \/ u \in rbac[p].late]]
    /\ skewed' = (skewed \/ /\ Undoes(p)
                            /\ \E q \in RbacRequest \ {p} :
                                 rbac[q].at \in {"countUsers", "bump", "commit"} /\ Undoes(q))
    /\ rbac' = [q \in RbacRequest |->
                  CASE q = p -> NoTx
                    [] q # p /\ OvertakenBy(q, p) ->
                         [rbac[q] EXCEPT !.late = @ \cup {rbac[p].op.user}]
                    [] OTHER -> rbac[q]]

\* The transaction fails or its process dies: everything it wrote is undone.
AbortRbac(p) ==
    /\ rbac[p] # NoTx
    /\ rbac' = [rbac EXCEPT ![p] = NoTx]
    /\ UNCHANGED <<userRoles, roleGrants, version, token, build, skewed>>

AccessNext ==
    \/ \E u \in Operator : BeginBuild(u) \/ ReadRoles(u) \/ ReadGrants(u) \/ SignToken(u)
    \/ \E p \in RbacRequest :
         \/ \E a \in Operator, op \in Op : Administer(p, a, op)
         \/ CheckEscalation(p) \/ WriteRow(p) \/ AssertAdminSurvives(p)
         \/ BumpVersions(p) \/ CommitRbac(p) \/ AbortRbac(p)

AccessSpec == AccessInit /\ [][AccessNext]_accessVars

-----------------------------------------------------------------------------
\* PermissionsGuard: a token it accepts carries the operator's present
\* permissions, except where a change fell into one of the two windows.
AcceptedTokensCurrent ==
    \A u \in Operator :
        VersionCurrent(u) /\ ~token[u].raced =>
            token[u].perms = Effective(userRoles, roleGrants, u)

\* assertAdminSurvives keeps a holder of every critical permission as long as no
\* two revokes commit beside each other.
AdminSurvivesAlone ==
    ~skewed => \A c \in Critical : Holders(userRoles, roleGrants, c) # {}

\* What RbacService says of F11: a revoke never removes the last holder.
AdminSurvives == \A c \in Critical : Holders(userRoles, roleGrants, c) # {}
=============================================================================
