--------------------------- MODULE IdentityProofs ---------------------------
(***************************************************************************)
(* Proofs about Login for any number of concurrent login requests, any     *)
(* limit and any length of the lock, about Access for any operators,       *)
(* roles, permissions, seeds and concurrent administration requests, and   *)
(* about the second factor and password resets for any number of           *)
(* concurrent requests, challenges, codes and reset requests.              *)
(***************************************************************************)
EXTENDS Identity, AuditChainProofs, TLAPS

-----------------------------------------------------------------------------
(* Login *)

\* The writer of a lock that is still due: the increment it saw is the last one.
DueWriter(p) ==
    /\ loginPc[p] = "lock"
    /\ loginSeen[p].failed = account.failed
    /\ loginSeen[p].lockedUntil = 0

\* Once the counter has reached the limit there is a lock, or the request of the
\* last increment is about to write it, or it died.
LockDue ==
    account.failed >= MaxFailedLogins /\ account.lockedUntil = 0 /\ ~lost =>
        \E p \in LoginRequest : DueWriter(p)

\* What one request may rely on.
LoginHandlerInv(p) ==
    /\ loginPc[p] = "lock" => loginSeen[p].failed >= MaxFailedLogins
    /\ loginPc[p] # "replied" => loginReply[p] = "none"
    /\ loginPc[p] # "idle" /\ ~account.mfa => mfaOff[p]
    /\ loginPc[p] \in {"reset", "decide"} /\ ~loginSeen[p].mfa => mfaOff[p]
    /\ loginReply[p] = "session" => loginAsk[p].device = "own" \/ mfaOff[p]

\* The inductive invariant of login.
LoginInv ==
    /\ LoginTypeOK
    /\ account.failed = failures
    /\ LockIsEarned
    /\ LockDue
    /\ \A p \in LoginRequest : LoginHandlerInv(p)

\* Nobody has logged in yet.
LEMMA LoginInitInv == LoginInit => LoginInv
<1> SUFFICES ASSUME LoginInit PROVE LoginInv
    OBVIOUS
<1> USE LoginAssumption DEF LoginInit, FreshAccount
<1>1. LoginTypeOK
    BY DEF LoginTypeOK, Account, NoSubmission, Submission, LoginPcs, LoginReplies
<1>2. account.failed = failures /\ LockIsEarned /\ LockDue
    BY DEF LockIsEarned, LockDue
<1>3. ASSUME NEW p \in LoginRequest PROVE LoginHandlerInv(p)
    BY DEF LoginHandlerInv
<1> QED
    BY <1>1, <1>2, <1>3 DEF LoginInv

LEMMA LoginTypeStep == LoginInv /\ LoginNext => LoginTypeOK'
<1> SUFFICES ASSUME LoginTypeOK, LoginNext PROVE LoginTypeOK'
    BY DEF LoginInv
<1> USE DEF LoginTypeOK, Account, LoginPcs, LoginReplies, LoginGoto, LoginAnswer
<1>1. ASSUME NEW p \in LoginRequest, NEW s \in Submission, SubmitLogin(p, s)
      PROVE  LoginTypeOK'
    BY <1>1 DEF SubmitLogin
<1>2. ASSUME NEW p \in LoginRequest, FindUser(p) PROVE LoginTypeOK'
    BY <1>2 DEF FindUser
<1>3. ASSUME NEW p \in LoginRequest, CountFailure(p) PROVE LoginTypeOK'
  <2>1. [account EXCEPT !.failed = account.failed + 1] \in Account
      BY DEF Account
  <2>2. account' \in Account /\ loginSeen' \in [LoginRequest -> Account] /\ failures' \in Nat
      BY <1>3, <2>1 DEF CountFailure, NextCount
  <2>3. loginPc' \in [LoginRequest -> LoginPcs] /\ loginReply' \in [LoginRequest -> LoginReplies]
      BY <1>3 DEF CountFailure
  <2> QED
      BY <1>3, <2>2, <2>3 DEF CountFailure
<1>4. ASSUME NEW p \in LoginRequest, LockAccount(p) PROVE LoginTypeOK'
    BY <1>4, LoginAssumption DEF LockAccount
<1>5. ASSUME NEW p \in LoginRequest, ResetCounter(p) PROVE LoginTypeOK'
    BY <1>5 DEF ResetCounter
<1>6. ASSUME NEW p \in LoginRequest, DecideSecondFactor(p) PROVE LoginTypeOK'
    BY <1>6 DEF DecideSecondFactor
<1>7. ASSUME NEW p \in LoginRequest, LoginDeliver(p) PROVE LoginTypeOK'
    BY <1>7 DEF LoginDeliver, NoSubmission, Submission, FreshAccount
<1>8. ASSUME NEW p \in LoginRequest, LoginCrash(p) PROVE LoginTypeOK'
    BY <1>8 DEF LoginCrash, NoSubmission, Submission, FreshAccount
<1>9. CASE ToggleMfa
    BY <1>9 DEF ToggleMfa
<1>10. CASE LoginTick
    BY <1>10 DEF LoginTick
<1> QED
    BY <1>1, <1>2, <1>3, <1>4, <1>5, <1>6, <1>7, <1>8, <1>9, <1>10
    DEF LoginNext, LoginStep

\* A step that leaves the row, the counters and the other requests alone keeps
\* their invariants.
LEMMA LoginOther ==
    ASSUME LoginInv, NEW p \in LoginRequest, NEW q \in LoginRequest, p # q,
           loginPc'[q] = loginPc[q], loginReply'[q] = loginReply[q],
           loginSeen'[q] = loginSeen[q], loginAsk'[q] = loginAsk[q], mfaOff'[q] = mfaOff[q],
           account'.mfa = account.mfa
    PROVE  LoginHandlerInv(q)'
  BY DEF LoginInv, LoginHandlerInv

\* An unchanged row whose due writer, if any, has not moved.
LEMMA LockKept ==
    ASSUME LoginInv, UNCHANGED <<account, failures>>, lost' = FALSE => lost = FALSE,
           \A q \in LoginRequest : DueWriter(q) /\ lost' = FALSE => DueWriter(q)'
    PROVE  (account.failed = failures /\ LockIsEarned /\ LockDue)'
  BY DEF LoginInv, LoginTypeOK, LockIsEarned, LockDue

\* Every step of a login, of a crash, of an enrolment or of the clock keeps the
\* invariant.
LEMMA LoginStepInv == LoginInv /\ LoginNext => LoginInv'
<1> SUFFICES ASSUME LoginInv, LoginNext PROVE LoginInv'
    OBVIOUS
<1>0. LoginTypeOK /\ LoginTypeOK'
    BY LoginTypeStep DEF LoginInv
<1> DEFINE Rest == (account.failed = failures /\ LockIsEarned /\ LockDue)'
<1> DEFINE Handlers == \A q \in LoginRequest : LoginHandlerInv(q)'
<1> SUFFICES Rest /\ Handlers
    BY <1>0 DEF LoginInv
<1> USE DEF LoginGoto, LoginAnswer
<1>1. ASSUME NEW p \in LoginRequest, NEW s \in Submission, SubmitLogin(p, s)
      PROVE  Rest /\ Handlers
  <2>1. Rest
      BY <1>0, <1>1, LockKept DEF SubmitLogin, DueWriter, LoginTypeOK
  <2>2. LoginHandlerInv(p)'
      BY <1>0, <1>1 DEF SubmitLogin, LoginTypeOK, LoginInv, LoginHandlerInv
  <2>3. ASSUME NEW q \in LoginRequest, q # p PROVE LoginHandlerInv(q)'
      BY <1>0, <1>1, <2>3, LoginOther DEF SubmitLogin, LoginTypeOK
  <2> QED
      BY <2>1, <2>2, <2>3
<1>2. ASSUME NEW p \in LoginRequest, FindUser(p) PROVE Rest /\ Handlers
  <2>1. Rest
      BY <1>0, <1>2, LockKept DEF FindUser, DueWriter, LoginTypeOK
  <2>2. LoginHandlerInv(p)'
      BY <1>0, <1>2 DEF FindUser, LoginTypeOK, LoginInv, LoginHandlerInv
  <2>3. ASSUME NEW q \in LoginRequest, q # p PROVE LoginHandlerInv(q)'
      BY <1>0, <1>2, <2>3, LoginOther DEF FindUser, LoginTypeOK
  <2> QED
      BY <2>1, <2>2, <2>3
<1>3. ASSUME NEW p \in LoginRequest, CountFailure(p) PROVE Rest /\ Handlers
  <2>0. /\ account'.failed = account.failed + 1 /\ account'.mfa = account.mfa
        /\ account'.lockedUntil = account.lockedUntil
        /\ loginSeen'[p] = account'
        /\ account.failed \in Nat /\ account.lockedUntil \in Nat /\ loginNow \in Nat
        /\ failures' = failures + 1 /\ account.failed = failures
      BY <1>0, <1>3 DEF CountFailure, NextCount, LoginTypeOK, Account, LoginInv
  <2>1. (account.failed = failures)' /\ LockIsEarned'
      BY <2>0, LoginAssumption DEF LockIsEarned, LoginInv
  <2>2. LockDue'
    <3>1. SUFFICES ASSUME account'.failed >= MaxFailedLogins, account'.lockedUntil = 0
                   PROVE  DueWriter(p)'
        BY DEF LockDue
    <3>2. loginPc'[p] = "lock"
        BY <1>0, <1>3, <2>0, <3>1, LoginAssumption
        DEF CountFailure, NextCount, LockActive, LoginTypeOK
    <3> QED
        BY <2>0, <3>1, <3>2 DEF DueWriter
  <2>3. LoginHandlerInv(p)'
      BY <1>0, <1>3, <2>0 DEF CountFailure, NextCount, LoginTypeOK, LoginInv, LoginHandlerInv
  <2>4. ASSUME NEW q \in LoginRequest, q # p PROVE LoginHandlerInv(q)'
      BY <1>0, <1>3, <2>0, <2>4, LoginOther DEF CountFailure, LoginTypeOK
  <2> QED
      BY <2>1, <2>2, <2>3, <2>4
<1>4. ASSUME NEW p \in LoginRequest, LockAccount(p) PROVE Rest /\ Handlers
  <2>0. /\ account \in Account /\ account' \in Account
        /\ account'.failed = account.failed /\ account'.mfa = account.mfa
        /\ loginNow + LockTicks \in Nat \ {0}
        /\ UNCHANGED <<failures, lost, loginSeen, loginAsk, mfaOff>>
        /\ loginPc[p] = "lock" /\ loginPc' = [loginPc EXCEPT ![p] = "replied"]
      BY <1>0, <1>4, LoginAssumption DEF LockAccount, LoginTypeOK, Account
  <2>1. ASSUME LockStillDue(p) PROVE Rest
    <3>1. account'.lockedUntil = loginNow + LockTicks
        BY <1>0, <1>4, <2>1 DEF LockAccount, LoginTypeOK, Account
    <3>2. account.failed >= MaxFailedLogins /\ account.failed = failures
        BY <2>0, <2>1 DEF LoginInv, LoginHandlerInv, LockStillDue
    <3> QED
        BY <2>0, <3>1, <3>2 DEF LockIsEarned, LockDue, LoginInv
  <2>2. ASSUME ~LockStillDue(p) PROVE Rest
    <3>1. UNCHANGED account
        BY <1>4, <2>2 DEF LockAccount
    <3>2. \A q \in LoginRequest : DueWriter(q) /\ account.lockedUntil = 0 => q # p
        BY <2>2 DEF DueWriter, LockStillDue
    <3>3. Rest
        BY <1>0, <2>0, <3>1, <3>2
        DEF LoginInv, LockIsEarned, LockDue, DueWriter, LoginTypeOK
    <3> QED
        BY <3>3
  <2>3. LoginHandlerInv(p)'
      BY <1>0, <1>4, <2>0 DEF LockAccount, LoginTypeOK, LoginInv, LoginHandlerInv
  <2>4. ASSUME NEW q \in LoginRequest, q # p PROVE LoginHandlerInv(q)'
      BY <1>0, <1>4, <2>0, <2>4, LoginOther DEF LockAccount, LoginTypeOK
  <2> QED
      BY <2>1, <2>2, <2>3, <2>4
<1>5. ASSUME NEW p \in LoginRequest, ResetCounter(p) PROVE Rest /\ Handlers
  <2>0. /\ account'.failed = 0 /\ account'.lockedUntil = 0 /\ account'.mfa = account.mfa
        /\ failures' = 0
      BY <1>0, <1>5 DEF ResetCounter, LoginTypeOK, Account
  <2>1. Rest
      BY <2>0, LoginAssumption DEF LockIsEarned, LockDue
  <2>2. LoginHandlerInv(p)'
      BY <1>0, <1>5, <2>0 DEF ResetCounter, LoginTypeOK, LoginInv, LoginHandlerInv
  <2>3. ASSUME NEW q \in LoginRequest, q # p PROVE LoginHandlerInv(q)'
      BY <1>0, <1>5, <2>0, <2>3, LoginOther DEF ResetCounter, LoginTypeOK
  <2> QED
      BY <2>1, <2>2, <2>3
<1>6. ASSUME NEW p \in LoginRequest, DecideSecondFactor(p) PROVE Rest /\ Handlers
  <2>1. Rest
      BY <1>0, <1>6, LockKept DEF DecideSecondFactor, DueWriter, LoginTypeOK
  <2>2. LoginHandlerInv(p)'
    <3>1. loginReply'[p] = "session" => TrustedDevice(p) \/ ~loginSeen[p].mfa
        BY <1>0, <1>6 DEF DecideSecondFactor, LoginTypeOK
    <3> QED
        BY <1>0, <1>6, <3>1
        DEF DecideSecondFactor, TrustedDevice, LoginTypeOK, LoginInv, LoginHandlerInv
  <2>3. ASSUME NEW q \in LoginRequest, q # p PROVE LoginHandlerInv(q)'
      BY <1>0, <1>6, <2>3, LoginOther DEF DecideSecondFactor, LoginTypeOK
  <2> QED
      BY <2>1, <2>2, <2>3
<1>7. ASSUME NEW p \in LoginRequest, LoginDeliver(p) PROVE Rest /\ Handlers
  <2>1. Rest
      BY <1>0, <1>7, LockKept DEF LoginDeliver, DueWriter, LoginTypeOK
  <2>2. LoginHandlerInv(p)'
      BY <1>0, <1>7 DEF LoginDeliver, LoginTypeOK, LoginInv, LoginHandlerInv
  <2>3. ASSUME NEW q \in LoginRequest, q # p PROVE LoginHandlerInv(q)'
      BY <1>0, <1>7, <2>3, LoginOther DEF LoginDeliver, LoginTypeOK
  <2> QED
      BY <2>1, <2>2, <2>3
<1>8. ASSUME NEW p \in LoginRequest, LoginCrash(p) PROVE Rest /\ Handlers
  <2>1. Rest
      BY <1>0, <1>8, LockKept DEF LoginCrash, DueWriter, LoginTypeOK
  <2>2. LoginHandlerInv(p)'
      BY <1>0, <1>8 DEF LoginCrash, LoginTypeOK, LoginInv, LoginHandlerInv
  <2>3. ASSUME NEW q \in LoginRequest, q # p PROVE LoginHandlerInv(q)'
      BY <1>0, <1>8, <2>3, LoginOther DEF LoginCrash, LoginTypeOK
  <2> QED
      BY <2>1, <2>2, <2>3
<1>9. CASE ToggleMfa
  <2>1. Rest
      BY <1>0, <1>9 DEF ToggleMfa, LoginTypeOK, Account, LoginInv, LockIsEarned, LockDue, DueWriter
  <2>2. ASSUME NEW q \in LoginRequest PROVE LoginHandlerInv(q)'
      BY <1>0, <1>9 DEF ToggleMfa, LoginTypeOK, LoginInv, LoginHandlerInv
  <2> QED
      BY <2>1, <2>2
<1>10. CASE LoginTick
    BY <1>10 DEF LoginTick, LoginInv, LoginHandlerInv, LockIsEarned, LockDue, DueWriter
<1> QED
    BY <1>1, <1>2, <1>3, <1>4, <1>5, <1>6, <1>7, <1>8, <1>9, <1>10
    DEF LoginNext, LoginStep

\* The invariant holds in every state of every behaviour of login.
LEMMA LoginAlways == LoginSpec => []LoginInv
<1>1. LoginInv /\ UNCHANGED loginVars => LoginInv'
    BY DEF loginVars, LoginInv, LoginTypeOK, LockIsEarned, LockDue, DueWriter, LoginHandlerInv
<1> QED
    BY LoginInitInv, LoginStepInv, <1>1, PTL DEF LoginSpec

\* The failure counter of AuthService.registerFailure loses no wrong password and
\* the lock is set exactly when the limit is reached since the last success, for
\* any number of overlapping logins, any limit and any crash.
THEOREM LockoutIsSound == LoginSpec => []LockoutSound
<1>1. LoginInv => LockoutSound
  <2> SUFFICES ASSUME LoginInv PROVE LockoutSound
      OBVIOUS
  <2>1. account.failed \in Nat /\ MaxFailedLogins \in Nat /\ lost \in BOOLEAN
      BY LoginAssumption DEF LoginInv, LoginTypeOK, Account
  <2> QED
      BY <2>1 DEF LoginInv, LockoutSound, LockoutExact, LockIsEarned, LockDue, DueWriter
<1> QED
    BY LoginAlways, <1>1, PTL

\* A session without a second factor is given only to the user's own remembered
\* device or if MFA was off at some moment of the request, although
\* decideSecondFactor uses a row read before the password was hashed.
THEOREM SecondFactorIsHonoured == LoginSpec => []SecondFactorHonoured
<1>1. LoginInv => SecondFactorHonoured
    BY DEF LoginInv, LoginHandlerInv, SecondFactorHonoured
<1> QED
    BY LoginAlways, <1>1, PTL

\* Type correctness of login.
THEOREM LoginTypeCorrect == LoginSpec => []LoginTypeOK
<1>1. LoginInv => LoginTypeOK
    BY DEF LoginInv
<1> QED
    BY LoginAlways, <1>1, PTL

-----------------------------------------------------------------------------
(* Access *)

\* What a token being built has read is current, unless a change slipped past it.
BuildInv(u) ==
    /\ build[u].at = "grants" /\ ~build[u].raced => build[u].roles = RolesOf(userRoles, u)
    /\ build[u].at = "version" /\ ~build[u].raced =>
           build[u].perms = Effective(userRoles, roleGrants, u)

\* A token carries no version from the future, and an accepted one is current.
TokenInv(u) ==
    /\ token[u].pv <= version[u]
    /\ VersionCurrent(u) /\ ~token[u].raced =>
           token[u].perms = Effective(userRoles, roleGrants, u)

\* Whom a transaction at its commit bumps: everybody its change concerns, but
\* for those who gained the role since it looked.
BumpInv(p) ==
    rbac[p].at = "commit" =>
        /\ rbac[p].op.kind \in {"assign", "unassign"} => rbac[p].op.user \in rbac[p].bumped
        /\ rbac[p].op.kind \in {"grant", "revoke"} =>
               \A u \in Operator : <<u, rbac[p].op.role>> \in userRoles =>
                   u \in rbac[p].bumped \cup rbac[p].late

HasCounted(p, c) ==
    \/ rbac[p].at \in {"bump", "commit"}
    \/ rbac[p].at = "countUsers" /\ c = ManageGrants

\* What assertAdminSurvives has counted still holds for a revoke on its own.
SurviveInv(p) ==
    \A c \in Critical : ~skewed /\ HasCounted(p, c) /\ Undoes(p) => HoldersSeen(p, c) # {}

\* The inductive invariant of role administration and access tokens.
AccessInv ==
    /\ AccessTypeOK
    /\ \A u \in Operator : BuildInv(u) /\ TokenInv(u)
    /\ \A p \in RbacRequest : BumpInv(p) /\ SurviveInv(p)
    /\ AdminSurvivesAlone


\* The fields of an administration request.
LEMMA OpFields ==
    ASSUME NEW op \in Op
    PROVE  /\ op.kind \in {"grant", "revoke", "assign", "unassign"}
           /\ op.role \in Role
           /\ op.kind \in {"assign", "unassign"} => op.user \in Operator
           /\ op.kind \in {"grant", "revoke"} => op.perm \in Permission
  BY DEF Op

\* A transaction in progress has all its fields.
LEMMA TxFields ==
    ASSUME AccessTypeOK, NEW p \in RbacRequest, rbac[p] # NoTx
    PROVE  /\ rbac[p] \in Tx
           /\ rbac[p].op \in Op
           /\ rbac[p].bumped \subseteq Operator /\ rbac[p].late \subseteq Operator
           /\ rbac[p].actor \subseteq Permission
  BY DEF AccessTypeOK, Tx

\* What a transaction sees has the type of the tables.
LEMMA SeenTypes ==
    ASSUME AccessTypeOK, NEW p \in RbacRequest, rbac[p] # NoTx
    PROVE  RolesSeen(p) \subseteq Operator \X Role /\ GrantsSeen(p) \subseteq Role \X Permission
<1>1. rbac[p].op \in Op
    BY TxFields
<1>2. RolesSeen(p) \subseteq Operator \X Role
    BY <1>1, OpFields DEF RolesSeen, AccessTypeOK
<1>3. GrantsSeen(p) \subseteq Role \X Permission
    BY <1>1, OpFields DEF GrantsSeen, AccessTypeOK
<1> QED
    BY <1>2, <1>3

\* Every step keeps the types.
LEMMA AccessTypeStep == AccessTypeOK /\ AccessNext => AccessTypeOK'
<1> SUFFICES ASSUME AccessTypeOK, AccessNext PROVE AccessTypeOK'
    OBVIOUS
<1> USE DEF AccessTypeOK
<1>1. ASSUME NEW u \in Operator, BeginBuild(u) PROVE AccessTypeOK'
    BY <1>1 DEF BeginBuild, Building
<1>2. ASSUME NEW u \in Operator, ReadRoles(u) PROVE AccessTypeOK'
  <2>1. build[u] \in Building
      BY <1>2 DEF ReadRoles, NoBuild
  <2>2. [build[u] EXCEPT !.at = "grants", !.roles = RolesOf(userRoles, u)] \in Building
      BY <2>1 DEF Building, RolesOf
  <2> QED
      BY <1>2, <2>2 DEF ReadRoles
<1>3. ASSUME NEW u \in Operator, ReadGrants(u) PROVE AccessTypeOK'
  <2>1. build[u] \in Building
      BY <1>3 DEF ReadGrants, NoBuild
  <2>2. [build[u] EXCEPT !.at = "version", !.perms = PermsOf(roleGrants, build[u].roles)]
          \in Building
      BY <2>1 DEF Building, PermsOf
  <2> QED
      BY <1>3, <2>2 DEF ReadGrants
<1>4. ASSUME NEW u \in Operator, SignToken(u) PROVE AccessTypeOK'
  <2>1. build[u] \in Building
      BY <1>4 DEF SignToken, NoBuild
  <2>2. [perms |-> build[u].perms, pv |-> version[u], raced |-> build[u].raced] \in Snapshot
      BY <2>1 DEF Building, Snapshot
  <2> QED
      BY <1>4, <2>2 DEF SignToken
<1>5. ASSUME NEW p \in RbacRequest, NEW a \in Operator, NEW op \in Op, Administer(p, a, op)
      PROVE  AccessTypeOK'
  <2>1. [at |-> "read", op |-> op, actor |-> token[a].perms, bumped |-> {}, late |-> {}] \in Tx
      BY DEF Tx, Snapshot
  <2> QED
      BY <1>5, <2>1 DEF Administer
<1>6. ASSUME NEW p \in RbacRequest, NEW l \in {"write", "count", "countUsers", "bump"},
             rbac[p] # NoTx
      PROVE  [rbac[p] EXCEPT !.at = l] \in Tx
    BY <1>6, TxFields DEF Tx
<1>7. ASSUME NEW p \in RbacRequest, CheckEscalation(p) PROVE AccessTypeOK'
  <2>1. rbac[p] # NoTx
      BY <1>7 DEF CheckEscalation, NoTx
  <2> QED
      BY <1>7, <1>6, <2>1 DEF CheckEscalation
<1>8. ASSUME NEW p \in RbacRequest, WriteRow(p) PROVE AccessTypeOK'
  <2>1. rbac[p] # NoTx
      BY <1>8 DEF WriteRow, NoTx
  <2> QED
      BY <1>8, <1>6, <2>1 DEF WriteRow
<1>9. ASSUME NEW p \in RbacRequest, AssertAdminSurvives(p) PROVE AccessTypeOK'
  <2>1. rbac[p] # NoTx
      BY <1>9 DEF AssertAdminSurvives, NoTx
  <2> QED
      BY <1>9, <1>6, <2>1 DEF AssertAdminSurvives, CountHolders
<1>10. ASSUME NEW p \in RbacRequest, BumpVersions(p) PROVE AccessTypeOK'
  <2>1. rbac[p] # NoTx /\ rbac[p] \in Tx
      BY <1>10, TxFields DEF BumpVersions, NoTx
  <2>2. Affected(p) \subseteq Operator
      BY <2>1, TxFields, OpFields DEF Affected
  <2>3. [rbac[p] EXCEPT !.at = "commit", !.bumped = Affected(p)] \in Tx
      BY <2>1, <2>2 DEF Tx
  <2> QED
      BY <1>10, <2>3 DEF BumpVersions
<1>11. ASSUME NEW p \in RbacRequest, CommitRbac(p) PROVE AccessTypeOK'
  <2>1. rbac[p] # NoTx
      BY <1>11 DEF CommitRbac, NoTx
  <2>2. userRoles' \subseteq Operator \X Role /\ roleGrants' \subseteq Role \X Permission
      BY <1>11, <2>1, SeenTypes DEF CommitRbac
  <2>3. version' \in [Operator -> Nat]
      BY <1>11 DEF CommitRbac
  <2>4. token' \in [Operator -> Snapshot]
    <3>1. ASSUME NEW u \in Operator
          PROVE  [token[u] EXCEPT !.raced = @ \/ u \in rbac[p].late] \in Snapshot
        BY DEF Snapshot
    <3> QED
        BY <1>11, <3>1 DEF CommitRbac
  <2>5. build' \in [Operator -> Building \cup {NoBuild}]
    <3>1. ASSUME NEW u \in Operator, SlipsPast(p, u)
          PROVE  [build[u] EXCEPT !.raced = TRUE] \in Building
      <4>1. build[u] \in Building
          BY <3>1 DEF SlipsPast, NoBuild
      <4> QED
          BY <4>1 DEF Building
    <3> QED
        BY <1>11, <3>1 DEF CommitRbac
  <2>6. rbac' \in [RbacRequest -> Tx \cup {NoTx}]
    <3>1. ASSUME NEW q \in RbacRequest, OvertakenBy(q, p)
          PROVE  [rbac[q] EXCEPT !.late = @ \cup {rbac[p].op.user}] \in Tx
      <4>1. rbac[q] \in Tx /\ rbac[p].op.user \in Operator
          BY <2>1, <3>1, TxFields, OpFields DEF OvertakenBy, NoTx
      <4> QED
          BY <4>1 DEF Tx
    <3>2. ASSUME NEW q \in RbacRequest
          PROVE  (CASE q = p -> NoTx
                    [] q # p /\ OvertakenBy(q, p) ->
                         [rbac[q] EXCEPT !.late = @ \cup {rbac[p].op.user}]
                    [] OTHER -> rbac[q]) \in Tx \cup {NoTx}
        BY <3>1
    <3> QED
        BY <1>11, <3>2 DEF CommitRbac
  <2>7. skewed' \in BOOLEAN
      BY <1>11 DEF CommitRbac
  <2> QED
      BY <2>2, <2>3, <2>4, <2>5, <2>6, <2>7
<1>12. ASSUME NEW p \in RbacRequest, AbortRbac(p) PROVE AccessTypeOK'
    BY <1>12 DEF AbortRbac
<1> QED
    BY <1>1, <1>2, <1>3, <1>4, <1>5, <1>7, <1>8, <1>9, <1>10, <1>11, <1>12 DEF AccessNext


\* More roles and more grants mean more holders.
LEMMA HoldersGrow ==
    ASSUME NEW r1, NEW r2, NEW g1, NEW g2, r1 \subseteq r2, g1 \subseteq g2, NEW c
    PROVE  Holders(r1, g1, c) \subseteq Holders(r2, g2, c)
  BY DEF Holders, Effective, PermsOf, RolesOf

\* The transaction that commits bumps, or notes as late, every operator whose
\* permissions it changes.
LEMMA ChangedAreBumped ==
    ASSUME AccessTypeOK, NEW p \in RbacRequest, BumpInv(p), rbac[p].at = "commit"
    PROVE  Changed(p) \subseteq rbac[p].bumped \cup rbac[p].late
<1> SUFFICES ASSUME NEW u \in Changed(p) PROVE u \in rbac[p].bumped \cup rbac[p].late
    OBVIOUS
<1>1. rbac[p].op \in Op /\ u \in Operator
    BY TxFields DEF Changed, NoTx
<1>2. CASE rbac[p].op.kind \in {"assign", "unassign"}
  <2>1. GrantsSeen(p) = roleGrants
      BY <1>2 DEF GrantsSeen
  <2>2. u # rbac[p].op.user => RolesOf(RolesSeen(p), u) = RolesOf(userRoles, u)
      BY <1>2 DEF RolesSeen, RolesOf
  <2>3. u = rbac[p].op.user
      BY <2>1, <2>2 DEF Changed, Effective
  <2> QED
      BY <1>2, <2>3 DEF BumpInv
<1>3. CASE rbac[p].op.kind \in {"grant", "revoke"}
  <2>1. RolesSeen(p) = userRoles
      BY <1>3 DEF RolesSeen
  <2>2. ASSUME NEW r \in Role, NEW c \in Permission, r # rbac[p].op.role
        PROVE  <<r, c>> \in GrantsSeen(p) <=> <<r, c>> \in roleGrants
      BY <1>3, <2>2 DEF GrantsSeen
  <2>3. <<u, rbac[p].op.role>> \in userRoles
    <3> SUFFICES ASSUME <<u, rbac[p].op.role>> \notin userRoles
                 PROVE  Effective(RolesSeen(p), GrantsSeen(p), u)
                          = Effective(userRoles, roleGrants, u)
        BY DEF Changed
    <3>1. \A r \in RolesOf(userRoles, u) : r \in Role /\ r # rbac[p].op.role
        BY DEF RolesOf
    <3> QED
        BY <2>1, <2>2, <3>1 DEF Effective, PermsOf
  <2> QED
      BY <1>1, <1>3, <2>3 DEF BumpInv
<1> QED
    BY <1>1, <1>2, <1>3, OpFields

\* The step of one transaction that commits nothing leaves everything else alone.
LEMMA RbacStep ==
    ASSUME AccessInv, AccessTypeOK', NEW p \in RbacRequest,
           UNCHANGED <<userRoles, roleGrants, version, token, build, skewed>>,
           \A q \in RbacRequest \ {p} : rbac'[q] = rbac[q],
           BumpInv(p)', SurviveInv(p)'
    PROVE  AccessInv'
<1>1. \A u \in Operator : (BuildInv(u) /\ TokenInv(u))'
    BY DEF AccessInv, BuildInv, TokenInv, VersionCurrent, Effective, PermsOf, RolesOf
<1>2. ASSUME NEW q \in RbacRequest, q # p PROVE (BumpInv(q) /\ SurviveInv(q))'
  <2>1. BumpInv(q) /\ SurviveInv(q) /\ rbac'[q] = rbac[q]
      BY <1>2 DEF AccessInv
  <2>2. \A c : HoldersSeen(q, c)' = HoldersSeen(q, c)
      BY <2>1 DEF HoldersSeen, RolesSeen, GrantsSeen, Holders, Effective, PermsOf, RolesOf
  <2>3. BumpInv(q)'
      BY <2>1 DEF BumpInv
  <2>4. SurviveInv(q)'
      BY <2>1, <2>2 DEF SurviveInv, HasCounted, Undoes, Critical
  <2> QED
      BY <2>3, <2>4
<1>3. AdminSurvivesAlone'
    BY DEF AccessInv, AdminSurvivesAlone, Holders, Effective, PermsOf, RolesOf, Critical
<1> QED
    BY <1>1, <1>2, <1>3 DEF AccessInv

\* A step of the build of one token leaves the transactions alone.
LEMMA BuildStep ==
    ASSUME AccessInv, AccessTypeOK', NEW u \in Operator,
           UNCHANGED <<userRoles, roleGrants, version, rbac, skewed>>,
           \A v \in Operator \ {u} : build'[v] = build[v] /\ token'[v] = token[v],
           BuildInv(u)', TokenInv(u)'
    PROVE  AccessInv'
<1>1. ASSUME NEW v \in Operator, v # u PROVE (BuildInv(v) /\ TokenInv(v))'
    BY <1>1 DEF AccessInv, BuildInv, TokenInv, VersionCurrent, Effective, PermsOf, RolesOf
<1>2. ASSUME NEW q \in RbacRequest PROVE (BumpInv(q) /\ SurviveInv(q))'
    BY DEF AccessInv, BumpInv, SurviveInv, HasCounted, Undoes, HoldersSeen, RolesSeen,
           GrantsSeen, Holders, Effective, PermsOf, RolesOf, Critical
<1>3. AdminSurvivesAlone'
    BY DEF AccessInv, AdminSurvivesAlone, Holders, Effective, PermsOf, RolesOf, Critical
<1> QED
    BY <1>1, <1>2, <1>3 DEF AccessInv

\* The initial tokens carry what the seed gives.
LEMMA AccessInitInv == AccessInit => AccessInv
<1> SUFFICES ASSUME AccessInit PROVE AccessInv
    OBVIOUS
<1>1. AccessTypeOK
    BY AccessAssumption DEF AccessInit, AccessTypeOK, Snapshot, Effective, PermsOf
<1>2. ASSUME NEW u \in Operator PROVE BuildInv(u) /\ TokenInv(u)
    BY DEF AccessInit, BuildInv, TokenInv, NoBuild
<1>3. ASSUME NEW p \in RbacRequest PROVE BumpInv(p) /\ SurviveInv(p)
    BY DEF AccessInit, BumpInv, SurviveInv, HasCounted, NoTx
<1>4. ASSUME NEW c \in Critical PROVE Holders(userRoles, roleGrants, c) # {}
  <2>1. PICK u \in Operator, r \in Role : <<u, r>> \in SeedRoles /\ <<r, c>> \in SeedGrants
      BY SeedAssumption DEF Critical
  <2>2. c \in Permission
      BY AccessAssumption DEF Critical
  <2> QED
      BY <2>1, <2>2 DEF AccessInit, Holders, Effective, PermsOf, RolesOf
<1> QED
    BY <1>1, <1>2, <1>3, <1>4 DEF AccessInv, AdminSurvivesAlone

\* COMMIT keeps the tokens honest: whoever is not bumped keeps his permissions.
LEMMA CommitTokens ==
    ASSUME AccessInv, NEW p \in RbacRequest, CommitRbac(p), NEW u \in Operator
    PROVE  (BuildInv(u) /\ TokenInv(u))'
<1>0. AccessTypeOK /\ BumpInv(p) /\ BuildInv(u) /\ TokenInv(u) /\ rbac[p].at = "commit"
    BY DEF AccessInv, CommitRbac
<1> DEFINE old == Effective(userRoles, roleGrants, u)
           new == Effective(RolesSeen(p), GrantsSeen(p), u)
<1>1. userRoles' = RolesSeen(p) /\ roleGrants' = GrantsSeen(p)
    BY DEF CommitRbac
<1>2. Effective(userRoles, roleGrants, u)' = new
      /\ RolesOf(userRoles, u)' = RolesOf(RolesSeen(p), u)
    BY <1>1 DEF Effective, PermsOf, RolesOf
<1>3. u \in Changed(p) <=> new # old
    BY DEF Changed
<1>4. BuildInv(u)'
  <2>1. CASE SlipsPast(p, u)
    <3>1. build[u] \in Building
        BY <1>0, <2>1 DEF AccessTypeOK, SlipsPast, NoBuild
    <3>2. build'[u] = [build[u] EXCEPT !.raced = TRUE]
        BY <2>1 DEF CommitRbac
    <3>3. build'[u].raced
        BY <3>1, <3>2 DEF Building
    <3> QED
        BY <3>3 DEF BuildInv
  <2>2. CASE ~SlipsPast(p, u)
    <3>1. build'[u] = build[u]
        BY <2>2 DEF CommitRbac
    <3> QED
        BY <1>0, <1>2, <1>3, <2>2, <3>1 DEF BuildInv, SlipsPast
  <2> QED
      BY <2>1, <2>2
<1>5. TokenInv(u)'
  <2>1. version'[u] = version[u] + (IF u \in rbac[p].bumped THEN 1 ELSE 0)
        /\ version[u] \in Nat /\ token[u] \in Snapshot
        /\ token'[u] = [token[u] EXCEPT !.raced = @ \/ u \in rbac[p].late]
      BY <1>0 DEF CommitRbac, AccessTypeOK
  <2>2. token'[u].pv = token[u].pv /\ token'[u].perms = token[u].perms /\ token[u].pv \in Nat
        /\ token'[u].raced = (token[u].raced \/ u \in rbac[p].late)
      BY <2>1 DEF Snapshot
  <2>3. token'[u].pv <= version'[u]
      BY <1>0, <2>1, <2>2 DEF TokenInv
  <2>4. ASSUME VersionCurrent(u)', ~token'[u].raced PROVE token'[u].perms = new
    <3>1. u \notin rbac[p].bumped /\ version'[u] = version[u]
        BY <1>0, <2>1, <2>2, <2>4 DEF TokenInv, VersionCurrent
    <3>2. u \notin rbac[p].late /\ ~token[u].raced
        BY <2>2, <2>4
    <3>3. new = old
        BY <1>0, <1>3, <3>1, <3>2, ChangedAreBumped
    <3>4. VersionCurrent(u)
        BY <2>2, <2>4, <3>1 DEF VersionCurrent
    <3> QED
        BY <1>0, <2>2, <3>2, <3>3, <3>4 DEF TokenInv
  <2> QED
      BY <1>2, <2>3, <2>4 DEF TokenInv
<1> QED
    BY <1>4, <1>5

\* COMMIT of an assignment adds a late holder to the open changes of the role.
LEMMA CommitBumps ==
    ASSUME AccessInv, NEW p \in RbacRequest, CommitRbac(p), NEW q \in RbacRequest
    PROVE  BumpInv(q)'
<1> SUFFICES ASSUME rbac'[q].at = "commit" PROVE BumpInv(q)'
    BY DEF BumpInv
<1>0. AccessTypeOK /\ BumpInv(q) /\ rbac[p].at = "commit"
    BY DEF AccessInv, CommitRbac
<1>1. q # p
    BY DEF CommitRbac, NoTx
<1>2. rbac[q].at = "commit" /\ rbac[q] \in Tx /\ rbac[p] \in Tx
    BY <1>0, <1>1, TxFields DEF CommitRbac, OvertakenBy, NoTx
<1>3. /\ rbac'[q].op = rbac[q].op /\ rbac'[q].bumped = rbac[q].bumped
      /\ rbac[q].late \subseteq rbac'[q].late
      /\ OvertakenBy(q, p) => rbac[p].op.user \in rbac'[q].late
    BY <1>1, <1>2 DEF CommitRbac, Tx
<1>4. ASSUME rbac[q].op.kind \in {"grant", "revoke"}, NEW u \in Operator,
             <<u, rbac[q].op.role>> \in userRoles'
      PROVE  u \in rbac'[q].bumped \cup rbac'[q].late
  <2>1. CASE <<u, rbac[q].op.role>> \in userRoles
      BY <1>0, <1>2, <1>3, <1>4, <2>1 DEF BumpInv
  <2>2. CASE <<u, rbac[q].op.role>> \notin userRoles
    <3>1. userRoles' = RolesSeen(p)
        BY DEF CommitRbac
    <3>2. rbac[p].op.kind = "assign" /\ u = rbac[p].op.user /\ rbac[q].op.role = rbac[p].op.role
        BY <1>4, <2>2, <3>1 DEF RolesSeen
    <3> QED
        BY <1>2, <1>3, <1>4, <3>2 DEF OvertakenBy
  <2> QED
      BY <2>1, <2>2
<1> QED
    BY <1>0, <1>2, <1>3, <1>4 DEF BumpInv

\* COMMIT of a revoke that is alone, or of a grant, leaves a holder of every
\* critical permission, for the tables and for every open revoke.
LEMMA CommitSurvives ==
    ASSUME AccessInv, NEW p \in RbacRequest, CommitRbac(p)
    PROVE  AdminSurvivesAlone' /\ \A q \in RbacRequest : SurviveInv(q)'
<1>0. /\ AccessTypeOK /\ SurviveInv(p) /\ AdminSurvivesAlone /\ rbac[p].at = "commit"
      /\ rbac[p] # NoTx /\ rbac[p].op \in Op
    BY TxFields DEF AccessInv, CommitRbac, NoTx
<1>1. userRoles' = RolesSeen(p) /\ roleGrants' = GrantsSeen(p)
    BY DEF CommitRbac
<1>2. Critical' = Critical
    BY DEF Critical
<1>3. ASSUME ~skewed'
      PROVE  /\ ~skewed
             /\ Undoes(p) => \A q \in RbacRequest \ {p} :
                                ~(rbac[q].at \in {"countUsers", "bump", "commit"} /\ Undoes(q))
    BY <1>3 DEF CommitRbac
<1>4. ~Undoes(p) => userRoles \subseteq RolesSeen(p) /\ roleGrants \subseteq GrantsSeen(p)
    BY <1>0, OpFields DEF Undoes, RolesSeen, GrantsSeen
<1>5. AdminSurvivesAlone'
  <2> SUFFICES ASSUME ~skewed', NEW c \in Critical
               PROVE  Holders(RolesSeen(p), GrantsSeen(p), c) # {}
      BY <1>1, <1>2 DEF AdminSurvivesAlone, Holders, Effective, PermsOf, RolesOf
  <2>1. CASE Undoes(p)
      BY <1>0, <1>3, <2>1 DEF SurviveInv, HasCounted, HoldersSeen
  <2>2. CASE ~Undoes(p)
      BY <1>0, <1>3, <1>4, <2>2, HoldersGrow DEF AdminSurvivesAlone
  <2> QED
      BY <2>1, <2>2
<1>6. ASSUME NEW q \in RbacRequest PROVE SurviveInv(q)'
  <2> SUFFICES ASSUME ~skewed', NEW c \in Critical, HasCounted(q, c)', Undoes(q)'
               PROVE  HoldersSeen(q, c)' # {}
      BY <1>2 DEF SurviveInv
  <2>1. q # p
      BY DEF CommitRbac, HasCounted, NoTx
  <2>2. rbac'[q].at = rbac[q].at /\ rbac'[q].op = rbac[q].op
    <3>1. CASE OvertakenBy(q, p)
      <4>1. rbac[q] \in Tx
          BY <1>0, <3>1, TxFields DEF OvertakenBy, NoTx
      <4> QED
          BY <2>1, <3>1, <4>1 DEF CommitRbac, Tx
    <3>2. CASE ~OvertakenBy(q, p)
        BY <2>1, <3>2 DEF CommitRbac
    <3> QED
        BY <3>1, <3>2
  <2>3. HasCounted(q, c) /\ Undoes(q) /\ rbac[q].op \in Op
      BY <1>0, <2>2, TxFields DEF HasCounted, Undoes, NoTx
  <2>4. ~Undoes(p) /\ HoldersSeen(q, c) # {}
      BY <1>3, <2>1, <2>3 DEF AccessInv, SurviveInv, HasCounted
  <2>5. RolesSeen(q) \subseteq RolesSeen(q)' /\ GrantsSeen(q) \subseteq GrantsSeen(q)'
      BY <1>1, <1>4, <2>2, <2>4 DEF RolesSeen, GrantsSeen
  <2>6. HoldersSeen(q, c)' = Holders(RolesSeen(q)', GrantsSeen(q)', c)
      BY DEF HoldersSeen, Holders, Effective, PermsOf, RolesOf
  <2> QED
      BY <2>4, <2>5, <2>6, HoldersGrow DEF HoldersSeen
<1> QED
    BY <1>5, <1>6

\* Every step of administration and of building a token keeps the invariant.
LEMMA AccessStepInv == AccessInv /\ AccessNext => AccessInv'
<1> SUFFICES ASSUME AccessInv, AccessNext PROVE AccessInv'
    OBVIOUS
<1>0. AccessTypeOK /\ AccessTypeOK'
    BY AccessTypeStep DEF AccessInv
<1>1. ASSUME NEW u \in Operator, BeginBuild(u) PROVE AccessInv'
  <2>1. (BuildInv(u) /\ TokenInv(u))'
      BY <1>0, <1>1 DEF AccessInv, AccessTypeOK, BeginBuild, BuildInv, TokenInv, VersionCurrent,
                        Effective, PermsOf, RolesOf
  <2> QED
      BY <1>0, <1>1, <2>1, BuildStep DEF BeginBuild, AccessTypeOK
<1>2. ASSUME NEW u \in Operator, ReadRoles(u) PROVE AccessInv'
  <2>1. build[u] \in Building
      BY <1>0, <1>2 DEF AccessTypeOK, ReadRoles, NoBuild
  <2>2. build'[u].at = "grants" /\ build'[u].roles = RolesOf(userRoles, u)
      BY <1>0, <1>2, <2>1 DEF AccessTypeOK, ReadRoles, Building
  <2>3. (BuildInv(u) /\ TokenInv(u))'
      BY <1>2, <2>2 DEF AccessInv, ReadRoles, BuildInv, TokenInv, VersionCurrent,
                        Effective, PermsOf, RolesOf
  <2> QED
      BY <1>0, <1>2, <2>3, BuildStep DEF ReadRoles, AccessTypeOK
<1>3. ASSUME NEW u \in Operator, ReadGrants(u) PROVE AccessInv'
  <2>1. build[u] \in Building
      BY <1>0, <1>3 DEF AccessTypeOK, ReadGrants, NoBuild
  <2>2. /\ build'[u].at = "version" /\ build'[u].raced = build[u].raced
        /\ build'[u].perms = PermsOf(roleGrants, build[u].roles)
      BY <1>0, <1>3, <2>1 DEF AccessTypeOK, ReadGrants, Building
  <2>3. BuildInv(u) /\ build[u].at = "grants"
      BY <1>3 DEF AccessInv, ReadGrants
  <2>4. BuildInv(u)'
      BY <1>3, <2>2, <2>3 DEF ReadGrants, BuildInv, Effective, PermsOf, RolesOf
  <2>5. TokenInv(u)'
      BY <1>3 DEF AccessInv, ReadGrants, TokenInv, VersionCurrent, Effective, PermsOf, RolesOf
  <2> QED
      BY <1>0, <1>3, <2>4, <2>5, BuildStep DEF ReadGrants, AccessTypeOK
<1>4. ASSUME NEW u \in Operator, SignToken(u) PROVE AccessInv'
  <2>1. /\ token'[u].perms = build[u].perms /\ token'[u].pv = version[u]
        /\ token'[u].raced = build[u].raced /\ version[u] \in Nat /\ version'[u] = version[u]
        /\ build'[u] = NoBuild
      BY <1>0, <1>4 DEF AccessTypeOK, SignToken
  <2>2. BuildInv(u) /\ build[u].at = "version"
      BY <1>4 DEF AccessInv, SignToken
  <2>3. BuildInv(u)'
      BY <2>1 DEF BuildInv, NoBuild
  <2>4. TokenInv(u)'
      BY <1>4, <2>1, <2>2 DEF SignToken, BuildInv, TokenInv, Effective, PermsOf, RolesOf
  <2> QED
      BY <1>0, <1>4, <2>3, <2>4, BuildStep DEF SignToken, AccessTypeOK
<1>5. ASSUME NEW p \in RbacRequest, NEW a \in Operator, NEW op \in Op, Administer(p, a, op)
      PROVE  AccessInv'
  <2>1. rbac'[p].at = "read"
      BY <1>0, <1>5 DEF AccessTypeOK, Administer
  <2>2. (BumpInv(p) /\ SurviveInv(p))'
      BY <2>1 DEF BumpInv, SurviveInv, HasCounted
  <2> QED
      BY <1>0, <1>5, <2>2, RbacStep DEF Administer, AccessTypeOK
<1>6. ASSUME NEW p \in RbacRequest, CheckEscalation(p) PROVE AccessInv'
  <2>1. rbac'[p].at \in {"write", "idle"}
    <3>1. rbac[p] \in Tx
        BY <1>0, <1>6, TxFields DEF CheckEscalation, NoTx
    <3> QED
        BY <1>0, <1>6, <3>1 DEF AccessTypeOK, CheckEscalation, NoTx, Tx
  <2>2. (BumpInv(p) /\ SurviveInv(p))'
      BY <2>1 DEF BumpInv, SurviveInv, HasCounted
  <2> QED
      BY <1>0, <1>6, <2>2, RbacStep DEF CheckEscalation, AccessTypeOK
<1>7. ASSUME NEW p \in RbacRequest, WriteRow(p) PROVE AccessInv'
  <2>1. rbac[p] \in Tx
      BY <1>0, <1>7, TxFields DEF WriteRow, NoTx
  <2>2. rbac'[p].op = rbac[p].op /\ rbac'[p].at = (IF Undoes(p) THEN "count" ELSE "bump")
      BY <1>0, <1>7, <2>1 DEF AccessTypeOK, WriteRow, Tx
  <2>3. (BumpInv(p) /\ SurviveInv(p))'
      BY <2>2 DEF BumpInv, SurviveInv, HasCounted, Undoes
  <2> QED
      BY <1>0, <1>7, <2>3, RbacStep DEF WriteRow, AccessTypeOK
<1>8. ASSUME NEW p \in RbacRequest, AssertAdminSurvives(p) PROVE AccessInv'
  <2>1. rbac[p] \in Tx
      BY <1>0, <1>8, TxFields DEF AssertAdminSurvives, NoTx
  <2>2. PICK c \in Critical, next \in {"countUsers", "bump"} :
          /\ CountHolders(p, c, next)
          /\ next = "countUsers" => c = ManageGrants
          /\ next = "bump" => c = ManageUsers /\ rbac[p].at = "countUsers"
      BY <1>8 DEF AssertAdminSurvives, Critical
  <2>3. \/ rbac'[p] = NoTx
        \/ rbac'[p].op = rbac[p].op /\ rbac'[p].at = next /\ HoldersSeen(p, c) # {}
      BY <1>0, <2>1, <2>2 DEF AccessTypeOK, CountHolders, Tx
  <2>4. (BumpInv(p) /\ SurviveInv(p))'
    <3>1. CASE rbac'[p] = NoTx
        BY <3>1 DEF BumpInv, SurviveInv, HasCounted, NoTx
    <3>2. CASE rbac'[p] # NoTx
      <4>1. rbac'[p].op = rbac[p].op /\ rbac'[p].at = next /\ HoldersSeen(p, c) # {}
          BY <2>3, <3>2
      <4>2. UNCHANGED <<userRoles, roleGrants, skewed>>
          BY <2>2 DEF CountHolders
      <4>3. RolesSeen(p)' = RolesSeen(p) /\ GrantsSeen(p)' = GrantsSeen(p)
          BY <4>1, <4>2 DEF RolesSeen, GrantsSeen
      <4>4. \A d \in Critical : HoldersSeen(p, d)' = HoldersSeen(p, d)
          BY <4>3 DEF HoldersSeen, Holders, Effective, PermsOf, RolesOf
      <4>5. ASSUME ~skewed, Undoes(p), NEW d \in Critical, HasCounted(p, d)'
            PROVE  HoldersSeen(p, d) # {}
        <5>1. CASE d = c
            BY <4>1, <5>1
        <5>2. CASE d # c
          <6>1. d = ManageGrants /\ rbac[p].at = "countUsers"
              BY <2>2, <4>1, <4>5, <5>2 DEF HasCounted, Critical
          <6> QED
              BY <4>5, <6>1 DEF AccessInv, SurviveInv, HasCounted
        <5> QED
            BY <5>1, <5>2
      <4>6. Undoes(p)' <=> Undoes(p)
          BY <4>1 DEF Undoes
      <4>7. SurviveInv(p)'
          BY <4>2, <4>4, <4>5, <4>6 DEF SurviveInv, Critical
      <4> QED
          BY <2>2, <4>1, <4>7 DEF BumpInv
    <3> QED
        BY <3>1, <3>2
  <2> QED
      BY <1>0, <2>2, <2>4, RbacStep DEF CountHolders, AccessTypeOK
<1>9. ASSUME NEW p \in RbacRequest, BumpVersions(p) PROVE AccessInv'
  <2>1. rbac[p] \in Tx
      BY <1>0, <1>9, TxFields DEF BumpVersions, NoTx
  <2>2. rbac'[p].op = rbac[p].op /\ rbac'[p].at = "commit" /\ rbac'[p].bumped = Affected(p)
      BY <1>0, <1>9, <2>1 DEF AccessTypeOK, BumpVersions, Tx
  <2>3. BumpInv(p)'
    <3>1. rbac[p].op.kind \in {"assign", "unassign"} => Affected(p) = {rbac[p].op.user}
        BY DEF Affected
    <3>2. rbac[p].op.kind \in {"grant", "revoke"} =>
              Affected(p) = {u \in Operator : <<u, rbac[p].op.role>> \in userRoles}
        BY DEF Affected
    <3>3. userRoles' = userRoles
        BY <1>9 DEF BumpVersions
    <3> QED
        BY <2>2, <3>1, <3>2, <3>3 DEF BumpInv
  <2>4. SurviveInv(p)'
      BY <1>9, <2>2 DEF AccessInv, BumpVersions, SurviveInv, HasCounted, Undoes, HoldersSeen, RolesSeen,
                        GrantsSeen, Holders, Effective, PermsOf, RolesOf, Critical
  <2> QED
      BY <1>0, <1>9, <2>3, <2>4, RbacStep DEF BumpVersions, AccessTypeOK
<1>10. ASSUME NEW p \in RbacRequest, CommitRbac(p) PROVE AccessInv'
    BY <1>0, <1>10, CommitTokens, CommitBumps, CommitSurvives DEF AccessInv
<1>11. ASSUME NEW p \in RbacRequest, AbortRbac(p) PROVE AccessInv'
  <2>1. (BumpInv(p) /\ SurviveInv(p))'
      BY <1>0, <1>11 DEF AbortRbac, AccessTypeOK, BumpInv, SurviveInv, HasCounted, NoTx
  <2> QED
      BY <1>0, <1>11, <2>1, RbacStep DEF AbortRbac, AccessTypeOK
<1> QED
    BY <1>1, <1>2, <1>3, <1>4, <1>5, <1>6, <1>7, <1>8, <1>9, <1>10, <1>11 DEF AccessNext

\* The invariant holds in every state of every behaviour.
LEMMA AccessAlways == AccessSpec => []AccessInv
<1>1. ASSUME AccessInv, UNCHANGED accessVars PROVE AccessInv'
  <2> USE <1>1 DEF accessVars, AccessInv, Effective, PermsOf, RolesOf
  <2>1. AccessTypeOK'
      BY DEF AccessTypeOK
  <2>2. ASSUME NEW u \in Operator PROVE (BuildInv(u) /\ TokenInv(u))'
      BY DEF BuildInv, TokenInv, VersionCurrent
  <2>3. ASSUME NEW q \in RbacRequest PROVE (BumpInv(q) /\ SurviveInv(q))'
      BY DEF BumpInv, SurviveInv, HasCounted, Undoes, HoldersSeen, RolesSeen, GrantsSeen,
             Holders, Critical
  <2>4. AdminSurvivesAlone'
      BY DEF AdminSurvivesAlone, Holders, Critical
  <2> QED
      BY <2>1, <2>2, <2>3, <2>4
<1> QED
    BY AccessInitInv, AccessStepInv, <1>1, PTL DEF AccessSpec

\* A token PermissionsGuard accepts carries the operator's present permissions,
\* for any roles, permissions and number of concurrent changes, unless a change
\* fell into one of the two windows the model marks.
THEOREM AcceptedTokensAreCurrent == AccessSpec => []AcceptedTokensCurrent
<1>1. AccessInv => AcceptedTokensCurrent
    BY DEF AccessInv, TokenInv, AcceptedTokensCurrent
<1> QED
    BY AccessAlways, <1>1, PTL

\* assertAdminSurvives keeps a holder of every critical permission as long as no
\* two revokes commit beside each other.
THEOREM LastAdminSurvivesAlone == AccessSpec => []AdminSurvivesAlone
<1>1. AccessInv => AdminSurvivesAlone
    BY DEF AccessInv
<1> QED
    BY AccessAlways, <1>1, PTL

\* Type correctness of role administration.
THEOREM AccessTypeCorrect == AccessSpec => []AccessTypeOK
<1>1. AccessInv => AccessTypeOK
    BY DEF AccessInv
<1> QED
    BY AccessAlways, <1>1, PTL

-----------------------------------------------------------------------------
(* The second factor *)

\* A challenge no later request can consume or count against.
Spent(c) == challenges[c].state = "consumed" /\ challenges[c].attempts < MaxAttempts

\* What a request's code is, by where the request stands.
HandlerSound(h) ==
    h \in Handler =>
        /\ h.at = "floor" => h.code \in TotpCode /\ (h.op = "login" => h.code.step > h.seen)
        /\ h.at = "backup" => h.code \in BackupCode
        /\ h.op = "confirm" => h.code \in TotpCode

\* Codes accepted so far cannot be accepted again: a backup code is spent in its row,
\* a TOTP code lies under the floor for as long as the floor only advances.
CodesInv ==
    /\ \A b \in accepted \cap BackupCode : backups[b] \in {"used", "deleted"}
    /\ replayed \cap BackupCode = {}
    /\ ~floorBack => /\ replayed \cap TotpCode = {}
                     /\ \A k \in accepted \cap TotpCode : k.step <= factor.floor

\* A session stands for one consumption of its challenge.
ChallengesInv ==
    /\ \A c \in Challenge : upgrades[c] \in {0, 1} /\ (upgrades[c] = 1 => Spent(c))
    /\ \A p \in MfaRequest : mfa[p].at = "session" =>
         Spent(mfa[p].challenge) /\ upgrades[mfa[p].challenge] = 0
    /\ \A p, q \in MfaRequest :
         mfa[p].at = "session" /\ mfa[q].at = "session" /\ mfa[p].challenge = mfa[q].challenge
           => p = q

\* The inductive invariant of the second factor.
MfaInv ==
    /\ MfaTypeOK
    /\ \A p \in MfaRequest : HandlerSound(mfa[p])
    /\ CodesInv
    /\ ChallengesInv

LEMMA MfaConstants ==
    /\ MaxAttempts \in Nat /\ MaxAttempts >= 1 /\ StepBound \in Nat /\ StepBound >= 1
    /\ SecretBound \in Nat
BY MfaAssumption

LEMMA HandlerFields ==
    ASSUME NEW h \in Handler \cup {NoHandler}
    PROVE  /\ h.at \in MfaPcs <=> h \in Handler
           /\ h \in Handler => /\ h.op \in Ops /\ h.challenge \in Challenge /\ h.code \in Code
                               /\ h.remember \in BOOLEAN /\ h.seen \in 0 .. StepBound + 1
BY DEF Handler, NoHandler, MfaPcs

\* A request that goes on.
LEMMA HandlerGoes ==
    ASSUME NEW h \in Handler, NEW l \in MfaPcs, NEW g, g = [h EXCEPT !.at = l]
    PROVE  /\ g \in Handler
           /\ g.at = l /\ g.op = h.op /\ g.challenge = h.challenge /\ g.code = h.code
           /\ g.remember = h.remember /\ g.seen = h.seen
BY DEF Handler

LEMMA MfaInitInv == MfaInit => MfaInv
<1> SUFFICES ASSUME MfaInit PROVE MfaInv
    OBVIOUS
<1>1. MfaTypeOK
  <2>1. factor \in Factor /\ challenges \in [Challenge -> ChallengeRow]
      BY MfaConstants DEF MfaInit, Factor, FactorOff, ChallengeRow
  <2>2. totpNow \in 1 .. StepBound /\ secrets \in 0 .. SecretBound
      BY MfaConstants DEF MfaInit
  <2> QED
      BY <2>1, <2>2 DEF MfaInit, MfaTypeOK
<1>2. ASSUME NEW p \in MfaRequest PROVE HandlerSound(mfa[p])
    BY DEF MfaInit, HandlerSound, NoHandler, Handler
<1>3. CodesInv
    BY DEF MfaInit, CodesInv
<1>4. ChallengesInv
    BY DEF MfaInit, ChallengesInv, NoHandler
<1> QED
    BY <1>1, <1>2, <1>3, <1>4 DEF MfaInv

-----------------------------------------------------------------------------
\* A step that changes the handler of p to h and nothing else in mfa.
Becomes(p, h) ==
    /\ h \in Handler \cup {NoHandler}
    /\ mfa' = [mfa EXCEPT ![p] = h]
    /\ HandlerSound(h)

LEMMA EndBecomes ==
    ASSUME NEW p \in MfaRequest, MfaEnd(p) PROVE Becomes(p, NoHandler)
BY DEF MfaEnd, Becomes, HandlerSound, NoHandler, Handler

LEMMA GotoBecomes ==
    ASSUME MfaTypeOK, NEW p \in MfaRequest, mfa[p] \in Handler, HandlerSound(mfa[p]),
           NEW l \in MfaPcs \ {"floor", "backup"}, MfaGoto(p, l)
    PROVE  \E h \in Handler : Becomes(p, h) /\ h.at = l /\ h.challenge = mfa[p].challenge
<1>1. PICK h : h = [mfa[p] EXCEPT !.at = l]
    OBVIOUS
<1>2. h \in Handler /\ h.at = l /\ h.op = mfa[p].op /\ h.challenge = mfa[p].challenge
      /\ h.code = mfa[p].code
    BY <1>1, HandlerGoes
<1>3. HandlerSound(h)
    BY <1>2 DEF HandlerSound
<1>4. mfa' = [mfa EXCEPT ![p] = h]
    BY <1>1 DEF MfaGoto
<1> QED
    BY <1>2, <1>3, <1>4 DEF Becomes

\* What the handlers do in a step: all rest, or one changes into a sound one.
HandlersMove ==
    \/ mfa' = mfa
    \/ \E p \in MfaRequest, h \in Handler \cup {NoHandler} :
         /\ Becomes(p, h)
         /\ h.at # "session"

LEMMA ArriveMoves ==
    ASSUME MfaTypeOK, NEW p \in MfaRequest, NEW op \in Ops, NEW c \in Challenge,
           NEW code \in Presented, NEW remember \in BOOLEAN, MfaArrive(p, op, c, code, remember)
    PROVE  HandlersMove
<1> DEFINE l == CASE op = "login" -> "load" [] op = "adminReset" -> "write" [] OTHER -> "read"
           h == [at |-> l, op |-> op, challenge |-> c, code |-> code, remember |-> remember,
                 seen |-> 0]
<1>1. l \in {"load", "write", "read"}
    OBVIOUS
<1>2. code \in Code
    BY MfaConstants DEF Presented, Code, TotpCode, NoCode
<1> HIDE DEF l
<1>3. h \in Handler
    BY <1>1, <1>2, MfaConstants DEF Handler, MfaPcs
<1>4. h.at = l /\ h.op = op /\ h.code = code
    OBVIOUS
<1>5. mfa' = [mfa EXCEPT ![p] = h] /\ (op = "confirm" => code \in TotpCode)
    BY DEF MfaArrive, l
<1> HIDE DEF h
<1>6. HandlerSound(h)
    BY <1>1, <1>4, <1>5 DEF HandlerSound
<1> QED
    BY <1>1, <1>3, <1>4, <1>5, <1>6 DEF HandlersMove, Becomes

LEMMA LoadMoves ==
    ASSUME MfaInv, NEW p \in MfaRequest, LoadOpen(p) PROVE HandlersMove
<1>1. mfa[p] \in Handler /\ HandlerSound(mfa[p]) /\ MfaTypeOK
    BY HandlerFields DEF LoadOpen, MfaPcs, MfaInv, MfaTypeOK
<1>2. CASE MfaEnd(p)
    BY <1>2, EndBecomes DEF HandlersMove, NoHandler
<1>3. CASE ~MfaEnd(p)
  <2> DEFINE l == IF mfa[p].code \in BackupCode THEN "backup" ELSE "read"
             h == [mfa[p] EXCEPT !.at = l]
  <2>1. mfa' = [mfa EXCEPT ![p] = h] /\ l \in {"backup", "read"} /\ l \in MfaPcs
      BY <1>3 DEF LoadOpen, MfaGoto, MfaPcs
  <2>2. h \in Handler /\ h.at = l /\ h.op = mfa[p].op /\ h.code = mfa[p].code
      BY <1>1, <2>1, HandlerGoes
  <2>3. HandlerSound(h)
      BY <1>1, <2>1, <2>2 DEF HandlerSound
  <2> HIDE DEF h
  <2> QED
      BY <2>1, <2>2, <2>3 DEF HandlersMove, Becomes
<1> QED
    BY <1>2, <1>3

LEMMA ReadMoves ==
    ASSUME MfaInv, NEW p \in MfaRequest, ReadUser(p) PROVE HandlersMove
<1>1. mfa[p] \in Handler /\ HandlerSound(mfa[p]) /\ MfaTypeOK
    BY HandlerFields DEF ReadUser, MfaPcs, MfaInv, MfaTypeOK
<1>2. CASE AfterRead(p) = "end"
  <2>1. MfaEnd(p)
      BY <1>2 DEF ReadUser, MfaEnd
  <2> QED
      BY <2>1, EndBecomes DEF HandlersMove, NoHandler
<1>3. CASE AfterRead(p) # "end"
  <2> DEFINE v == IF mfa[p].op = "login" THEN factor.floor ELSE 0
             l == AfterRead(p)
             h == [mfa[p] EXCEPT !.at = l, !.seen = v]
             valid == mfa[p].code \in TotpCode /\ TotpValid(factor, mfa[p].code)
  <2>1. mfa' = [mfa EXCEPT ![p] = h]
      BY <1>3 DEF ReadUser
  <2>2. mfa[p].op \in Ops
      BY <1>1, HandlerFields
  <2>3. /\ l \in {"floor", "reject", "write", "backup"}
        /\ l = "floor" => valid
        /\ l = "backup" => mfa[p].code \in BackupCode
      BY <1>3, <2>2 DEF AfterRead, Ops
  <2>4. v \in 0 .. StepBound + 1
      BY <1>1, MfaConstants DEF MfaTypeOK, Factor
  <2> HIDE DEF l, v
  <2>5. /\ h \in Handler /\ h.at = l /\ h.seen = v
        /\ h.op = mfa[p].op /\ h.code = mfa[p].code
      BY <1>1, <2>3, <2>4 DEF Handler, MfaPcs
  <2> HIDE DEF h
  <2>6. l = "floor" => h.code \in TotpCode /\ (h.op = "login" => h.code.step > h.seen)
      BY <2>3, <2>5 DEF TotpValid, v
  <2>7. HandlerSound(h)
      BY <1>1, <2>3, <2>5, <2>6 DEF HandlerSound
  <2> QED
      BY <2>1, <2>3, <2>5, <2>7 DEF HandlersMove, Becomes
<1> QED
    BY <1>2, <1>3

\* The other requests go on to a step that knows nothing of the code, or end.
LEMMA OtherMoves ==
    ASSUME MfaInv, NEW p \in MfaRequest, mfa[p] \in Handler,
           \/ MfaEnd(p)
           \/ \E l \in MfaPcs \ {"floor", "backup", "session"} : MfaGoto(p, l)
    PROVE  HandlersMove
<1>1. CASE MfaEnd(p)
    BY <1>1, EndBecomes DEF HandlersMove, NoHandler
<1>2. ASSUME NEW l \in MfaPcs \ {"floor", "backup", "session"}, MfaGoto(p, l)
      PROVE  HandlersMove
    BY <1>2, GotoBecomes DEF HandlersMove, MfaInv
<1> QED
    BY <1>1, <1>2

LEMMA MovesOfNext ==
    ASSUME MfaInv, MfaNext, \A p \in MfaRequest : ~ConsumeChallenge(p)
    PROVE  HandlersMove
<1>0. MfaTypeOK /\ \A p \in MfaRequest : mfa[p] \in Handler \cup {NoHandler}
    BY DEF MfaInv, MfaTypeOK
<1>1. ASSUME NEW p \in MfaRequest, NEW l \in MfaPcs, mfa[p].at = l PROVE mfa[p] \in Handler
    BY <1>0, <1>1, HandlerFields
<1>2. ASSUME NEW p \in MfaRequest, RedeemBackup(p) PROVE HandlersMove
  <2>1. mfa[p] \in Handler
      BY <1>1, <1>2 DEF RedeemBackup, MfaPcs
  <2> QED
      BY <1>2, <2>1, OtherMoves DEF RedeemBackup, MfaPcs
<1>3. ASSUME NEW p \in MfaRequest, AdvanceFloor(p) PROVE HandlersMove
  <2>1. mfa[p] \in Handler
      BY <1>1, <1>3 DEF AdvanceFloor, MfaPcs
  <2> QED
      BY <1>3, <2>1, OtherMoves DEF AdvanceFloor, MfaPcs
<1>4. ASSUME NEW p \in MfaRequest, RejectCode(p) \/ IssueMfaSession(p) \/ MfaCrash(p)
      PROVE  HandlersMove
  <2>1. mfa[p] \in Handler
      BY <1>0, <1>1, <1>4 DEF RejectCode, IssueMfaSession, MfaCrash, MfaPcs
  <2> QED
      BY <1>4, <2>1, OtherMoves DEF RejectCode, IssueMfaSession, MfaCrash, MfaPcs
<1>5. ASSUME NEW p \in MfaRequest, NEW d \in Device, IssueDevice(p, d) PROVE HandlersMove
  <2>1. mfa[p] \in Handler
      BY <1>1, <1>5 DEF IssueDevice, MfaPcs
  <2> QED
      BY <1>5, <2>1, OtherMoves DEF IssueDevice
<1>6. ASSUME NEW p \in MfaRequest,
             StartEnrolment(p) \/ ConfirmEnrolment(p) \/ DisableMfa(p) \/ AdminReset(p)
      PROVE  HandlersMove
  <2>1. mfa[p] \in Handler
      BY <1>1, <1>6 DEF StartEnrolment, ConfirmEnrolment, DisableMfa, AdminReset, MfaPcs
  <2> QED
      BY <1>6, <2>1, OtherMoves DEF StartEnrolment, ConfirmEnrolment, DisableMfa, AdminReset, MfaPcs
<1>7. ASSUME NEW p \in MfaRequest, NEW b \in BackupCode, GenerateCodes(p, b) PROVE HandlersMove
  <2>1. mfa[p] \in Handler
      BY <1>1, <1>7 DEF GenerateCodes, MfaPcs
  <2> QED
      BY <1>7, <2>1, OtherMoves DEF GenerateCodes
<1>8. ASSUME NEW c \in Challenge, MintChallenge(c) \/ ExpireChallenge(c) PROVE HandlersMove
    BY <1>8 DEF MintChallenge, ExpireChallenge, HandlersMove
<1>9. ASSUME NEW d \in Device, RevokeDevice(d) PROVE HandlersMove
    BY <1>9 DEF RevokeDevice, HandlersMove
<1>10. CASE TotpTick
    BY <1>10 DEF TotpTick, HandlersMove
<1> QED
    BY <1>0, <1>2, <1>3, <1>4, <1>5, <1>6, <1>7, <1>8, <1>9, <1>10, ArriveMoves, LoadMoves,
       ReadMoves DEF MfaNext

-----------------------------------------------------------------------------
\* consume() moves its request on to the session.
LEMMA ConsumeMoves ==
    ASSUME MfaInv, NEW p \in MfaRequest, ConsumeChallenge(p)
    PROVE  \E h \in Handler \cup {NoHandler} :
             /\ Becomes(p, h)
             /\ h.at = "session" => /\ h.challenge = mfa[p].challenge /\ h.challenge \in Challenge
                                    /\ Open(h.challenge)
                                    /\ challenges' = [challenges EXCEPT ![h.challenge].state = "consumed"]
             /\ h.at # "session" => challenges' = challenges
<1>1. mfa[p] \in Handler /\ HandlerSound(mfa[p]) /\ MfaTypeOK /\ mfa[p].challenge \in Challenge
    BY HandlerFields DEF ConsumeChallenge, MfaPcs, MfaInv, MfaTypeOK
<1>2. CASE Consumable(mfa[p].challenge)
  <2>1. /\ MfaGoto(p, "session") /\ Open(mfa[p].challenge)
        /\ challenges' = [challenges EXCEPT ![mfa[p].challenge].state = "consumed"]
      BY <1>2 DEF ConsumeChallenge, Consumable
  <2>2. PICK h \in Handler : Becomes(p, h) /\ h.at = "session" /\ h.challenge = mfa[p].challenge
      BY <1>1, <2>1, GotoBecomes DEF MfaPcs
  <2> QED
      BY <1>1, <2>1, <2>2
<1>3. CASE ~Consumable(mfa[p].challenge)
  <2>1. MfaEnd(p) /\ challenges' = challenges
      BY <1>3 DEF ConsumeChallenge
  <2> QED
      BY <2>1, EndBecomes DEF NoHandler
<1> QED
    BY <1>2, <1>3

LEMMA HandlersStep ==
    ASSUME MfaInv, MfaNext
    PROVE  /\ mfa' \in [MfaRequest -> Handler \cup {NoHandler}]
           /\ \A p \in MfaRequest : HandlerSound(mfa[p])'
<1>0. mfa \in [MfaRequest -> Handler \cup {NoHandler}] /\ \A p \in MfaRequest : HandlerSound(mfa[p])
    BY DEF MfaInv, MfaTypeOK
<1>1. ASSUME NEW p \in MfaRequest, NEW h \in Handler \cup {NoHandler}, Becomes(p, h)
      PROVE  /\ mfa' \in [MfaRequest -> Handler \cup {NoHandler}]
             /\ \A q \in MfaRequest : HandlerSound(mfa'[q])
    BY <1>0, <1>1 DEF Becomes
<1>2. /\ mfa' \in [MfaRequest -> Handler \cup {NoHandler}]
      /\ \A q \in MfaRequest : HandlerSound(mfa'[q])
    BY <1>0, <1>1, MovesOfNext, ConsumeMoves DEF HandlersMove
<1>3. ASSUME NEW q \in MfaRequest, HandlerSound(mfa'[q]) PROVE HandlerSound(mfa[q])'
    BY <1>3 DEF HandlerSound
<1> QED
    BY <1>2, <1>3

LEMMA FreshType ==
    ASSUME backups \in [BackupCode -> {"absent", "unused", "used", "deleted"}],
           NEW b \in BackupCode, FreshCodes(b)
    PROVE  /\ backups' \in [BackupCode -> {"absent", "unused", "used", "deleted"}]
           /\ backups[b] = "absent"
           /\ \A x \in BackupCode : backups[x] \in {"used", "deleted"} => backups'[x] = "deleted"
<1>1. backups[b] = "absent"
    BY DEF FreshCodes
<1>2. ASSUME NEW x \in BackupCode
      PROVE  /\ backups'[x] \in {"absent", "unused", "used", "deleted"}
             /\ backups[x] \in {"used", "deleted"} => backups'[x] = "deleted"
    BY DEF FreshCodes
<1> QED
    BY <1>1, <1>2 DEF FreshCodes

LEMMA AcceptType ==
    ASSUME MfaTypeOK, NEW p \in MfaRequest, mfa[p] \in Handler, CodeAccepted(p)
    PROVE  accepted' \subseteq Code /\ replayed' \subseteq Code
<1>1. mfa[p].code \in Code /\ accepted \subseteq Code /\ replayed \subseteq Code
    BY DEF Handler, MfaTypeOK
<1> QED
    BY <1>1 DEF CodeAccepted

\* The rows keep their types.
LEMMA MfaTypeStep == ASSUME MfaInv, MfaNext PROVE MfaTypeOK'
<1>0. /\ MfaTypeOK /\ factor \in Factor
      /\ challenges \in [Challenge -> ChallengeRow]
      /\ backups \in [BackupCode -> {"absent", "unused", "used", "deleted"}]
      /\ devices \in [Device -> {"absent", "trusted", "revoked"}]
      /\ totpNow \in 1 .. StepBound
      /\ secrets \in 0 .. SecretBound /\ accepted \subseteq Code /\ replayed \subseteq Code
      /\ upgrades \in [Challenge -> Nat]
      /\ \A p \in MfaRequest : mfa[p] \in Handler \cup {NoHandler} /\ HandlerSound(mfa[p])
    BY DEF MfaInv, MfaTypeOK
<1>b. floorBack \in BOOLEAN
    BY DEF MfaInv, MfaTypeOK
<1>m. mfa' \in [MfaRequest -> Handler \cup {NoHandler}]
    BY HandlersStep
<1> USE <1>m
<1>1. ASSUME NEW c \in Challenge, MintChallenge(c) \/ ExpireChallenge(c) PROVE MfaTypeOK'
  <2>1. challenges' \in [Challenge -> ChallengeRow]
      BY <1>0, <1>1 DEF MintChallenge, ExpireChallenge, ChallengeRow
  <2> QED
      BY <1>0, <1>b, <1>1, <2>1 DEF MintChallenge, ExpireChallenge, mfaObservers, MfaTypeOK
<1>2. ASSUME UNCHANGED <<mfaRows, totpNow, mfaObservers>> PROVE MfaTypeOK'
    BY <1>0, <1>b, <1>2 DEF mfaRows, mfaObservers, MfaTypeOK
<1>3. ASSUME NEW p \in MfaRequest, RedeemBackup(p) PROVE MfaTypeOK'
  <2>1. mfa[p] \in Handler /\ mfa[p].code \in BackupCode
      BY <1>0, <1>3, HandlerFields DEF RedeemBackup, HandlerSound, MfaPcs
  <2>2. backups' \in [BackupCode -> {"absent", "unused", "used", "deleted"}]
      BY <1>0, <1>3, <2>1 DEF RedeemBackup
  <2>3. accepted' \subseteq Code /\ replayed' \subseteq Code
      BY <1>0, <1>3, <2>1, AcceptType DEF RedeemBackup
  <2> QED
      BY <1>0, <1>b, <1>3, <2>2, <2>3 DEF RedeemBackup, MfaTypeOK
<1>4. ASSUME NEW p \in MfaRequest, AdvanceFloor(p) PROVE MfaTypeOK'
  <2>1. mfa[p] \in Handler /\ mfa[p].code \in TotpCode
      BY <1>0, <1>4, HandlerFields DEF AdvanceFloor, HandlerSound, MfaPcs
  <2>2. mfa[p].code.step \in 0 .. StepBound + 1
      BY <2>1, MfaConstants DEF TotpCode
  <2>3. factor' \in Factor
      BY <1>0, <1>4, <2>2 DEF AdvanceFloor, Factor
  <2>4. accepted' \subseteq Code /\ replayed' \subseteq Code
      BY <1>0, <1>4, <2>1, AcceptType DEF AdvanceFloor
  <2>5. floorBack' \in BOOLEAN
      BY <1>b, <1>4, Zenon DEF AdvanceFloor
  <2> QED
      BY <1>0, <1>4, <2>3, <2>4, <2>5 DEF AdvanceFloor, MfaTypeOK
<1>5. ASSUME NEW p \in MfaRequest, RejectCode(p) PROVE MfaTypeOK'
  <2>1. mfa[p].challenge \in Challenge
      BY <1>0, <1>5, HandlerFields DEF RejectCode, MfaPcs
  <2>2. challenges' \in [Challenge -> ChallengeRow]
    <3>1. CASE ~Counts(mfa[p].challenge)
        BY <1>0, <1>5, <3>1 DEF RejectCode
    <3>2. CASE Counts(mfa[p].challenge)
      <4> DEFINE c == mfa[p].challenge
      <4>1. challenges[c].attempts + 1 \in 0 .. MaxAttempts
          BY <1>0, <2>1, <3>2, MfaConstants DEF Counts, Open, ChallengeRow
      <4>2. [challenges[c] EXCEPT !.attempts = challenges[c].attempts + 1] \in ChallengeRow
          BY <1>0, <2>1, <4>1 DEF ChallengeRow
      <4>3. challenges' = [challenges EXCEPT ![c] =
                             [challenges[c] EXCEPT !.attempts = challenges[c].attempts + 1]]
          BY <1>5, <3>2 DEF RejectCode
      <4> QED
          BY <1>0, <2>1, <4>2, <4>3
    <3> QED
        BY <3>1, <3>2
  <2> QED
      BY <1>0, <1>b, <1>5, <2>2 DEF RejectCode, mfaObservers, MfaTypeOK
<1>6. ASSUME NEW p \in MfaRequest, ConsumeChallenge(p) PROVE MfaTypeOK'
  <2>1. mfa[p].challenge \in Challenge
      BY <1>0, <1>6, HandlerFields DEF ConsumeChallenge, MfaPcs
  <2>2. challenges' \in [Challenge -> ChallengeRow]
      BY <1>0, <1>6, <2>1 DEF ConsumeChallenge, ChallengeRow
  <2> QED
      BY <1>0, <1>b, <1>6, <2>2 DEF ConsumeChallenge, mfaObservers, MfaTypeOK
<1>7. ASSUME NEW p \in MfaRequest, IssueMfaSession(p) PROVE MfaTypeOK'
  <2>1. mfa[p].challenge \in Challenge
      BY <1>0, <1>7, HandlerFields DEF IssueMfaSession, MfaPcs
  <2>2. upgrades' \in [Challenge -> Nat]
      BY <1>0, <1>7, <2>1 DEF IssueMfaSession
  <2> QED
      BY <1>0, <1>b, <1>7, <2>2 DEF IssueMfaSession, mfaRows, MfaTypeOK
<1>8. ASSUME NEW d \in Device, RevokeDevice(d) \/ \E p \in MfaRequest : IssueDevice(p, d)
      PROVE  MfaTypeOK'
  <2>1. devices' \in [Device -> {"absent", "trusted", "revoked"}]
      BY <1>0, <1>8 DEF RevokeDevice, IssueDevice
  <2> QED
      BY <1>0, <1>b, <1>8, <2>1 DEF RevokeDevice, IssueDevice, mfaObservers, MfaTypeOK
<1>9. ASSUME NEW p \in MfaRequest, StartEnrolment(p) PROVE MfaTypeOK'
  <2>1. secrets' \in 0 .. SecretBound /\ factor' \in Factor
      BY <1>0, <1>9, MfaConstants DEF StartEnrolment, Factor
  <2>2. floorBack' \in BOOLEAN
      BY <1>b, <1>9, Zenon DEF StartEnrolment
  <2> QED
      BY <1>0, <1>9, <2>1, <2>2 DEF StartEnrolment, MfaTypeOK
<1>10. ASSUME NEW p \in MfaRequest, ConfirmEnrolment(p) PROVE MfaTypeOK'
  <2>1. mfa[p] \in Handler /\ mfa[p].code \in TotpCode
      BY <1>0, <1>10, HandlerFields DEF ConfirmEnrolment, HandlerSound, MfaPcs
  <2>2. mfa[p].code.step \in 0 .. StepBound + 1
      BY <2>1, MfaConstants DEF TotpCode
  <2>3. factor' \in Factor
      BY <1>0, <1>10, <2>2 DEF ConfirmEnrolment, Factor
  <2>4. accepted' \subseteq Code /\ replayed' \subseteq Code
      BY <1>0, <1>10, <2>1, AcceptType DEF ConfirmEnrolment
  <2>5. floorBack' \in BOOLEAN
      BY <1>b, <1>10, Zenon DEF ConfirmEnrolment
  <2> QED
      BY <1>0, <1>10, <2>3, <2>4, <2>5 DEF ConfirmEnrolment, MfaTypeOK
<1>11. ASSUME NEW p \in MfaRequest, NEW b \in BackupCode, GenerateCodes(p, b) PROVE MfaTypeOK'
    BY <1>0, <1>b, <1>11, FreshType DEF GenerateCodes, mfaObservers, MfaTypeOK
<1>12. ASSUME NEW p \in MfaRequest, DisableMfa(p) \/ AdminReset(p) PROVE MfaTypeOK'
  <2>1. factor' \in Factor
    <3>1. FactorOff \in Factor
        BY MfaConstants DEF FactorOff, Factor
    <3> QED
        BY <1>12, <3>1 DEF DisableMfa, AdminReset
  <2>2. /\ backups' \in [BackupCode -> {"absent", "unused", "used", "deleted"}]
        /\ devices' \in [Device -> {"absent", "trusted", "revoked"}]
      BY <1>12 DEF DisableMfa, AdminReset, NoCodes, NoDevices
  <2>3. floorBack' \in BOOLEAN
      BY <1>b, <1>12, Zenon DEF DisableMfa, AdminReset
  <2>4. challenges' \in [Challenge -> ChallengeRow]
      BY <1>0, <1>12 DEF DisableMfa, AdminReset, ChallengeRow
  <2> QED
      BY <1>0, <1>12, <2>1, <2>2, <2>3, <2>4 DEF DisableMfa, AdminReset, MfaTypeOK
<1>13. CASE TotpTick
  <2>1. totpNow' \in 1 .. StepBound
      BY <1>0, <1>13, MfaConstants DEF TotpTick
  <2> QED
      BY <1>0, <1>b, <1>13, <2>1 DEF TotpTick, mfaRows, mfaObservers, MfaTypeOK
<1> QED
    BY <1>1, <1>2, <1>3, <1>4, <1>5, <1>6, <1>7, <1>8, <1>9, <1>10, <1>11, <1>12, <1>13
    DEF MfaNext, MfaArrive, LoadOpen, ReadUser, MfaCrash

-----------------------------------------------------------------------------
\* Steps that accept nothing and leave codes and floor alone.
LEMMA CodesRest ==
    ASSUME CodesInv, UNCHANGED <<factor, backups, accepted, replayed, floorBack>>
    PROVE  CodesInv'
BY DEF CodesInv

\* Spent codes stay spent when the whole set is replaced or removed and the floor is
\* reset; a reset of a floor that was in use is seen by floorBack.
LEMMA CodesReset ==
    ASSUME CodesInv, factor \in Factor, floorBack \in BOOLEAN,
           accepted' = accepted, replayed' = replayed,
           \A b \in BackupCode : backups[b] \in {"used", "deleted"} => backups'[b] \in {"used", "deleted"},
           \/ floorBack' = floorBack /\ factor' = factor
           \/ floorBack' = (floorBack \/ factor.floor # 0) /\ factor'.floor = 0
    PROVE  CodesInv'
<1>1. \A b \in accepted' \cap BackupCode : backups'[b] \in {"used", "deleted"}
    BY DEF CodesInv
<1>2. ASSUME ~floorBack'
      PROVE  /\ replayed' \cap TotpCode = {}
             /\ \A k \in accepted' \cap TotpCode : k.step <= factor'.floor
  <2>1. ~floorBack /\ factor'.floor = factor.floor
      BY <1>2
  <2> QED
      BY <2>1 DEF CodesInv
<1> QED
    BY <1>1, <1>2 DEF CodesInv

LEMMA RedeemCodes ==
    ASSUME MfaInv, NEW p \in MfaRequest, RedeemBackup(p) PROVE CodesInv'
<1>0. /\ mfa[p] \in Handler /\ mfa[p].code \in BackupCode /\ CodesInv
      /\ backups \in [BackupCode -> {"absent", "unused", "used", "deleted"}]
    BY HandlerFields DEF RedeemBackup, HandlerSound, MfaPcs, MfaInv, MfaTypeOK
<1>1. CASE UNCHANGED <<backups, accepted, replayed>>
    BY <1>0, <1>1, CodesRest DEF RedeemBackup
<1>2. CASE ~UNCHANGED <<backups, accepted, replayed>>
  <2> DEFINE b == mfa[p].code
  <2>1. /\ backups[b] = "unused" /\ backups' = [backups EXCEPT ![b] = "used"]
        /\ factor' = factor /\ floorBack' = floorBack
        /\ CodeAccepted(p)
      BY <1>2 DEF RedeemBackup, Redeemable
  <2>2. b \notin accepted /\ b \notin TotpCode
      BY <1>0, <2>1, CodesAssumption DEF CodesInv
  <2>3. accepted' = accepted \cup {b} /\ replayed' = replayed
      BY <1>0, <2>1, <2>2 DEF CodeAccepted
  <2> QED
      BY <1>0, <2>1, <2>2, <2>3 DEF CodesInv
<1> QED
    BY <1>1, <1>2

\* A TOTP code that signs in lies above the floor, so above every code before it.
LEMMA FloorCodes ==
    ASSUME MfaInv, NEW p \in MfaRequest, AdvanceFloor(p) PROVE CodesInv'
<1>0. /\ mfa[p] \in Handler /\ mfa[p].code \in TotpCode /\ CodesInv
      /\ mfa[p].op = "login" => mfa[p].code.step > mfa[p].seen
      /\ factor \in Factor
      /\ accepted \subseteq Code
    BY HandlerFields DEF AdvanceFloor, HandlerSound, MfaPcs, MfaInv, MfaTypeOK
<1>1. CASE UNCHANGED <<factor, floorBack, accepted, replayed>>
    BY <1>0, <1>1, CodesRest DEF AdvanceFloor
<1>2. CASE ~UNCHANGED <<factor, floorBack, accepted, replayed>>
  <2> DEFINE k == mfa[p].code
  <2>1. /\ FloorAsSeen(p) /\ CodeAccepted(p) /\ backups' = backups
        /\ factor' = [factor EXCEPT !.floor = k.step]
        /\ floorBack' = (floorBack \/ k.step < factor.floor)
      BY <1>2 DEF AdvanceFloor
  <2>2. factor'.floor = k.step /\ factor.floor \in Nat /\ k.step \in Nat /\ k \notin BackupCode
      BY <1>0, <2>1, MfaConstants, CodesAssumption DEF Factor, TotpCode
  <2>3. \A j \in TotpCode : j.step \in Nat
      BY DEF TotpCode
  <2>4. CASE mfa[p].op # "login"
    <3>1. accepted' = accepted /\ replayed' = replayed
        BY <2>1, <2>2, <2>4 DEF CodeAccepted
    <3>2. ~floorBack' => ~floorBack /\ factor.floor <= factor'.floor
      <4>1. ~floorBack' => ~floorBack /\ ~(k.step < factor.floor)
          BY <2>1, Zenon
      <4> QED
          BY <2>2, <4>1
    <3> QED
        BY <1>0, <2>1, <2>2, <2>3, <3>1, <3>2 DEF CodesInv
  <2>5. CASE mfa[p].op = "login"
    <3>1. k.step > factor.floor
        BY <1>0, <2>1, <2>5 DEF FloorAsSeen
    <3>2. accepted' = accepted \cup {k} /\ replayed' = replayed \cup (accepted \cap {k})
        BY <2>1, <2>5 DEF CodeAccepted
    <3>3. ~floorBack' => ~floorBack
        BY <2>1
    <3>4. ~floorBack => k \notin accepted
        BY <1>0, <2>2, <3>1 DEF CodesInv
    <3>5. ASSUME ~floorBack'
          PROVE  /\ replayed' \cap TotpCode = {}
                 /\ \A j \in accepted' \cap TotpCode : j.step <= factor'.floor
        BY <1>0, <2>2, <2>3, <3>1, <3>2, <3>3, <3>4, <3>5 DEF CodesInv
    <3>6. /\ replayed' \cap BackupCode = {}
          /\ \A b \in accepted' \cap BackupCode : backups'[b] \in {"used", "deleted"}
        BY <1>0, <2>1, <2>2, <3>2 DEF CodesInv
    <3> QED
        BY <3>5, <3>6 DEF CodesInv
  <2> QED
      BY <2>4, <2>5
<1> QED
    BY <1>1, <1>2

LEMMA ConfirmCodes ==
    ASSUME MfaInv, NEW p \in MfaRequest, ConfirmEnrolment(p) PROVE CodesInv'
<1>0. /\ mfa[p] \in Handler /\ mfa[p].code \in TotpCode /\ CodesInv /\ factor \in Factor
      /\ mfa[p].op = "confirm" /\ mfa[p].code \notin BackupCode
    BY HandlerFields, CodesAssumption DEF ConfirmEnrolment, HandlerSound, MfaPcs, MfaInv, MfaTypeOK
<1> DEFINE k == mfa[p].code
<1>1. /\ CodeAccepted(p) /\ backups' = backups
      /\ factor' = [factor EXCEPT !.enabled = TRUE, !.floor = k.step]
      /\ floorBack' = (floorBack \/ k.step < factor.floor)
    BY DEF ConfirmEnrolment
<1>2. accepted' = accepted /\ replayed' = replayed
    BY <1>0, <1>1 DEF CodeAccepted
<1>3. factor'.floor = k.step /\ factor.floor \in Nat /\ k.step \in Nat
    BY <1>0, <1>1, MfaConstants DEF Factor, TotpCode
<1>4. ~floorBack' => ~floorBack /\ factor.floor <= factor'.floor
  <2>1. ~floorBack' => ~floorBack /\ ~(k.step < factor.floor)
      BY <1>1, Zenon
  <2> QED
      BY <1>3, <2>1
<1>5. \A j \in TotpCode : j.step \in Nat
    BY DEF TotpCode
<1> QED
    BY <1>0, <1>1, <1>2, <1>3, <1>4, <1>5 DEF CodesInv

LEMMA CodesStep ==
    ASSUME MfaInv, MfaNext PROVE CodesInv'
<1>0. /\ CodesInv /\ factor \in Factor
      /\ backups \in [BackupCode -> {"absent", "unused", "used", "deleted"}]
    BY DEF MfaInv, MfaTypeOK
<1>b. floorBack \in BOOLEAN
    BY DEF MfaInv, MfaTypeOK
<1>1. ASSUME NEW p \in MfaRequest, StartEnrolment(p) PROVE CodesInv'
    BY <1>0, <1>b, <1>1, CodesReset DEF StartEnrolment
<1>2. ASSUME NEW p \in MfaRequest, DisableMfa(p) \/ AdminReset(p) PROVE CodesInv'
  <2>1. \A b \in BackupCode : backups[b] \in {"used", "deleted"} => backups'[b] \in {"used", "deleted"}
      BY <1>2 DEF DisableMfa, AdminReset, NoCodes
  <2>2. /\ factor'.floor = 0 /\ floorBack' = (floorBack \/ factor.floor # 0)
        /\ accepted' = accepted /\ replayed' = replayed
      BY <1>2 DEF DisableMfa, AdminReset, FactorOff
  <2> QED
      BY <1>0, <1>b, <2>1, <2>2, CodesReset
<1>3. ASSUME NEW p \in MfaRequest, NEW b \in BackupCode, GenerateCodes(p, b) PROVE CodesInv'
  <2>1. \A x \in BackupCode : backups[x] \in {"used", "deleted"} => backups'[x] \in {"used", "deleted"}
      BY <1>0, <1>3, FreshType DEF GenerateCodes
  <2>2. factor' = factor /\ floorBack' = floorBack /\ accepted' = accepted /\ replayed' = replayed
      BY <1>3 DEF GenerateCodes, mfaObservers
  <2> QED
      BY <1>0, <1>b, <2>1, <2>2, CodesReset
<1>4. ASSUME UNCHANGED <<factor, backups, accepted, replayed, floorBack>> PROVE CodesInv'
    BY <1>0, <1>4, CodesRest
<1>5. ASSUME NEW p \in MfaRequest,
             \/ \E op \in Ops, c \in Challenge, code \in Presented, remember \in BOOLEAN :
                  MfaArrive(p, op, c, code, remember)
             \/ LoadOpen(p) \/ ReadUser(p) \/ RejectCode(p) \/ ConsumeChallenge(p)
             \/ IssueMfaSession(p) \/ MfaCrash(p)
             \/ \E d \in Device : IssueDevice(p, d)
      PROVE  CodesInv'
    BY <1>4, <1>5 DEF MfaArrive, LoadOpen, ReadUser, RejectCode, ConsumeChallenge, IssueMfaSession,
       MfaCrash, IssueDevice, mfaRows, mfaObservers
<1>6. ASSUME \/ \E c \in Challenge : MintChallenge(c) \/ ExpireChallenge(c)
             \/ \E d \in Device : RevokeDevice(d)
             \/ TotpTick
      PROVE  CodesInv'
    BY <1>4, <1>6 DEF MintChallenge, ExpireChallenge, RevokeDevice, TotpTick, mfaRows, mfaObservers
<1> QED
    BY <1>1, <1>2, <1>3, <1>5, <1>6, RedeemCodes, FloorCodes, ConfirmCodes DEF MfaNext

-----------------------------------------------------------------------------
\* Steps that issue no session and consume nothing that is not consumed already.
LEMMA ChallengesRest ==
    ASSUME MfaInv, HandlersMove, upgrades' = upgrades,
           \A c \in Challenge : Spent(c) => challenges'[c] = challenges[c]
    PROVE  ChallengesInv'
<1>0. ChallengesInv /\ mfa \in [MfaRequest -> Handler \cup {NoHandler}]
    BY DEF MfaInv, MfaTypeOK
<1>1. ASSUME NEW p \in MfaRequest, mfa'[p].at = "session"
      PROVE  mfa'[p] = mfa[p] /\ mfa[p].at = "session" /\ mfa[p].challenge \in Challenge
  <2>1. mfa'[p] = mfa[p]
      BY <1>0, <1>1 DEF HandlersMove, Becomes
  <2> QED
      BY <1>0, <1>1, <2>1, HandlerFields DEF MfaPcs
<1>2. \A c \in Challenge : Spent(c) => Spent(c)'
    BY DEF Spent
<1>3. \A c \in Challenge : upgrades'[c] \in {0, 1} /\ (upgrades'[c] = 1 => Spent(c)')
    BY <1>0, <1>2 DEF ChallengesInv
<1>4. ASSUME NEW p \in MfaRequest, mfa'[p].at = "session"
      PROVE  /\ challenges'[mfa'[p].challenge].state = "consumed"
             /\ challenges'[mfa'[p].challenge].attempts < MaxAttempts
             /\ upgrades'[mfa'[p].challenge] = 0
    BY <1>0, <1>1, <1>2, <1>4 DEF ChallengesInv, Spent
<1>5. ASSUME NEW p \in MfaRequest, NEW q \in MfaRequest, mfa'[p].at = "session",
             mfa'[q].at = "session", mfa'[p].challenge = mfa'[q].challenge
      PROVE  p = q
    BY <1>0, <1>1, <1>5 DEF ChallengesInv
<1> QED
    BY <1>3, <1>4, <1>5 DEF ChallengesInv, Spent

\* The winner of consume() is the only request on its way to a session.
LEMMA ConsumeChallenges ==
    ASSUME MfaInv, NEW p \in MfaRequest, ConsumeChallenge(p) PROVE ChallengesInv'
<1>0. /\ ChallengesInv /\ mfa \in [MfaRequest -> Handler \cup {NoHandler}]
      /\ challenges \in [Challenge -> ChallengeRow]
    BY DEF MfaInv, MfaTypeOK
<1>1. upgrades' = upgrades
    BY DEF ConsumeChallenge, mfaObservers
<1>2. PICK h \in Handler \cup {NoHandler} :
             /\ Becomes(p, h)
             /\ h.at = "session" => /\ h.challenge = mfa[p].challenge /\ h.challenge \in Challenge
                                    /\ Open(h.challenge)
                                    /\ challenges' = [challenges EXCEPT ![h.challenge].state = "consumed"]
             /\ h.at # "session" => challenges' = challenges
    BY ConsumeMoves
<1>3. CASE h.at # "session"
  <2>1. HandlersMove
      BY <1>2, <1>3 DEF HandlersMove
  <2> QED
      BY <1>1, <1>2, <1>3, <2>1, ChallengesRest
<1>4. CASE h.at = "session"
  <2> DEFINE c == h.challenge
  <2>1. c \in Challenge /\ Open(c) /\ ~Spent(c)
      BY <1>2, <1>4 DEF Open, Spent
  <2>2. /\ challenges'[c].state = "consumed" /\ challenges'[c].attempts < MaxAttempts
        /\ \A d \in Challenge : d # c => challenges'[d] = challenges[d]
      BY <1>0, <1>2, <1>4, <2>1 DEF Open, ChallengeRow
  <2>3. upgrades[c] = 0 /\ \A q \in MfaRequest : mfa[q].at = "session" => mfa[q].challenge # c
      BY <1>0, <2>1 DEF ChallengesInv
  <2>4. mfa'[p] = h /\ \A q \in MfaRequest : q # p => mfa'[q] = mfa[q]
      BY <1>0, <1>2 DEF Becomes
  <2>5. \A q \in MfaRequest : mfa[q].at = "session" => mfa[q].challenge \in Challenge
      BY <1>0, HandlerFields DEF MfaPcs
  <2>6. \A d \in Challenge : upgrades'[d] \in {0, 1} /\ (upgrades'[d] = 1 => Spent(d)')
      BY <1>0, <1>1, <2>1, <2>2, <2>3 DEF ChallengesInv, Spent
  <2>7. ASSUME NEW q \in MfaRequest, mfa'[q].at = "session"
        PROVE  /\ challenges'[mfa'[q].challenge].state = "consumed"
               /\ challenges'[mfa'[q].challenge].attempts < MaxAttempts
               /\ upgrades'[mfa'[q].challenge] = 0
    <3>1. CASE q = p
        BY <1>1, <2>2, <2>3, <2>4, <3>1
    <3>2. CASE q # p
        BY <1>0, <1>1, <2>2, <2>3, <2>4, <2>5, <2>7, <3>2 DEF ChallengesInv, Spent
    <3> QED
        BY <3>1, <3>2
  <2>8. ASSUME NEW q \in MfaRequest, NEW r \in MfaRequest, mfa'[q].at = "session",
               mfa'[r].at = "session", mfa'[q].challenge = mfa'[r].challenge
        PROVE  q = r
      BY <1>0, <2>3, <2>4, <2>8 DEF ChallengesInv
  <2> QED
      BY <2>6, <2>7, <2>8 DEF ChallengesInv, Spent
<1> QED
    BY <1>3, <1>4

LEMMA IssueChallenges ==
    ASSUME MfaInv, NEW p \in MfaRequest, IssueMfaSession(p) PROVE ChallengesInv'
<1>0. /\ ChallengesInv /\ mfa \in [MfaRequest -> Handler \cup {NoHandler}]
      /\ upgrades \in [Challenge -> Nat]
    BY DEF MfaInv, MfaTypeOK
<1> DEFINE c == mfa[p].challenge
<1>1. /\ mfa[p] \in Handler /\ c \in Challenge /\ mfa[p].at = "session"
      /\ upgrades' = [upgrades EXCEPT ![c] = @ + 1] /\ challenges' = challenges
    BY <1>0, HandlerFields DEF IssueMfaSession, MfaPcs, mfaRows
<1>2. upgrades[c] = 0 /\ Spent(c)
    BY <1>0, <1>1 DEF ChallengesInv
<1>3. /\ mfa'[p].at # "session"
      /\ \A q \in MfaRequest : q # p => mfa'[q] = mfa[q]
  <2>1. CASE MfaEnd(p)
      BY <1>0, <2>1 DEF MfaEnd, NoHandler
  <2>2. CASE MfaGoto(p, "device")
      BY <1>0, <1>1, <2>2 DEF MfaGoto, Handler
  <2> QED
      BY <2>1, <2>2 DEF IssueMfaSession
<1>4. \A q \in MfaRequest : mfa'[q].at = "session" =>
        /\ mfa'[q] = mfa[q] /\ mfa[q].challenge \in Challenge /\ mfa[q].challenge # c
    BY <1>0, <1>1, <1>3, HandlerFields DEF ChallengesInv, MfaPcs
<1>5. \A d \in Challenge : upgrades'[d] \in {0, 1} /\ (upgrades'[d] = 1 => Spent(d)')
    BY <1>0, <1>1, <1>2 DEF ChallengesInv, Spent
<1>6. ASSUME NEW q \in MfaRequest, mfa'[q].at = "session"
      PROVE  /\ challenges'[mfa'[q].challenge].state = "consumed"
             /\ challenges'[mfa'[q].challenge].attempts < MaxAttempts
             /\ upgrades'[mfa'[q].challenge] = 0
    BY <1>0, <1>1, <1>4, <1>6 DEF ChallengesInv, Spent
<1>7. ASSUME NEW q \in MfaRequest, NEW r \in MfaRequest, mfa'[q].at = "session",
             mfa'[r].at = "session", mfa'[q].challenge = mfa'[r].challenge
      PROVE  q = r
    BY <1>0, <1>4, <1>7 DEF ChallengesInv
<1> QED
    BY <1>5, <1>6, <1>7 DEF ChallengesInv, Spent

\* A request's steps other than consume() and the session that follows.
NoIssue(p) ==
    \/ \E op \in Ops, c \in Challenge, code \in Presented, remember \in BOOLEAN :
         MfaArrive(p, op, c, code, remember)
    \/ LoadOpen(p) \/ ReadUser(p) \/ RedeemBackup(p) \/ AdvanceFloor(p) \/ RejectCode(p)
    \/ \E d \in Device : IssueDevice(p, d)
    \/ StartEnrolment(p) \/ ConfirmEnrolment(p) \/ DisableMfa(p) \/ AdminReset(p)
    \/ \E b \in BackupCode : GenerateCodes(p, b)
    \/ MfaCrash(p)

LEMMA ChallengesStep ==
    ASSUME MfaInv, MfaNext PROVE ChallengesInv'
<1>0. challenges \in [Challenge -> ChallengeRow]
    BY DEF MfaInv, MfaTypeOK
<1>1. ASSUME \A p \in MfaRequest : ~ConsumeChallenge(p) /\ ~IssueMfaSession(p)
      PROVE  ChallengesInv'
  <2>1. HandlersMove
      BY <1>1, MovesOfNext
  <2>2. upgrades' = upgrades
    <3>1. ASSUME \/ \E c \in Challenge : MintChallenge(c) \/ ExpireChallenge(c)
                 \/ \E d \in Device : RevokeDevice(d)
                 \/ TotpTick
          PROVE  upgrades' = upgrades
        BY <3>1 DEF MintChallenge, ExpireChallenge, RevokeDevice, TotpTick, mfaObservers
    <3>2. ASSUME NEW p \in MfaRequest, NoIssue(p) PROVE upgrades' = upgrades
      <4>1. CASE RedeemBackup(p) \/ AdvanceFloor(p) \/ StartEnrolment(p) \/ ConfirmEnrolment(p)
                   \/ DisableMfa(p) \/ AdminReset(p)
          BY <4>1 DEF RedeemBackup, AdvanceFloor, StartEnrolment, ConfirmEnrolment, DisableMfa,
             AdminReset
      <4> QED
          BY <3>2, <4>1 DEF NoIssue, MfaArrive, LoadOpen, ReadUser, RejectCode, IssueDevice,
             GenerateCodes, MfaCrash, mfaObservers
    <3> QED
        BY <1>1, <3>1, <3>2 DEF MfaNext, NoIssue
  <2>3. CASE challenges' = challenges
      BY <2>1, <2>2, <2>3, ChallengesRest
  <2>4. CASE challenges' # challenges
    <3>1. \/ \E c \in Challenge : MintChallenge(c) \/ ExpireChallenge(c)
          \/ \E p \in MfaRequest : RejectCode(p) \/ AdminReset(p)
      <4>1. ASSUME NEW p \in MfaRequest, NoIssue(p), ~RejectCode(p), ~AdminReset(p)
            PROVE  challenges' = challenges
        <5>1. CASE RedeemBackup(p) \/ AdvanceFloor(p) \/ StartEnrolment(p) \/ ConfirmEnrolment(p)
                     \/ DisableMfa(p)
            BY <5>1 DEF RedeemBackup, AdvanceFloor, StartEnrolment, ConfirmEnrolment, DisableMfa
        <5> QED
            BY <4>1, <5>1 DEF NoIssue, MfaArrive, LoadOpen, ReadUser, IssueDevice, GenerateCodes,
               MfaCrash, mfaRows
      <4>2. ASSUME (\E d \in Device : RevokeDevice(d)) \/ TotpTick PROVE challenges' = challenges
          BY <4>2 DEF RevokeDevice, TotpTick, mfaRows
      <4> QED
          BY <1>1, <2>4, <4>1, <4>2 DEF MfaNext, NoIssue
    <3>2. ASSUME NEW c \in Challenge, Spent(c) PROVE challenges'[c] = challenges[c]
        BY <1>0, <3>1, <3>2 DEF MintChallenge, ExpireChallenge, RejectCode, AdminReset, Spent,
           Counts, Open
    <3> QED
        BY <2>1, <2>2, <3>2, ChallengesRest
  <2> QED
      BY <2>3, <2>4
<1> QED
    BY <1>1, ConsumeChallenges, IssueChallenges

-----------------------------------------------------------------------------
LEMMA MfaStep == MfaInv /\ [MfaNext]_mfaVars => MfaInv'
<1> SUFFICES ASSUME MfaInv, [MfaNext]_mfaVars PROVE MfaInv'
    OBVIOUS
<1>1. CASE MfaNext
    BY <1>1, MfaTypeStep, HandlersStep, CodesStep, ChallengesStep DEF MfaInv
<1>2. CASE UNCHANGED mfaVars
  <2>1. MfaTypeOK'
      BY <1>2 DEF MfaInv, MfaTypeOK, mfaVars
  <2>2. CodesInv'
      BY <1>2, CodesRest DEF MfaInv, mfaVars
  <2>3. ChallengesInv'
      BY <1>2, ChallengesRest DEF MfaInv, mfaVars, HandlersMove
  <2>4. ASSUME NEW p \in MfaRequest PROVE HandlerSound(mfa[p])'
    <3>1. HandlerSound(mfa[p]) /\ mfa'[p] = mfa[p]
        BY <1>2 DEF MfaInv, mfaVars
    <3> QED
        BY <3>1 DEF HandlerSound
  <2> QED
      BY <2>1, <2>2, <2>3, <2>4 DEF MfaInv
<1> QED
    BY <1>1, <1>2

\* The inductive invariant holds of the second factor at any time.
THEOREM MfaSafe == MfaSpec => []MfaInv
BY MfaInitInv, MfaStep, PTL DEF MfaSpec

\* However verifications, regenerations, resets, expiries and crashes overlap, a
\* challenge becomes at most one session and none once its attempts are used up, a
\* backup code is accepted once, and a TOTP code signs in once while the floor only
\* advances.
THEOREM SecondFactorsSpentOnce == MfaSpec => []FactorsSpentOnce
<1>1. MfaInv => FactorsSpentOnce
  <2> SUFFICES ASSUME MfaInv PROVE FactorsSpentOnce
      OBVIOUS
  <2>1. CodesSpentOnce
      BY DEF MfaInv, CodesInv, CodesSpentOnce
  <2>2. ASSUME NEW c \in Challenge
        PROVE  upgrades[c] <= IF challenges[c].attempts = MaxAttempts THEN 0 ELSE 1
    <3>1. /\ upgrades[c] \in {0, 1}
          /\ upgrades[c] = 1 => challenges[c].attempts < MaxAttempts
        BY DEF MfaInv, ChallengesInv, Spent
    <3> QED
        BY <3>1, MfaConstants
  <2> QED
      BY <2>1, <2>2 DEF FactorsSpentOnce, ChallengesSpentOnce
<1> QED
    BY <1>1, MfaSafe, PTL

\* The rows of the second factor keep their types; no challenge counts attempts
\* beyond its limit.
THEOREM MfaTypeCorrect == MfaSpec => []MfaTypeOK
<1>1. MfaInv => MfaTypeOK
    BY DEF MfaInv
<1> QED
    BY <1>1, MfaSafe, PTL

-----------------------------------------------------------------------------
(* Password resets *)

AboutRequest == {"poll", "judge", "detail", "flip", "decide", "mint", "stampGrant", "link", "complete"}
AboutChallenge == {"guardCode", "stamp", "reject", "guardPassword", "change", "findLinked"}
AboutNothing == {"sweep", "findOpen", "cooldown", "recheck", "insert"}

\* What a call is about, and that only an approval is ever claimed.
CallSound(h) ==
    h \in Call =>
        /\ h.at \in AboutRequest => h.target \in ResetRequest
        /\ h.at \in AboutChallenge => h.target \in ResetChallenge
        /\ h.at \in {"stampGrant", "link"} => h.minted \in ResetChallenge
        /\ h.at \in {"mint", "stampGrant", "link"} => decisions[h.target] = {"APPROVED"}

\* The status of a request is its only decision, or there was none yet.
DecisionsInv ==
    \A r \in ResetRequest :
        /\ resetRequests[r].status \in {"absent", "PENDING"} => decisions[r] = {}
        /\ resetRequests[r].status \in {"APPROVED", "DENIED"} =>
             decisions[r] = {resetRequests[r].status}

\* A challenge that authorised a change, or is older than one, is consumed.
ChangesInv ==
    /\ \A c \in ResetChallenge : changes[c] \in {0, 1}
    /\ \A c \in ResetChallenge : changes[c] = 1 \/ c \in outdated =>
         resetChallenges[c].state = "consumed"

\* The inductive invariant of password resets.
ResetInv ==
    /\ ResetTypeOK
    /\ \A p \in ResetCall : CallSound(calls[p])
    /\ DecisionsInv
    /\ ChangesInv
    /\ GrantsWereApproved

LEMMA CallFields ==
    ASSUME NEW h \in Call \cup {NoCall}
    PROVE  /\ h.at \in AboutRequest \cup AboutChallenge \cup AboutNothing <=> h \in Call
           /\ h \in Call => /\ h.at \in AboutRequest \cup AboutChallenge \cup AboutNothing
                            /\ h.target \in ResetRequest \cup ResetChallenge \cup {NoId}
                            /\ h.seen \in RequestStatus
                            /\ h.minted \in ResetChallenge \cup {NoId}
BY DEF Call, NoCall, AboutRequest, AboutChallenge, AboutNothing

LEMMA ResetInitInv == ResetInit => ResetInv
<1> SUFFICES ASSUME ResetInit PROVE ResetInv
    OBVIOUS
<1>1. ResetTypeOK
  <2>1. NoRequest \in RequestRow /\ NoResetChallenge \in ResetChallengeRow
      BY ResetAssumption DEF NoRequest, RequestRow, RequestStatus, NoResetChallenge, ResetChallengeRow
  <2> QED
      BY <2>1 DEF ResetInit, ResetTypeOK
<1>2. ASSUME NEW p \in ResetCall PROVE CallSound(calls[p])
    BY DEF ResetInit, CallSound, Call, NoCall
<1>3. DecisionsInv /\ ChangesInv /\ GrantsWereApproved
    BY DEF ResetInit, DecisionsInv, ChangesInv, GrantsWereApproved, NoRequest, NoResetChallenge
<1> QED
    BY <1>1, <1>2, <1>3 DEF ResetInv

\* A step in which the call of p becomes h, or no call moves.
CallsMove ==
    \/ calls' = calls
    \/ \E p \in ResetCall, h \in Call \cup {NoCall} :
         calls' = [calls EXCEPT ![p] = h] /\ CallSound(h)

LEMMA FinishMoves == ASSUME NEW p \in ResetCall, Finish(p) PROVE CallsMove
<1>1. CallSound(NoCall)
    BY DEF CallSound, NoCall, Call
<1> QED
    BY <1>1 DEF Finish, CallsMove

LEMMA GotoMoves ==
    ASSUME ResetInv, NEW p \in ResetCall, calls[p] \in Call,
           NEW l, NEW s \in RequestStatus,
           calls' = [calls EXCEPT ![p] = [calls[p] EXCEPT !.at = l, !.seen = s]],
           \/ l \in AboutRequest \ {"mint", "stampGrant", "link"} /\ calls[p].target \in ResetRequest
           \/ l \in AboutChallenge /\ calls[p].target \in ResetChallenge
           \/ l \in AboutNothing
           \/ l = "mint" /\ calls[p].target \in ResetRequest
                /\ decisions[calls[p].target] = {"APPROVED"}
    PROVE  CallsMove
<1>1. PICK g : g = [calls[p] EXCEPT !.at = l, !.seen = s]
    OBVIOUS
<1>2. l \in AboutRequest \cup AboutChallenge \cup AboutNothing
    BY DEF AboutRequest
<1>3. g \in Call /\ g.at = l /\ g.target = calls[p].target /\ g.minted = calls[p].minted
    BY <1>1, <1>2 DEF Call, AboutRequest, AboutChallenge, AboutNothing
<1>4. CallSound(g)
    BY <1>3 DEF CallSound, AboutRequest, AboutChallenge, AboutNothing
<1> QED
    BY <1>1, <1>3, <1>4 DEF CallsMove

\* The same without a new status.
LEMMA PlainGotoMoves ==
    ASSUME ResetInv, NEW p \in ResetCall, calls[p] \in Call, NEW l, Goto(p, l),
           \/ l \in AboutRequest \ {"mint", "stampGrant", "link"} /\ calls[p].target \in ResetRequest
           \/ l \in AboutChallenge /\ calls[p].target \in ResetChallenge
           \/ l \in AboutNothing
    PROVE  CallsMove
<1>1. PICK s : s = calls[p].seen
    OBVIOUS
<1>2. s \in RequestStatus
    BY <1>1 DEF Call
<1>3. [calls[p] EXCEPT !.at = l] = [calls[p] EXCEPT !.at = l, !.seen = s]
    BY <1>1 DEF Call
<1>4. calls' = [calls EXCEPT ![p] = [calls[p] EXCEPT !.at = l, !.seen = s]]
    BY <1>3 DEF Goto
<1> QED
    BY <1>2, <1>4, GotoMoves

LEMMA BeginMoves ==
    ASSUME ResetInv, NEW p \in ResetCall, NEW l, NEW t, Begin(p, l, t),
           \/ l = "sweep" /\ t = NoId
           \/ l \in {"poll", "judge", "detail"} /\ t \in ResetRequest
           \/ l \in {"guardCode", "guardPassword"} /\ t \in ResetChallenge
    PROVE  CallsMove
<1> DEFINE h == [at |-> l, target |-> t, seen |-> "absent", minted |-> NoId]
<1>1. h \in Call
    BY DEF Call, RequestStatus
<1>2. h.at = l /\ h.target = t
    OBVIOUS
<1>3. calls' = [calls EXCEPT ![p] = h]
    BY DEF Begin
<1> HIDE DEF h
<1>4. CallSound(h)
    BY <1>2 DEF CallSound, AboutRequest, AboutChallenge
<1> QED
    BY <1>1, <1>3, <1>4 DEF CallsMove

\* A call is about what its program counter says.
LEMMA CallTarget ==
    ASSUME ResetInv, NEW p \in ResetCall
    PROVE  /\ calls[p].at \in AboutNothing => calls[p] \in Call
           /\ calls[p].at \in AboutRequest => calls[p] \in Call /\ calls[p].target \in ResetRequest
           /\ calls[p].at \in AboutChallenge => calls[p] \in Call /\ calls[p].target \in ResetChallenge
BY CallFields DEF ResetInv, ResetTypeOK, CallSound

\* The owner's poll claims only what is approved.
LEMMA PollMoves ==
    ASSUME ResetInv, NEW p \in ResetCall, ReadForOwner(p) PROVE CallsMove
<1>1. calls[p] \in Call /\ calls[p].target \in ResetRequest
    BY CallTarget DEF ReadForOwner, AboutRequest
<1> DEFINE r == calls[p].target
           row == resetRequests[r]
<1>2. row.status \in RequestStatus /\ calls[p].seen \in RequestStatus
    BY <1>1 DEF ResetInv, ResetTypeOK, RequestRow, Call
<1>3. CASE r \in OverdueOpen
  <2>1. row.overdue
      BY <1>3 DEF OverdueOpen
  <2>2. calls' = [calls EXCEPT ![p] = [calls[p] EXCEPT !.at = "flip", !.seen = row.status]]
      BY <1>3, <2>1 DEF ReadForOwner, ResetRow
  <2> QED
      BY <1>1, <1>2, <2>2, GotoMoves DEF AboutRequest
<1>4. CASE r \notin OverdueOpen /\ row.status = "APPROVED" /\ ~row.completed /\ ~row.overdue
  <2>1. PICK s : s = calls[p].seen
      OBVIOUS
  <2>2. [calls[p] EXCEPT !.at = "mint"] = [calls[p] EXCEPT !.at = "mint", !.seen = s]
      BY <1>1, <2>1 DEF Call
  <2>3. calls' = [calls EXCEPT ![p] = [calls[p] EXCEPT !.at = "mint"]]
      BY <1>4 DEF ReadForOwner, ResetRow
  <2>4. calls' = [calls EXCEPT ![p] = [calls[p] EXCEPT !.at = "mint", !.seen = s]]
      BY <2>2, <2>3
  <2>5. decisions[r] = {"APPROVED"}
      BY <1>1, <1>4 DEF ResetInv, DecisionsInv
  <2> QED
      BY <1>1, <1>2, <2>1, <2>4, <2>5, GotoMoves
<1>5. CASE r \notin OverdueOpen /\ ~(row.status = "APPROVED" /\ ~row.completed /\ ~row.overdue)
  <2>1. Finish(p)
      BY <1>5 DEF ReadForOwner, ResetRow, Finish
  <2> QED
      BY <2>1, FinishMoves
<1> QED
    BY <1>3, <1>4, <1>5

LEMMA JudgeMoves ==
    ASSUME ResetInv, NEW p \in ResetCall, Judge(p) PROVE CallsMove
<1>1. calls[p] \in Call /\ calls[p].target \in ResetRequest
    BY CallTarget DEF Judge, AboutRequest
<1> DEFINE row == resetRequests[calls[p].target]
<1>2. calls[p].seen \in RequestStatus /\ "PENDING" \in RequestStatus
    BY <1>1 DEF Call, RequestStatus
<1>3. CASE row.status = "PENDING" /\ row.overdue
  <2>1. calls' = [calls EXCEPT ![p] = [calls[p] EXCEPT !.at = "flip", !.seen = "PENDING"]]
      BY <1>3 DEF Judge, ResetRow
  <2> QED
      BY <1>1, <1>2, <2>1, GotoMoves DEF AboutRequest
<1>4. CASE row.status = "PENDING" /\ ~row.overdue
  <2>1. Goto(p, "decide")
      BY <1>4 DEF Judge, ResetRow, Goto
  <2> QED
      BY <1>1, <2>1, PlainGotoMoves DEF AboutRequest
<1>5. CASE row.status # "PENDING"
  <2>1. Finish(p)
      BY <1>5 DEF Judge, ResetRow, Finish
  <2> QED
      BY <2>1, FinishMoves
<1> QED
    BY <1>3, <1>4, <1>5

LEMMA DetailMoves ==
    ASSUME ResetInv, NEW p \in ResetCall, ReadDetail(p) PROVE CallsMove
<1>1. calls[p] \in Call /\ calls[p].target \in ResetRequest
    BY CallTarget DEF ReadDetail, AboutRequest
<1>2. resetRequests[calls[p].target].status \in RequestStatus
    BY <1>1 DEF ResetInv, ResetTypeOK, RequestRow
<1>3. CASE calls[p].target \in OverdueOpen
  <2>1. calls' = [calls EXCEPT ![p] =
                    [calls[p] EXCEPT !.at = "flip", !.seen = resetRequests[calls[p].target].status]]
      BY <1>3 DEF ReadDetail, ResetRow
  <2> QED
      BY <1>1, <1>2, <2>1, GotoMoves DEF AboutRequest
<1>4. CASE calls[p].target \notin OverdueOpen
  <2>1. Finish(p)
      BY <1>4 DEF ReadDetail, Finish
  <2> QED
      BY <2>1, FinishMoves
<1> QED
    BY <1>3, <1>4

LEMMA GuardMoves ==
    ASSUME ResetInv, NEW p \in ResetCall, NEW right \in BOOLEAN,
           GuardCode(p, right) \/ GuardPassword(p, right)
    PROVE  CallsMove
<1>1. calls[p] \in Call /\ calls[p].target \in ResetChallenge
    BY CallTarget DEF GuardCode, GuardPassword, AboutChallenge
<1>2. Finish(p) \/ \E l \in {"stamp", "reject", "change"} : Goto(p, l)
    BY DEF GuardCode, GuardPassword, Finish, Goto
<1> QED
    BY <1>1, <1>2, FinishMoves, PlainGotoMoves DEF AboutChallenge

\* The claim of an approval: mint, stamp, link.
LEMMA ClaimMoves ==
    ASSUME ResetInv, NEW p \in ResetCall,
           StampGrant(p) \/ LinkChallenge(p) \/ \E c \in ResetChallenge : MintForClaim(p, c)
    PROVE  CallsMove
<1>0. calls[p] \in Call /\ calls[p].target \in ResetRequest /\ CallSound(calls[p])
    BY CallTarget DEF StampGrant, LinkChallenge, MintForClaim, AboutRequest, ResetInv
<1>1. ASSUME NEW c \in ResetChallenge, MintForClaim(p, c) PROVE CallsMove
  <2>1. PICK h : h = [calls[p] EXCEPT !.at = "stampGrant", !.minted = c]
      OBVIOUS
  <2>2. h \in Call /\ h.at = "stampGrant" /\ h.minted = c /\ h.target = calls[p].target
      BY <1>0, <2>1 DEF Call
  <2>3. calls[p].at = "mint" /\ calls' = [calls EXCEPT ![p] = h]
      BY <1>1, <2>1 DEF MintForClaim
  <2>4. CallSound(h)
      BY <1>0, <2>2, <2>3 DEF CallSound, AboutRequest, AboutChallenge
  <2> QED
      BY <2>2, <2>3, <2>4 DEF CallsMove
<1>2. CASE StampGrant(p)
  <2>1. CASE Finish(p)
      BY <2>1, FinishMoves
  <2>2. CASE ~Finish(p)
    <3>1. PICK h : h = [calls[p] EXCEPT !.at = "link"]
        OBVIOUS
    <3>2. h \in Call /\ h.at = "link" /\ h.minted = calls[p].minted /\ h.target = calls[p].target
        BY <1>0, <3>1 DEF Call
    <3>3. calls[p].at = "stampGrant" /\ calls' = [calls EXCEPT ![p] = h]
        BY <1>2, <2>2, <3>1 DEF StampGrant, Goto
    <3>4. CallSound(h)
        BY <1>0, <3>2, <3>3 DEF CallSound, AboutRequest, AboutChallenge
    <3> QED
        BY <3>2, <3>3, <3>4 DEF CallsMove
  <2> QED
      BY <2>1, <2>2
<1>3. CASE LinkChallenge(p)
    BY <1>3, FinishMoves DEF LinkChallenge
<1> QED
    BY <1>1, <1>2, <1>3

\* The remaining steps end a call or go on about the same thing.
LEMMA PlainMoves ==
    ASSUME ResetInv, NEW p \in ResetCall,
           \/ SweepOverdue(p) \/ FindOpen(p) \/ CheckCooldown(p) \/ Recheck(p) \/ InsertRequest(p)
           \/ FlipOverdue(p) \/ StampFactor(p) \/ CountAttempt(p) \/ ChangePassword(p)
           \/ \E verdict \in {"APPROVED", "DENIED"} : Decide(p, verdict)
           \/ \E r \in ResetRequest : FindLinked(p, r)
           \/ FindNoLinked(p) \/ CompleteRequest(p) \/ ResetCrash(p)
    PROVE  CallsMove
<1>1. CASE SweepOverdue(p) \/ FindOpen(p) \/ CheckCooldown(p) \/ Recheck(p)
  <2>1. calls[p] \in Call
      BY <1>1, CallTarget DEF SweepOverdue, FindOpen, CheckCooldown, Recheck, AboutNothing
  <2>2. Finish(p) \/ \E l \in AboutNothing : Goto(p, l)
      BY <1>1 DEF SweepOverdue, FindOpen, CheckCooldown, Recheck, AboutNothing
  <2> QED
      BY <2>1, <2>2, FinishMoves, PlainGotoMoves
<1>2. CASE \/ InsertRequest(p) \/ FlipOverdue(p) \/ StampFactor(p) \/ CountAttempt(p)
           \/ FindNoLinked(p) \/ CompleteRequest(p) \/ ResetCrash(p)
    BY <1>2, FinishMoves DEF InsertRequest, FlipOverdue, StampFactor, CountAttempt, FindNoLinked,
       CompleteRequest, ResetCrash
<1>3. CASE ChangePassword(p)
  <2>1. calls[p] \in Call /\ calls[p].target \in ResetChallenge
      BY <1>3, CallTarget DEF ChangePassword, AboutChallenge
  <2>2. Finish(p) \/ Goto(p, "findLinked")
      BY <1>3 DEF ChangePassword
  <2> QED
      BY <2>1, <2>2, FinishMoves, PlainGotoMoves DEF AboutChallenge
<1>4. ASSUME NEW verdict \in {"APPROVED", "DENIED"}, Decide(p, verdict) PROVE CallsMove
  <2>1. calls[p] \in Call /\ calls[p].target \in ResetRequest
      BY <1>4, CallTarget DEF Decide, AboutRequest
  <2>2. Finish(p) \/ Goto(p, "detail")
      BY <1>4 DEF Decide
  <2> QED
      BY <2>1, <2>2, FinishMoves, PlainGotoMoves DEF AboutRequest
<1>5. ASSUME NEW r \in ResetRequest, FindLinked(p, r) PROVE CallsMove
  <2>1. calls[p] \in Call
      BY <1>5, CallTarget DEF FindLinked, AboutChallenge
  <2>2. PICK h : h = [calls[p] EXCEPT !.at = "complete", !.target = r]
      OBVIOUS
  <2>3. h \in Call /\ h.at = "complete" /\ h.target = r
      BY <2>1, <2>2 DEF Call
  <2>4. CallSound(h)
      BY <2>3 DEF CallSound, AboutChallenge
  <2> QED
      BY <1>5, <2>2, <2>3, <2>4 DEF CallsMove, FindLinked
<1> QED
    BY <1>1, <1>2, <1>3, <1>4, <1>5

LEMMA CallMovesOfNext == ASSUME ResetInv, ResetNext PROVE CallsMove
<1>1. ASSUME NEW p \in ResetCall, Begin(p, "sweep", NoId) PROVE CallsMove
    BY <1>1, BeginMoves
<1>2. ASSUME NEW p \in ResetCall, NEW r \in ResetRequest, NEW l \in {"poll", "judge", "detail"},
             Begin(p, l, r)
      PROVE  CallsMove
    BY <1>2, BeginMoves
<1>3. ASSUME NEW p \in ResetCall, NEW c \in Minted, NEW l \in {"guardCode", "guardPassword"},
             Begin(p, l, c)
      PROVE  CallsMove
    BY <1>3, BeginMoves DEF Minted
<1>4. ASSUME \/ \E c \in ResetChallenge : Initiate(c) \/ ExpireResetChallenge(c)
             \/ \E r \in ResetRequest : ExpireRequest(r) \/ CooldownElapses(r)
             \/ AdminList \/ AdminSetPassword
      PROVE  CallsMove
    BY <1>4 DEF Initiate, ExpireResetChallenge, ExpireRequest, CooldownElapses, AdminList,
       AdminSetPassword, CallsMove
<1> QED
    BY <1>1, <1>2, <1>3, <1>4, PollMoves, JudgeMoves, DetailMoves, GuardMoves, ClaimMoves, PlainMoves
    DEF ResetNext

\* What one step may do to a request: expire it, create it, or decide it once.
RequestMoves(r) ==
    \/ resetRequests'[r].status = resetRequests[r].status /\ decisions'[r] = decisions[r]
    \/ resetRequests'[r].status = "EXPIRED" /\ decisions'[r] = decisions[r]
    \/ /\ resetRequests[r].status = "absent" /\ resetRequests'[r].status = "PENDING"
       /\ decisions'[r] = decisions[r]
    \/ /\ resetRequests[r].status = "PENDING"
       /\ \E v \in {"APPROVED", "DENIED"} :
            resetRequests'[r].status = v /\ decisions'[r] = decisions[r] \cup {v}

RequestsMove ==
    /\ resetRequests' \in [ResetRequest -> RequestRow]
    /\ decisions' \in [ResetRequest -> SUBSET {"APPROVED", "DENIED"}]
    /\ \A r \in ResetRequest : RequestMoves(r)

LEMMA SameRequestsMove ==
    ASSUME ResetInv, UNCHANGED <<resetRequests, decisions>> PROVE RequestsMove
BY DEF ResetInv, ResetTypeOK, RequestsMove, RequestMoves

LEMMA ExpiryMoves ==
    ASSUME ResetInv, NEW rows, SetStatus(rows, "EXPIRED"), UNCHANGED decisions PROVE RequestsMove
<1>1. ASSUME NEW r \in ResetRequest PROVE resetRequests'[r] \in RequestRow /\ RequestMoves(r)
  <2>1. resetRequests[r] \in RequestRow
      BY DEF ResetInv, ResetTypeOK
  <2>2. PICK g : g = [resetRequests[r] EXCEPT !.status = "EXPIRED"]
      OBVIOUS
  <2>3. g \in RequestRow /\ g.status = "EXPIRED"
      BY <2>1, <2>2 DEF RequestRow, RequestStatus
  <2>4. resetRequests'[r] = g \/ resetRequests'[r] = resetRequests[r]
      BY <2>2 DEF SetStatus
  <2> QED
      BY <2>1, <2>3, <2>4 DEF RequestMoves
<1>2. resetRequests' = [r \in ResetRequest |-> resetRequests'[r]]
    BY DEF SetStatus
<1>3. resetRequests' \in [ResetRequest -> RequestRow]
    BY <1>1, <1>2
<1> QED
    BY <1>1, <1>3 DEF RequestsMove, ResetInv, ResetTypeOK

\* A step that rewrites one row and decides nothing.
LEMMA RowMoves ==
    ASSUME ResetInv, NEW r \in ResetRequest, NEW g \in RequestRow,
           resetRequests' = [resetRequests EXCEPT ![r] = g], UNCHANGED decisions,
           \/ g.status = resetRequests[r].status
           \/ resetRequests[r].status = "absent" /\ g.status = "PENDING"
    PROVE  RequestsMove
<1>1. resetRequests \in [ResetRequest -> RequestRow]
    BY DEF ResetInv, ResetTypeOK
<1>2. resetRequests' \in [ResetRequest -> RequestRow]
    BY <1>1
<1>3. ASSUME NEW q \in ResetRequest PROVE RequestMoves(q)
    BY <1>1 DEF RequestMoves
<1> QED
    BY <1>2, <1>3 DEF RequestsMove, ResetInv, ResetTypeOK

LEMMA InsertMoves ==
    ASSUME ResetInv, NEW p \in ResetCall, InsertRequest(p) PROVE RequestsMove
<1>1. CASE UNCHANGED resetRequests
    BY <1>1, SameRequestsMove DEF InsertRequest, resetLog
<1>2. CASE ~UNCHANGED resetRequests
  <2>1. PICK g : g = [NoRequest EXCEPT !.status = "PENDING", !.cooling = TRUE]
      OBVIOUS
  <2>2. g \in RequestRow /\ g.status = "PENDING"
      BY <2>1 DEF NoRequest, RequestRow, RequestStatus
  <2>3. PICK r \in ResetRequest : /\ resetRequests[r].status = "absent"
                                  /\ resetRequests' = [resetRequests EXCEPT ![r] = g]
      BY <1>2, <2>1 DEF InsertRequest
  <2>4. UNCHANGED decisions
      BY DEF InsertRequest, resetLog
  <2> QED
      BY <2>2, <2>3, <2>4, RowMoves
<1> QED
    BY <1>1, <1>2

\* Linking, completing and the passing of time leave the status alone.
LEMMA MarkMoves ==
    ASSUME ResetInv,
           \/ \E p \in ResetCall : LinkChallenge(p) \/ CompleteRequest(p)
           \/ \E r \in ResetRequest : ExpireRequest(r) \/ CooldownElapses(r)
    PROVE  RequestsMove
<1>0. UNCHANGED decisions
    BY DEF LinkChallenge, CompleteRequest, ExpireRequest, CooldownElapses, resetLog
<1>1. ASSUME NEW p \in ResetCall, LinkChallenge(p) PROVE RequestsMove
  <2>1. calls[p].target \in ResetRequest /\ calls[p].minted \in ResetChallenge
      BY <1>1, CallTarget DEF LinkChallenge, AboutRequest, ResetInv, CallSound
  <2>2. resetRequests[calls[p].target] \in RequestRow
      BY <2>1 DEF ResetInv, ResetTypeOK
  <2>3. PICK g : g = [resetRequests[calls[p].target] EXCEPT !.challenge = calls[p].minted]
      OBVIOUS
  <2>4. g \in RequestRow /\ g.status = resetRequests[calls[p].target].status
      BY <2>1, <2>2, <2>3 DEF RequestRow
  <2>5. resetRequests' = [resetRequests EXCEPT ![calls[p].target] = g]
      BY <1>1, <2>3 DEF LinkChallenge
  <2> QED
      BY <1>0, <2>1, <2>4, <2>5, RowMoves
<1>2. ASSUME NEW p \in ResetCall, CompleteRequest(p) PROVE RequestsMove
  <2>1. calls[p].target \in ResetRequest
      BY <1>2, CallTarget DEF CompleteRequest, AboutRequest
  <2>2. resetRequests[calls[p].target] \in RequestRow
      BY <2>1 DEF ResetInv, ResetTypeOK
  <2>3. PICK g : g = [resetRequests[calls[p].target] EXCEPT !.completed = TRUE]
      OBVIOUS
  <2>4. g \in RequestRow /\ g.status = resetRequests[calls[p].target].status
      BY <2>2, <2>3 DEF RequestRow
  <2>5. resetRequests' = [resetRequests EXCEPT ![calls[p].target] = g]
      BY <1>2, <2>3 DEF CompleteRequest
  <2> QED
      BY <1>0, <2>1, <2>4, <2>5, RowMoves
<1>3. ASSUME NEW r \in ResetRequest, ExpireRequest(r) \/ CooldownElapses(r) PROVE RequestsMove
  <2>1. resetRequests[r] \in RequestRow
      BY DEF ResetInv, ResetTypeOK
  <2>2. PICK g : g = [resetRequests[r] EXCEPT !.overdue = TRUE, !.cooling = FALSE]
      OBVIOUS
  <2>3. PICK k : k = [resetRequests[r] EXCEPT !.cooling = FALSE]
      OBVIOUS
  <2>4. /\ g \in RequestRow /\ g.status = resetRequests[r].status
        /\ k \in RequestRow /\ k.status = resetRequests[r].status
      BY <2>1, <2>2, <2>3 DEF RequestRow
  <2>5. \/ resetRequests' = [resetRequests EXCEPT ![r] = g]
        \/ resetRequests' = [resetRequests EXCEPT ![r] = k]
      BY <1>3, <2>2, <2>3 DEF ExpireRequest, CooldownElapses
  <2> QED
      BY <1>0, <2>4, <2>5, RowMoves
<1> QED
    BY <1>1, <1>2, <1>3

LEMMA DecideMoves ==
    ASSUME ResetInv, NEW p \in ResetCall, NEW v \in {"APPROVED", "DENIED"}, Decide(p, v)
    PROVE  RequestsMove
<1>1. CASE ~Undecided(p)
    BY <1>1, SameRequestsMove DEF Decide
<1>2. CASE Undecided(p)
  <2>1. PICK r : r = calls[p].target
      OBVIOUS
  <2>2. r \in ResetRequest
      BY <2>1, CallTarget DEF Decide, AboutRequest
  <2>3. /\ resetRequests \in [ResetRequest -> RequestRow]
        /\ decisions \in [ResetRequest -> SUBSET {"APPROVED", "DENIED"}]
      BY DEF ResetInv, ResetTypeOK
  <2>4. PICK g : g = [resetRequests[r] EXCEPT !.status = v]
      OBVIOUS
  <2>5. g \in RequestRow /\ g.status = v
      BY <2>2, <2>3, <2>4 DEF RequestRow, RequestStatus
  <2>6. /\ resetRequests[r].status = "PENDING"
        /\ resetRequests' = [resetRequests EXCEPT ![r] = g]
        /\ decisions' = [decisions EXCEPT ![r] = decisions[r] \cup {v}]
      BY <1>2, <2>1, <2>4 DEF Decide, Undecided, ResetRow
  <2>7. /\ resetRequests' \in [ResetRequest -> RequestRow]
        /\ decisions' \in [ResetRequest -> SUBSET {"APPROVED", "DENIED"}]
      BY <2>2, <2>3, <2>5, <2>6
  <2>8. ASSUME NEW q \in ResetRequest PROVE RequestMoves(q)
      BY <2>2, <2>3, <2>5, <2>6 DEF RequestMoves
  <2> QED
      BY <2>7, <2>8 DEF RequestsMove
<1> QED
    BY <1>1, <1>2

LEMMA RequestMovesOfNext == ASSUME ResetInv, ResetNext PROVE RequestsMove
<1>1. ASSUME NEW p \in ResetCall, SweepOverdue(p) \/ FlipOverdue(p) PROVE RequestsMove
    BY <1>1, ExpiryMoves DEF SweepOverdue, FlipOverdue, resetLog
<1>2. ASSUME AdminList PROVE RequestsMove
    BY <1>2, ExpiryMoves DEF AdminList, resetLog
<1>3. ASSUME NEW p \in ResetCall, NEW l, NEW t, Begin(p, l, t) PROVE RequestsMove
    BY <1>3, SameRequestsMove DEF Begin, resetLog
<1>4. ASSUME NEW p \in ResetCall,
             \/ FindOpen(p) \/ CheckCooldown(p) \/ Recheck(p) \/ ReadForOwner(p) \/ StampGrant(p)
             \/ (\E c \in ResetChallenge : MintForClaim(p, c)) \/ Judge(p) \/ ReadDetail(p)
             \/ (\E right \in BOOLEAN : GuardCode(p, right) \/ GuardPassword(p, right))
             \/ StampFactor(p) \/ CountAttempt(p) \/ ChangePassword(p)
             \/ (\E r \in ResetRequest : FindLinked(p, r)) \/ FindNoLinked(p) \/ ResetCrash(p)
      PROVE  RequestsMove
    BY <1>4, SameRequestsMove DEF FindOpen, CheckCooldown, Recheck, ReadForOwner, StampGrant,
       MintForClaim, Judge, ReadDetail, GuardCode, GuardPassword, StampFactor, CountAttempt,
       ChangePassword, FindLinked, FindNoLinked, ResetCrash, resetLog
<1>5. ASSUME \/ \E c \in ResetChallenge : Initiate(c) \/ ExpireResetChallenge(c)
             \/ AdminSetPassword
      PROVE  RequestsMove
    BY <1>5, SameRequestsMove DEF Initiate, ExpireResetChallenge, AdminSetPassword, resetLog
<1> QED
    BY <1>1, <1>2, <1>3, <1>4, <1>5, InsertMoves, MarkMoves, DecideMoves DEF ResetNext

\* What one step may do to a challenge: it stays consumed, it carries only an
\* approval, and the change it authorises consumes it.
ChallengeMoves(c) ==
    /\ resetChallenges[c].state = "consumed" => resetChallenges'[c].state = "consumed"
    /\ resetChallenges'[c].grant # resetChallenges[c].grant =>
         decisions[resetChallenges'[c].grant] = {"APPROVED"}
    /\ changes'[c] # changes[c] =>
         /\ changes'[c] = changes[c] + 1
         /\ resetChallenges[c].state = "open" /\ resetChallenges'[c].state = "consumed"
    /\ c \in outdated' \ outdated => resetChallenges'[c].state = "consumed"

ChallengesMove ==
    /\ resetChallenges' \in [ResetChallenge -> ResetChallengeRow]
    /\ changes' \in [ResetChallenge -> Nat]
    /\ outdated' \subseteq ResetChallenge
    /\ \A c \in ResetChallenge : ChallengeMoves(c)

LEMMA SameChallengesMove ==
    ASSUME ResetInv, UNCHANGED <<resetChallenges, changes, outdated>> PROVE ChallengesMove
BY DEF ResetInv, ResetTypeOK, ChallengesMove, ChallengeMoves

\* A step that rewrites one row and changes no password.
LEMMA ChallengeRowMoves ==
    ASSUME ResetInv, NEW c \in ResetChallenge, NEW g \in ResetChallengeRow,
           resetChallenges' = [resetChallenges EXCEPT ![c] = g], UNCHANGED <<changes, outdated>>,
           resetChallenges[c].state = "consumed" => g.state = "consumed",
           g.grant # resetChallenges[c].grant => decisions[g.grant] = {"APPROVED"}
    PROVE  ChallengesMove
<1>1. resetChallenges \in [ResetChallenge -> ResetChallengeRow]
    BY DEF ResetInv, ResetTypeOK
<1>2. resetChallenges' \in [ResetChallenge -> ResetChallengeRow]
    BY <1>1
<1>3. ASSUME NEW d \in ResetChallenge PROVE ChallengeMoves(d)
    BY <1>1 DEF ChallengeMoves
<1> QED
    BY <1>2, <1>3 DEF ChallengesMove, ResetInv, ResetTypeOK

\* Minting, expiring, stamping and counting.
LEMMA StateMoves ==
    ASSUME ResetInv, NEW c \in ResetChallenge, UNCHANGED <<changes, outdated>>,
           \/ NewChallenge(c)
           \/ resetChallenges[c].state = "open"
                /\ resetChallenges' = [resetChallenges EXCEPT ![c].state = "expired"]
           \/ resetChallenges' = [resetChallenges EXCEPT ![c].stamped = TRUE]
           \/ Usable(c) /\ resetChallenges' = [resetChallenges EXCEPT ![c].attempts = @ + 1]
    PROVE  ChallengesMove
<1>1. resetChallenges[c] \in ResetChallengeRow
    BY DEF ResetInv, ResetTypeOK
<1>2. ASSUME NEW s \in {"open", "expired"}, resetChallenges[c].state # "consumed",
             resetChallenges' = [resetChallenges EXCEPT ![c].state = s]
      PROVE  ChallengesMove
  <2>1. PICK g : g = [resetChallenges[c] EXCEPT !.state = s]
      OBVIOUS
  <2>2. g \in ResetChallengeRow /\ g.grant = resetChallenges[c].grant
      BY <1>1, <2>1 DEF ResetChallengeRow
  <2>3. resetChallenges' = [resetChallenges EXCEPT ![c] = g]
      BY <1>2, <2>1
  <2> QED
      BY <1>2, <2>2, <2>3, ChallengeRowMoves
<1>3. CASE resetChallenges' = [resetChallenges EXCEPT ![c].stamped = TRUE]
  <2>1. PICK g : g = [resetChallenges[c] EXCEPT !.stamped = TRUE]
      OBVIOUS
  <2>2. /\ g \in ResetChallengeRow /\ g.grant = resetChallenges[c].grant
        /\ g.state = resetChallenges[c].state
      BY <1>1, <2>1 DEF ResetChallengeRow
  <2>3. resetChallenges' = [resetChallenges EXCEPT ![c] = g]
      BY <1>3, <2>1
  <2> QED
      BY <2>2, <2>3, ChallengeRowMoves
<1>4. CASE Usable(c) /\ resetChallenges' = [resetChallenges EXCEPT ![c].attempts = @ + 1]
  <2>1. PICK g : g = [resetChallenges[c] EXCEPT !.attempts = @ + 1]
      OBVIOUS
  <2>2. resetChallenges[c].attempts + 1 \in 0 .. MaxResetAttempts
      BY <1>1, <1>4, ResetAssumption DEF Usable, ResetChallengeRow
  <2>3. /\ g \in ResetChallengeRow /\ g.grant = resetChallenges[c].grant
        /\ g.state = resetChallenges[c].state
      BY <1>1, <2>1, <2>2 DEF ResetChallengeRow
  <2>4. resetChallenges' = [resetChallenges EXCEPT ![c] = g]
      BY <1>4, <2>1
  <2> QED
      BY <2>3, <2>4, ChallengeRowMoves
<1> QED
    BY <1>2, <1>3, <1>4 DEF NewChallenge

\* The grant a claim stamps is the approved request it came from.
LEMMA GrantMoves ==
    ASSUME ResetInv, NEW p \in ResetCall, StampGrant(p) PROVE ChallengesMove
<1>1. CASE UNCHANGED resetChallenges
    BY <1>1, SameChallengesMove DEF StampGrant, resetLog
<1>2. CASE ~UNCHANGED resetChallenges
  <2>1. PICK c, r : c = calls[p].minted /\ r = calls[p].target
      OBVIOUS
  <2>2. c \in ResetChallenge /\ r \in ResetRequest /\ decisions[r] = {"APPROVED"}
      BY <2>1, CallTarget DEF StampGrant, AboutRequest, ResetInv, CallSound
  <2>3. resetChallenges[c] \in ResetChallengeRow
      BY <2>2 DEF ResetInv, ResetTypeOK
  <2>4. PICK g : g = [resetChallenges[c] EXCEPT !.stamped = TRUE, !.grant = r]
      OBVIOUS
  <2>5. g \in ResetChallengeRow /\ g.grant = r /\ g.state = resetChallenges[c].state
      BY <2>2, <2>3, <2>4 DEF ResetChallengeRow
  <2>6. resetChallenges' = [resetChallenges EXCEPT ![c].stamped = TRUE, ![c].grant = r]
      BY <1>2, <2>1 DEF StampGrant
  <2>7. resetChallenges' = [resetChallenges EXCEPT ![c] = g]
      BY <2>2, <2>3, <2>4, <2>6 DEF ResetInv, ResetTypeOK, ResetChallengeRow
  <2>8. UNCHANGED <<changes, outdated>>
      BY DEF StampGrant, resetLog
  <2> QED
      BY <2>2, <2>5, <2>7, <2>8, ChallengeRowMoves
<1> QED
    BY <1>1, <1>2

\* Revocation consumes whatever was ever minted.
LEMMA RevocationMoves ==
    ASSUME ResetInv, NEW d, resetChallenges' = RevokeChallenges(d)
    PROVE  /\ resetChallenges' \in [ResetChallenge -> ResetChallengeRow]
           /\ \A c \in ResetChallenge :
                /\ resetChallenges'[c].grant = resetChallenges[c].grant
                /\ c \in Minted => resetChallenges'[c].state = "consumed"
<1>1. ASSUME NEW c \in ResetChallenge
      PROVE  /\ resetChallenges'[c] \in ResetChallengeRow
             /\ resetChallenges'[c].grant = resetChallenges[c].grant
             /\ c \in Minted => resetChallenges'[c].state = "consumed"
  <2>1. resetChallenges[c] \in ResetChallengeRow
      BY DEF ResetInv, ResetTypeOK
  <2>2. PICK g : g = [resetChallenges[c] EXCEPT !.state = "consumed"]
      OBVIOUS
  <2>3. g \in ResetChallengeRow /\ g.grant = resetChallenges[c].grant /\ g.state = "consumed"
      BY <2>1, <2>2 DEF ResetChallengeRow
  <2>4. resetChallenges'[c] = IF c \in Minted THEN g ELSE resetChallenges[c]
      BY <2>2 DEF RevokeChallenges
  <2> QED
      BY <2>1, <2>3, <2>4
<1>2. resetChallenges' = [c \in ResetChallenge |-> resetChallenges'[c]]
    BY DEF RevokeChallenges
<1> QED
    BY <1>1, <1>2

LEMMA PasswordMoves ==
    ASSUME ResetInv, AdminSetPassword \/ \E p \in ResetCall : ChangePassword(p)
    PROVE  ChallengesMove
<1>0. changes \in [ResetChallenge -> Nat] /\ Minted \subseteq ResetChallenge
    BY DEF ResetInv, ResetTypeOK, Minted
<1>1. CASE AdminSetPassword
  <2>1. PICK d : resetChallenges' = RevokeChallenges(d)
      BY <1>1 DEF AdminSetPassword
  <2>2. changes' = changes /\ outdated' = Minted
      BY <1>1 DEF AdminSetPassword
  <2>3. ASSUME NEW c \in ResetChallenge PROVE ChallengeMoves(c)
      BY <2>1, <2>2, RevocationMoves DEF ChallengeMoves, Minted
  <2> QED
      BY <1>0, <2>1, <2>2, <2>3, RevocationMoves DEF ChallengesMove
<1>2. ASSUME NEW p \in ResetCall, ChangePassword(p) PROVE ChallengesMove
  <2>1. CASE ~Redeems(calls[p].target)
      BY <1>2, <2>1, SameChallengesMove DEF ChangePassword
  <2>2. CASE Redeems(calls[p].target)
    <3>1. PICK d : d = calls[p].target
        OBVIOUS
    <3>2. d \in ResetChallenge
        BY <1>2, <3>1, CallTarget DEF ChangePassword, AboutChallenge
    <3>3. /\ resetChallenges' = RevokeChallenges(d) /\ outdated' = Minted
          /\ changes' = [changes EXCEPT ![d] = changes[d] + 1]
          /\ resetChallenges[d].state = "open"
        BY <1>2, <2>2, <3>1 DEF ChangePassword, Redeems, Usable
    <3>4. changes' \in [ResetChallenge -> Nat]
        BY <1>0, <3>2, <3>3
    <3>5. ASSUME NEW c \in ResetChallenge PROVE ChallengeMoves(c)
        BY <1>0, <3>2, <3>3, RevocationMoves DEF ChallengeMoves, Minted
    <3> QED
        BY <1>0, <3>3, <3>4, <3>5, RevocationMoves DEF ChallengesMove
  <2> QED
      BY <2>1, <2>2
<1> QED
    BY <1>1, <1>2

LEMMA ChallengeMovesOfNext == ASSUME ResetInv, ResetNext PROVE ChallengesMove
<1>1. ASSUME NEW p \in ResetCall, NEW c \in ResetChallenge, MintForClaim(p, c) PROVE ChallengesMove
    BY <1>1, StateMoves DEF MintForClaim, resetLog
<1>2. ASSUME NEW c \in ResetChallenge, Initiate(c) \/ ExpireResetChallenge(c) PROVE ChallengesMove
    BY <1>2, StateMoves DEF Initiate, ExpireResetChallenge, resetLog
<1>3. ASSUME NEW p \in ResetCall, StampFactor(p) \/ CountAttempt(p) PROVE ChallengesMove
  <2>1. calls[p].target \in ResetChallenge /\ UNCHANGED <<changes, outdated>>
      BY <1>3, CallTarget DEF StampFactor, CountAttempt, AboutChallenge, resetLog
  <2>2. CASE UNCHANGED resetChallenges
      BY <2>1, <2>2, SameChallengesMove
  <2>3. CASE ~UNCHANGED resetChallenges
      BY <1>3, <2>1, <2>3, StateMoves DEF StampFactor, CountAttempt
  <2> QED
      BY <2>2, <2>3
<1>4. ASSUME NEW p \in ResetCall, NEW l, NEW t, Begin(p, l, t) PROVE ChallengesMove
    BY <1>4, SameChallengesMove DEF Begin, resetLog
<1>5. ASSUME NEW p \in ResetCall,
             \/ SweepOverdue(p) \/ FindOpen(p) \/ CheckCooldown(p) \/ Recheck(p) \/ InsertRequest(p)
             \/ ReadForOwner(p) \/ FlipOverdue(p) \/ LinkChallenge(p) \/ Judge(p) \/ ReadDetail(p)
             \/ (\E verdict \in {"APPROVED", "DENIED"} : Decide(p, verdict))
             \/ (\E right \in BOOLEAN : GuardCode(p, right) \/ GuardPassword(p, right))
             \/ (\E r \in ResetRequest : FindLinked(p, r)) \/ FindNoLinked(p)
             \/ CompleteRequest(p) \/ ResetCrash(p)
      PROVE  ChallengesMove
    BY <1>5, SameChallengesMove DEF SweepOverdue, FindOpen, CheckCooldown, Recheck, InsertRequest,
       ReadForOwner, FlipOverdue, LinkChallenge, Judge, ReadDetail, Decide, GuardCode,
       GuardPassword, FindLinked, FindNoLinked, CompleteRequest, ResetCrash, resetLog
<1>6. ASSUME AdminList \/ \E r \in ResetRequest : ExpireRequest(r) \/ CooldownElapses(r)
      PROVE  ChallengesMove
    BY <1>6, SameChallengesMove DEF AdminList, ExpireRequest, CooldownElapses, resetLog
<1> QED
    BY <1>1, <1>2, <1>3, <1>4, <1>5, <1>6, GrantMoves, PasswordMoves DEF ResetNext

\* The three kinds of moves preserve the invariant together: what is approved
\* stays approved, so a call, or a challenge, that relies on it stays right.
LEMMA ResetMovesKeepInv ==
    ASSUME ResetInv, CallsMove, RequestsMove, ChallengesMove PROVE ResetInv'
<1>1. ResetTypeOK'
  <2>1. calls' \in [ResetCall -> Call \cup {NoCall}]
      BY DEF ResetInv, ResetTypeOK, CallsMove
  <2> QED
      BY <2>1 DEF ResetTypeOK, RequestsMove, ChallengesMove
<1>2. DecisionsInv'
  <2>1. ASSUME NEW r \in ResetRequest
        PROVE  /\ resetRequests'[r].status \in {"absent", "PENDING"} => decisions'[r] = {}
               /\ resetRequests'[r].status \in {"APPROVED", "DENIED"} =>
                    decisions'[r] = {resetRequests'[r].status}
    <3>1. /\ resetRequests[r].status \in {"absent", "PENDING"} => decisions[r] = {}
          /\ resetRequests[r].status \in {"APPROVED", "DENIED"} =>
               decisions[r] = {resetRequests[r].status}
        BY DEF ResetInv, DecisionsInv
    <3>2. RequestMoves(r)
        BY DEF RequestsMove
    <3> QED
        BY <3>1, <3>2 DEF RequestMoves
  <2> QED
      BY <2>1 DEF DecisionsInv
<1>3. ASSUME NEW r \in ResetRequest, decisions[r] = {"APPROVED"} PROVE decisions'[r] = {"APPROVED"}
    BY <1>3 DEF ResetInv, DecisionsInv, RequestsMove, RequestMoves
<1>4. ASSUME NEW p \in ResetCall PROVE CallSound(calls[p])'
  <2>1. ASSUME NEW h, CallSound(h)
        PROVE  h \in Call =>
                 /\ h.at \in AboutRequest => h.target \in ResetRequest
                 /\ h.at \in AboutChallenge => h.target \in ResetChallenge
                 /\ h.at \in {"stampGrant", "link"} => h.minted \in ResetChallenge
                 /\ h.at \in {"mint", "stampGrant", "link"} => decisions'[h.target] = {"APPROVED"}
      BY <1>3, <2>1 DEF CallSound, AboutRequest
  <2>2. CallSound(calls[p])
      BY DEF ResetInv
  <2>3. PICK h : h = calls'[p] /\ CallSound(h)
      BY <2>2 DEF CallsMove, ResetInv, ResetTypeOK
  <2> QED
      BY <2>1, <2>3 DEF CallSound
<1>5. ChangesInv'
  <2>1. ASSUME NEW c \in ResetChallenge
        PROVE  /\ changes'[c] \in {0, 1}
               /\ changes'[c] = 1 \/ c \in outdated' => resetChallenges'[c].state = "consumed"
      BY DEF ResetInv, ChangesInv, ChallengesMove, ChallengeMoves
  <2> QED
      BY <2>1 DEF ChangesInv
<1>6. GrantsWereApproved'
  <2>1. ASSUME NEW c \in ResetChallenge, resetChallenges'[c].grant # NoId
        PROVE  decisions'[resetChallenges'[c].grant] = {"APPROVED"}
    <3>1. resetChallenges'[c].grant \in ResetRequest
        BY <2>1 DEF ChallengesMove, ResetChallengeRow
    <3>2. decisions[resetChallenges'[c].grant] = {"APPROVED"}
        BY <2>1 DEF ResetInv, GrantsWereApproved, ChallengesMove, ChallengeMoves
    <3> QED
        BY <1>3, <3>1, <3>2
  <2> QED
      BY <2>1 DEF GrantsWereApproved
<1> QED
    BY <1>1, <1>2, <1>4, <1>5, <1>6 DEF ResetInv

LEMMA ResetStep == ASSUME ResetInv, [ResetNext]_resetVars PROVE ResetInv'
<1>1. CASE ResetNext
    BY <1>1, CallMovesOfNext, RequestMovesOfNext, ChallengeMovesOfNext, ResetMovesKeepInv
<1>2. CASE UNCHANGED resetVars
  <2>1. UNCHANGED <<resetRequests, resetChallenges, calls, decisions, changes, outdated>>
      BY <1>2 DEF resetVars
  <2> QED
      BY <2>1, SameRequestsMove, SameChallengesMove, ResetMovesKeepInv DEF CallsMove
<1> QED
    BY <1>1, <1>2

\* In every behaviour of the password-reset handlers, with any number of calls,
\* requests and challenges and with or without the one-open-request index, the
\* invariant of the reset flow holds.
THEOREM ResetSafe == ResetSpec => []ResetInv
<1>1. ResetInit => ResetInv
    BY ResetInitInv
<1>2. ResetInv /\ [ResetNext]_resetVars => ResetInv'
    BY ResetStep
<1> QED
    BY <1>1, <1>2, PTL DEF ResetSpec

\* However verify calls, claims, decisions, expiries, crashes and administrator
\* resets of password-reset*.service.ts interleave: a challenge authorises at most
\* one password change, a change ends every challenge minted before it, and an
\* approval a challenge carries was the administrators' only decision.
THEOREM ResetsStayAuthorised == ResetSpec => []ResetsAreAuthorised
<1>1. ResetInv => ResetsAreAuthorised
  <2> SUFFICES ASSUME ResetInv PROVE ResetsAreAuthorised
      OBVIOUS
  <2>1. ChallengeChangesOnce
      BY DEF ResetInv, ChangesInv, ChallengeChangesOnce
  <2>2. ChangeEndsChallenges
      BY DEF ResetInv, ResetTypeOK, ChangesInv, ChangeEndsChallenges
  <2> QED
      BY <2>1, <2>2 DEF ResetInv, ResetsAreAuthorised
<1> QED
    BY <1>1, ResetSafe, PTL

\* Rows, handlers and observers of the password-reset flow keep their types: the
\* attempt counter never passes PWRESET_MAX_ATTEMPTS.
THEOREM ResetTypeCorrect == ResetSpec => []ResetTypeOK
<1>1. ResetInv => ResetTypeOK
    BY DEF ResetInv
<1> QED
    BY <1>1, ResetSafe, PTL

-----------------------------------------------------------------------------
(* The sum of the components *)

\* Every behaviour of the sum is one of each component, in which it acts or rests: what
\* is proved of a component holds of the sum, and so of what TLC explores.
THEOREM IdentityRunsComponents ==
    IdentitySpec => LoginSpec /\ AccessSpec /\ MfaSpec /\ ResetSpec /\ Spec
<1>1. IdentityInit => LoginInit /\ AccessInit /\ MfaInit /\ ResetInit /\ Init
    BY DEF IdentityInit
<1>2. ASSUME IdentityNext \/ UNCHANGED identityVars
      PROVE  /\ [LoginNext]_loginVars /\ [AccessNext]_accessVars /\ [MfaNext]_mfaVars
             /\ [ResetNext]_resetVars /\ [Next]_vars
  <2>1. CASE UNCHANGED identityVars
      BY <2>1 DEF identityVars
  <2>2. CASE IdentityNext
      BY <2>2 DEF IdentityNext, Only
  <2> QED
      BY <1>2, <2>1, <2>2
<1>3. [IdentityNext]_identityVars
          => /\ [LoginNext]_loginVars /\ [AccessNext]_accessVars /\ [MfaNext]_mfaVars
             /\ [ResetNext]_resetVars /\ [Next]_vars
    BY <1>2
<1> QED
    BY <1>1, <1>3, PTL DEF IdentitySpec, LoginSpec, AccessSpec, MfaSpec, ResetSpec, Spec

\* Every component is well typed, the one that acts and those that rest; among others no
\* challenge counts attempts beyond its limit and no id leaves its range.
THEOREM IdentityTypeCorrect == IdentitySpec => []IdentityTypeOK
<1>1. LoginTypeOK /\ AccessTypeOK /\ MfaTypeOK /\ ResetTypeOK /\ TypeOK => IdentityTypeOK
    BY DEF IdentityTypeOK
<1> QED
    BY <1>1, IdentityRunsComponents, LoginTypeCorrect, AccessTypeCorrect, MfaTypeCorrect,
       ResetTypeCorrect, AuditTypes, PTL
=============================================================================
