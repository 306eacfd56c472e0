------------------------------- MODULE Login -------------------------------
(***************************************************************************)
(* AuthService.login for one account: the lockout counter, the temporary   *)
(* lock and the second-factor decision.  Each login request is a handler   *)
(* whose database statements interleave with those of the others; the row  *)
(* it read first (loginSeen) is used again after the slow password hash.   *)
(***************************************************************************)
EXTENDS Naturals, FiniteSets

CONSTANTS
    LoginRequest,     \* login requests in flight
    MaxFailedLogins,  \* MAX_FAILED_LOGINS
    LockTicks,        \* LOCK_MS, in clock ticks
    MfaRequired,      \* the MFA_REQUIRED policy
    FailureBound,     \* bound on the failure counter
    LoginClockBound   \* bound on the clock

ASSUME LoginAssumption ==
    /\ IsFiniteSet(LoginRequest)
    /\ MaxFailedLogins \in Nat \ {0}
    /\ LockTicks \in Nat \ {0}
    /\ MfaRequired \in BOOLEAN
    /\ FailureBound \in Nat
    /\ LoginClockBound \in Nat

VARIABLES
    account,     \* the users row: failedLoginCount, lockedUntil, confirmed MFA
    loginNow,    \* the clock
    loginPc,     \* request -> where login() is
    loginAsk,    \* request -> what was submitted
    loginSeen,   \* request -> the row it last read
    loginReply,  \* request -> the outcome
    failures,    \* observer: wrong passwords counted since the last success
    mfaOff,      \* observer: MFA was off at some time during the request
    lost         \* observer: a process died between counting and locking

loginVars == <<account, loginNow, loginPc, loginAsk, loginSeen, loginReply,
               failures, mfaOff, lost>>

-----------------------------------------------------------------------------
\* locked_until is 0 when it is NULL.
Account == [failed : Nat, lockedUntil : Nat, mfa : BOOLEAN]

\* Whether the password is right for an ACTIVE user, and whether the request
\* carries a remembered device that RememberedDeviceService.verify accepts (it
\* plays no part when the password is wrong).
NoSubmission == [good |-> FALSE, device |-> "none"]
Submission == {NoSubmission} \cup [good : {TRUE}, device : {"none", "own", "other"}]

LoginPcs == {"idle", "find", "count", "lock", "reset", "decide", "replied"}

LoginReplies == {"none", "AccountLocked", "InvalidCredentials", "session",
                 "mfa_required", "MfaEnrollmentRequired"}

FreshAccount == [failed |-> 0, lockedUntil |-> 0, mfa |-> FALSE]

LoginTypeOK ==
    /\ account \in Account
    /\ loginNow \in Nat
    /\ loginPc \in [LoginRequest -> LoginPcs]
    /\ loginAsk \in [LoginRequest -> Submission]
    /\ loginSeen \in [LoginRequest -> Account]
    /\ loginReply \in [LoginRequest -> LoginReplies]
    /\ failures \in Nat
    /\ mfaOff \in [LoginRequest -> BOOLEAN]
    /\ lost \in BOOLEAN

LoginInit ==
    /\ account = FreshAccount
    /\ loginNow = 1
    /\ loginPc = [p \in LoginRequest |-> "idle"]
    /\ loginAsk = [p \in LoginRequest |-> NoSubmission]
    /\ loginSeen = [p \in LoginRequest |-> FreshAccount]
    /\ loginReply = [p \in LoginRequest |-> "none"]
    /\ failures = 0
    /\ mfaOff = [p \in LoginRequest |-> FALSE]
    /\ lost = FALSE

-----------------------------------------------------------------------------
LockActive(row) == row.lockedUntil > loginNow

LoginGoto(p, l) == loginPc' = [loginPc EXCEPT ![p] = l]

LoginAnswer(p, r) ==
    /\ LoginGoto(p, "replied")
    /\ loginReply' = [loginReply EXCEPT ![p] = r]

\* POST /auth/login
SubmitLogin(p, s) ==
    /\ loginPc[p] = "idle"
    /\ account.failed < FailureBound
    /\ LoginGoto(p, "find")
    /\ loginAsk' = [loginAsk EXCEPT ![p] = s]
    /\ mfaOff' = [mfaOff EXCEPT ![p] = ~account.mfa]
    /\ UNCHANGED <<account, loginNow, loginSeen, loginReply, failures, lost>>

\* A locked account is refused before any password work; otherwise the password
\* is hashed and compared, which touches no shared state.
FindUser(p) ==
    /\ loginPc[p] = "find"
    /\ loginSeen' = [loginSeen EXCEPT ![p] = account]
    /\ \/ LockActive(account) /\ LoginAnswer(p, "AccountLocked")
       \/ /\ ~LockActive(account)
          /\ LoginGoto(p, IF loginAsk[p].good THEN "reset" ELSE "count")
          /\ UNCHANGED loginReply
    /\ UNCHANGED <<account, loginNow, loginAsk, failures, mfaOff, lost>>

\* failedLoginCount: { increment: 1 }, evaluated by the database.
NextCount(p) == account.failed + 1

\* registerFailure: the atomic increment and what it returns.
CountFailure(p) ==
    LET state == [account EXCEPT !.failed = NextCount(p)] IN
    /\ loginPc[p] = "count"
    /\ account' = state
    /\ loginSeen' = [loginSeen EXCEPT ![p] = state]
    /\ failures' = failures + 1
    /\ \/ /\ state.failed >= MaxFailedLogins
          /\ ~LockActive(state)
          /\ LoginGoto(p, "lock")
          /\ UNCHANGED loginReply
       \/ /\ state.failed < MaxFailedLogins \/ LockActive(state)
          /\ LoginAnswer(p, "InvalidCredentials")
    /\ UNCHANGED <<loginNow, loginAsk, mfaOff, lost>>

\* Mutant: the lock is written whatever happened since the increment.
LockAnyway(p) == TRUE

\* The compare-and-set condition of the lock write.
LockStillDue(p) ==
    /\ account.failed = loginSeen[p].failed
    /\ account.lockedUntil = loginSeen[p].lockedUntil

\* registerFailure: the lock write, and the lockout alert of its winner.
LockAccount(p) ==
    /\ loginPc[p] = "lock"
    /\ \/ /\ LockStillDue(p)
          /\ account' = [account EXCEPT !.lockedUntil = loginNow + LockTicks]
       \/ ~LockStillDue(p) /\ UNCHANGED account
    /\ LoginAnswer(p, "InvalidCredentials")
    /\ UNCHANGED <<loginNow, loginAsk, loginSeen, failures, mfaOff, lost>>

\* A verified password resets the counter and the lock.
ResetCounter(p) ==
    /\ loginPc[p] = "reset"
    /\ account' = [account EXCEPT !.failed = 0, !.lockedUntil = 0]
    /\ failures' = 0
    /\ LoginGoto(p, "decide")
    /\ UNCHANGED <<loginNow, loginAsk, loginSeen, loginReply, mfaOff, lost>>

\* Mutant: any accepted device token skips the second factor.
AnyDeviceTrusted(p) == loginAsk[p].device # "none"

\* The device token was issued to this user.
TrustedDevice(p) == loginAsk[p].device = "own"

\* decideSecondFactor uses the row read before the password was hashed.
DecideSecondFactor(p) ==
    /\ loginPc[p] = "decide"
    /\ LoginAnswer(p, CASE TrustedDevice(p) -> "session"
                        [] ~TrustedDevice(p) /\ loginSeen[p].mfa -> "mfa_required"
                        [] ~TrustedDevice(p) /\ ~loginSeen[p].mfa /\ MfaRequired
                             -> "MfaEnrollmentRequired"
                        [] OTHER -> "session")
    /\ UNCHANGED <<account, loginNow, loginAsk, loginSeen, failures, mfaOff, lost>>

LoginDeliver(p) ==
    /\ loginPc[p] = "replied"
    /\ LoginGoto(p, "idle")
    /\ loginAsk' = [loginAsk EXCEPT ![p] = NoSubmission]
    /\ loginSeen' = [loginSeen EXCEPT ![p] = FreshAccount]
    /\ loginReply' = [loginReply EXCEPT ![p] = "none"]
    /\ mfaOff' = [mfaOff EXCEPT ![p] = FALSE]
    /\ UNCHANGED <<account, loginNow, failures, lost>>

\* The process dies: nothing it has not written happens.
LoginCrash(p) ==
    /\ loginPc[p] \notin {"idle", "replied"}
    /\ lost' = (lost \/ loginPc[p] = "lock")
    /\ LoginGoto(p, "idle")
    /\ loginAsk' = [loginAsk EXCEPT ![p] = NoSubmission]
    /\ loginSeen' = [loginSeen EXCEPT ![p] = FreshAccount]
    /\ mfaOff' = [mfaOff EXCEPT ![p] = FALSE]
    /\ UNCHANGED <<account, loginNow, loginReply, failures>>

\* Enrolment is confirmed or removed by another request.
ToggleMfa ==
    /\ account' = [account EXCEPT !.mfa = ~@]
    /\ mfaOff' = [p \in LoginRequest |-> mfaOff[p] \/ ~account'.mfa]
    /\ UNCHANGED <<loginNow, loginPc, loginAsk, loginSeen, loginReply, failures, lost>>

LoginTick ==
    /\ loginNow < LoginClockBound
    /\ loginNow' = loginNow + 1
    /\ UNCHANGED <<account, loginPc, loginAsk, loginSeen, loginReply, failures,
                   mfaOff, lost>>

LoginStep(p) ==
    \/ FindUser(p) \/ CountFailure(p) \/ LockAccount(p)
    \/ ResetCounter(p) \/ DecideSecondFactor(p) \/ LoginDeliver(p)

LoginNext ==
    \/ \E p \in LoginRequest :
         (\E s \in Submission : SubmitLogin(p, s)) \/ LoginStep(p) \/ LoginCrash(p)
    \/ ToggleMfa
    \/ LoginTick

LoginSpec == LoginInit /\ [][LoginNext]_loginVars

-----------------------------------------------------------------------------
\* registerFailure loses no failure, however requests overlap: the column counts
\* every wrong password since the last success, and once it has reached the limit
\* a lock is set, or about to be, or its writer has died.
LockoutExact ==
    /\ account.failed = failures
    /\ \/ account.failed < MaxFailedLogins
       \/ account.lockedUntil # 0
       \/ \E p \in LoginRequest : loginPc[p] = "lock"
       \/ lost

\* "A racing successful login reset cannot be overwritten by an old failure": an
\* account carries a lock only with MAX_FAILED_LOGINS failures since its last success.
LockIsEarned == account.lockedUntil # 0 => failures >= MaxFailedLogins

\* The lockout counts every failure, and only those since the last success.
LockoutSound == LockoutExact /\ LockIsEarned

\* A session without a second factor: the device is this user's, or MFA was off
\* at some moment of the request.
SecondFactorHonoured ==
    \A p \in LoginRequest :
        loginReply[p] = "session" => loginAsk[p].device = "own" \/ mfaOff[p]
=============================================================================
