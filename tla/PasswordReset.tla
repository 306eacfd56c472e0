--------------------------- MODULE PasswordReset ---------------------------
(***************************************************************************)
(* Password reset of one active, MFA-enrolled account: self-service        *)
(* challenges, requests that an administrator approves or denies, the      *)
(* claim of an approval, the password change and the administrator's       *)
(* direct reset.  Every database statement is an action; a handler goes on *)
(* with the row it read (seen).  Whether a code is right is Mfa's matter:  *)
(* here it is right or wrong.  Ineligible accounts get decoys that change  *)
(* nothing.                                                                *)
(***************************************************************************)
EXTENDS Naturals

CONSTANTS
    ResetCall,        \* HTTP calls in flight
    ResetRequest,     \* ids of password_reset_requests, in creation order
    ResetChallenge,   \* ids of password_reset_challenges
    MaxResetAttempts, \* PWRESET_MAX_ATTEMPTS
    OneOpenIndex      \* the partial unique index of integrity.sql is installed

ASSUME ResetAssumption ==
    /\ ResetRequest \subseteq Nat
    /\ MaxResetAttempts \in Nat \ {0}
    /\ OneOpenIndex \in BOOLEAN

VARIABLES
    resetRequests,   \* password_reset_requests
    resetChallenges, \* password_reset_challenges
    calls,           \* call -> its handler
    decisions,       \* observer: request -> decisions that won
    changes,         \* observer: challenge -> password changes it authorised
    outdated         \* observer: challenges minted before the last password change

resetVars == <<resetRequests, resetChallenges, calls, decisions, changes, outdated>>

-----------------------------------------------------------------------------
NoId == 0

RequestStatus == {"absent", "PENDING", "APPROVED", "DENIED", "EXPIRED"}

\* overdue: expires_at has passed; cooling: created within the cooldown.
RequestRow == [status : RequestStatus, completed : BOOLEAN, overdue : BOOLEAN,
               cooling : BOOLEAN, challenge : ResetChallenge \cup {NoId}]
NoRequest == [status |-> "absent", completed |-> FALSE, overdue |-> FALSE,
              cooling |-> FALSE, challenge |-> NoId]

\* grant: the request whose approval stamped the factor, for "admin_approval".
ResetChallengeRow == [state : {"absent", "open", "consumed", "expired"},
                      attempts : 0 .. MaxResetAttempts, stamped : BOOLEAN,
                      grant : ResetRequest \cup {NoId}]
NoResetChallenge == [state |-> "absent", attempts |-> 0, stamped |-> FALSE, grant |-> NoId]

\* target: the request or challenge a call is about; seen: the status it read.
Call == [at : {"sweep", "findOpen", "cooldown", "recheck", "insert", "poll", "flip",
               "mint", "stampGrant", "link", "judge", "decide", "detail", "guardCode",
               "stamp", "reject", "guardPassword", "change", "findLinked", "complete"},
         target : ResetRequest \cup ResetChallenge \cup {NoId},
         seen : RequestStatus, minted : ResetChallenge \cup {NoId}]
NoCall == [at |-> "idle"]

ResetTypeOK ==
    /\ resetRequests \in [ResetRequest -> RequestRow]
    /\ resetChallenges \in [ResetChallenge -> ResetChallengeRow]
    /\ calls \in [ResetCall -> Call \cup {NoCall}]
    /\ decisions \in [ResetRequest -> SUBSET {"APPROVED", "DENIED"}]
    /\ changes \in [ResetChallenge -> Nat]
    /\ outdated \subseteq ResetChallenge

ResetInit ==
    /\ resetRequests = [r \in ResetRequest |-> NoRequest]
    /\ resetChallenges = [c \in ResetChallenge |-> NoResetChallenge]
    /\ calls = [p \in ResetCall |-> NoCall]
    /\ decisions = [r \in ResetRequest |-> {}]
    /\ changes = [c \in ResetChallenge |-> 0]
    /\ outdated = {}

-----------------------------------------------------------------------------
resetLog == <<decisions, changes, outdated>>

Begin(p, l, t) ==
    /\ calls[p] = NoCall
    /\ calls' = [calls EXCEPT ![p] = [at |-> l, target |-> t, seen |-> "absent", minted |-> NoId]]
    /\ UNCHANGED <<resetRequests, resetChallenges, resetLog>>

Goto(p, l) == calls' = [calls EXCEPT ![p].at = l]
Finish(p) == calls' = [calls EXCEPT ![p] = NoCall]

ResetRow(p) == resetRequests[calls[p].target]
SetStatus(rows, s) ==
    resetRequests' = [r \in ResetRequest |->
                        IF r \in rows THEN [resetRequests[r] EXCEPT !.status = s]
                        ELSE resetRequests[r]]

Pending == {r \in ResetRequest : resetRequests[r].status = "PENDING"}

\* A row the lazy expiry may flip: pending, or approved and never completed.
StillOpen(r) ==
    \/ resetRequests[r].status = "PENDING"
    \/ resetRequests[r].status = "APPROVED" /\ ~resetRequests[r].completed

OverdueOpen == {r \in ResetRequest : StillOpen(r) /\ resetRequests[r].overdue}

\* loadOpen, and the WHERE clauses that repeat its conditions.
Usable(c) ==
    resetChallenges[c].state = "open" /\ resetChallenges[c].attempts < MaxResetAttempts

-----------------------------------------------------------------------------
\* create(): expire, look for an open request, cooldown, re-check, insert.
SweepOverdue(p) ==
    /\ calls[p].at = "sweep"
    /\ SetStatus(OverdueOpen, "EXPIRED")
    /\ Goto(p, "findOpen")
    /\ UNCHANGED <<resetChallenges, resetLog>>

\* With an open request the call ends: the owner's token is rotated, anyone else
\* gets a decoy; no row is added either way.
FindOpen(p) ==
    /\ calls[p].at = "findOpen"
    /\ IF Pending # {} THEN Finish(p) ELSE Goto(p, "cooldown")
    /\ UNCHANGED <<resetRequests, resetChallenges, resetLog>>

NewestRequest(r) ==
    /\ resetRequests[r].status # "absent"
    /\ \A q \in ResetRequest : q > r => resetRequests[q].status = "absent"

CheckCooldown(p) ==
    /\ calls[p].at = "cooldown"
    /\ IF \E r \in ResetRequest : NewestRequest(r) /\ resetRequests[r].cooling
       THEN Finish(p) ELSE Goto(p, "recheck")
    /\ UNCHANGED <<resetRequests, resetChallenges, resetLog>>

Recheck(p) ==
    /\ calls[p].at = "recheck"
    /\ IF Pending # {} THEN Finish(p) ELSE Goto(p, "insert")
    /\ UNCHANGED <<resetRequests, resetChallenges, resetLog>>

\* The index, where it is installed, refuses the second pending row.
InsertRequest(p) ==
    /\ calls[p].at = "insert"
    /\ \/ /\ OneOpenIndex => Pending = {}
          /\ \E r \in ResetRequest :
               /\ resetRequests[r].status = "absent"
               /\ \A q \in ResetRequest : q < r => resetRequests[q].status # "absent"
               /\ resetRequests' = [resetRequests EXCEPT ![r] =
                    [NoRequest EXCEPT !.status = "PENDING", !.cooling = TRUE]]
       \/ OneOpenIndex /\ Pending # {} /\ UNCHANGED resetRequests
    /\ Finish(p)
    /\ UNCHANGED <<resetChallenges, resetLog>>

-----------------------------------------------------------------------------
\* status(): the owner polls; an approval that is not completed is claimed.
ReadForOwner(p) ==
    LET row == ResetRow(p) IN
    /\ calls[p].at = "poll"
    /\ calls' = [calls EXCEPT ![p] =
         CASE calls[p].target \in OverdueOpen -> [@ EXCEPT !.at = "flip", !.seen = row.status]
           [] row.status = "APPROVED" /\ ~row.completed /\ ~row.overdue -> [@ EXCEPT !.at = "mint"]
           [] OTHER -> NoCall]
    /\ UNCHANGED <<resetRequests, resetChallenges, resetLog>>

\* The flip names the status the reader saw, not completed_at.
FlipOverdue(p) ==
    /\ calls[p].at = "flip"
    /\ SetStatus({r \in {calls[p].target} : resetRequests[r].status = calls[p].seen}, "EXPIRED")
    /\ Finish(p)
    /\ UNCHANGED <<resetChallenges, resetLog>>

NewChallenge(c) ==
    /\ resetChallenges[c].state = "absent"
    /\ resetChallenges' = [resetChallenges EXCEPT ![c].state = "open"]

MintForClaim(p, c) ==
    /\ calls[p].at = "mint"
    /\ NewChallenge(c)
    /\ calls' = [calls EXCEPT ![p].at = "stampGrant", ![p].minted = c]
    /\ UNCHANGED <<resetRequests, resetLog>>

\* markFactorVerified is set-once on an open challenge.
Stampable(c) == Usable(c) /\ ~resetChallenges[c].stamped

StampGrant(p) ==
    LET c == calls[p].minted IN
    /\ calls[p].at = "stampGrant"
    /\ \/ /\ Stampable(c)
          /\ resetChallenges' = [resetChallenges EXCEPT ![c].stamped = TRUE,
                                                        ![c].grant = calls[p].target]
          /\ Goto(p, "link")
       \/ ~Stampable(c) /\ Finish(p) /\ UNCHANGED resetChallenges
    /\ UNCHANGED <<resetRequests, resetLog>>

LinkChallenge(p) ==
    /\ calls[p].at = "link"
    /\ resetRequests' = [resetRequests EXCEPT ![calls[p].target].challenge = calls[p].minted]
    /\ Finish(p)
    /\ UNCHANGED <<resetChallenges, resetLog>>

-----------------------------------------------------------------------------
\* decide(): an administrator other than the owner.
Judge(p) ==
    LET row == ResetRow(p) IN
    /\ calls[p].at = "judge"
    /\ calls' = [calls EXCEPT ![p] =
         CASE row.status = "PENDING" /\ row.overdue -> [@ EXCEPT !.at = "flip", !.seen = "PENDING"]
           [] row.status = "PENDING" /\ ~row.overdue -> [@ EXCEPT !.at = "decide"]
           [] OTHER -> NoCall]
    /\ UNCHANGED <<resetRequests, resetChallenges, resetLog>>

\* UPDATE ... WHERE status = PENDING.
Undecided(p) == ResetRow(p).status = "PENDING"

Decide(p, verdict) ==
    LET r == calls[p].target IN
    /\ calls[p].at = "decide"
    /\ \/ /\ Undecided(p)
          /\ resetRequests' = [resetRequests EXCEPT ![r].status = verdict]
          /\ decisions' = [decisions EXCEPT ![r] = @ \cup {verdict}]
          /\ Goto(p, "detail")
       \/ ~Undecided(p) /\ Finish(p) /\ UNCHANGED <<resetRequests, decisions>>
    /\ UNCHANGED <<resetChallenges, changes, outdated>>

\* detail(), alone or at the end of decide(), also expires what it reads.
ReadDetail(p) ==
    /\ calls[p].at = "detail"
    /\ calls' = [calls EXCEPT ![p] =
         IF calls[p].target \in OverdueOpen
         THEN [@ EXCEPT !.at = "flip", !.seen = ResetRow(p).status] ELSE NoCall]
    /\ UNCHANGED <<resetRequests, resetChallenges, resetLog>>

\* list() starts with the sweep of every account.
AdminList ==
    /\ OverdueOpen # {}
    /\ SetStatus(OverdueOpen, "EXPIRED")
    /\ UNCHANGED <<resetChallenges, calls, resetLog>>

-----------------------------------------------------------------------------
\* initiate(): a self-service challenge, its factor not yet proven.
Initiate(c) ==
    /\ NewChallenge(c)
    /\ UNCHANGED <<resetRequests, calls, resetLog>>

\* verifyCode() behind the challenge guard: a stamped challenge is answered at once.
GuardCode(p, right) ==
    LET c == calls[p].target IN
    /\ calls[p].at = "guardCode"
    /\ calls' = [calls EXCEPT ![p] =
         IF ~Usable(c) THEN NoCall
         ELSE IF right THEN IF resetChallenges[c].stamped THEN NoCall ELSE [@ EXCEPT !.at = "stamp"]
         ELSE [@ EXCEPT !.at = "reject"]]
    /\ UNCHANGED <<resetRequests, resetChallenges, resetLog>>

StampFactor(p) ==
    LET c == calls[p].target IN
    /\ calls[p].at = "stamp"
    /\ resetChallenges' = IF Stampable(c)
                          THEN [resetChallenges EXCEPT ![c].stamped = TRUE] ELSE resetChallenges
    /\ Finish(p)
    /\ UNCHANGED <<resetRequests, resetLog>>

CountAttempt(p) ==
    LET c == calls[p].target IN
    /\ calls[p].at = "reject"
    /\ resetChallenges' = IF Usable(c)
                          THEN [resetChallenges EXCEPT ![c].attempts = @ + 1] ELSE resetChallenges
    /\ Finish(p)
    /\ UNCHANGED <<resetRequests, resetLog>>

\* verify(): the factor must be stamped on the row the guard read; a wrong
\* fingerprint is a failed attempt.
GuardPassword(p, right) ==
    LET c == calls[p].target IN
    /\ calls[p].at = "guardPassword"
    /\ calls' = [calls EXCEPT ![p] =
         IF ~Usable(c) \/ (right /\ ~resetChallenges[c].stamped) THEN NoCall
         ELSE [@ EXCEPT !.at = IF right THEN "change" ELSE "reject"]]
    /\ UNCHANGED <<resetRequests, resetChallenges, resetLog>>

\* Mutant: consumption does not look at consumed_at.
ChangeAgain(c) == resetChallenges[c].state \in {"open", "consumed"} /\ resetChallenges[c].stamped

\* The WHERE clause of consume().
Redeems(c) == Usable(c) /\ resetChallenges[c].stamped

Minted == {c \in ResetChallenge : resetChallenges[c].state # "absent"}

\* consume(own) and revokeAllTrust: every unconsumed challenge is consumed.
RevokeChallenges(own) ==
    [c \in ResetChallenge |->
        IF c \in Minted THEN [resetChallenges[c] EXCEPT !.state = "consumed"]
        ELSE resetChallenges[c]]

\* The transaction of verify(): consume, new hash, revoke all trust.
ChangePassword(p) ==
    LET c == calls[p].target IN
    /\ calls[p].at = "change"
    /\ \/ /\ Redeems(c)
          /\ resetChallenges' = RevokeChallenges(c)
          /\ changes' = [changes EXCEPT ![c] = @ + 1]
          /\ outdated' = Minted
          /\ Goto(p, "findLinked")
       \/ ~Redeems(c) /\ Finish(p) /\ UNCHANGED <<resetChallenges, changes, outdated>>
    /\ UNCHANGED <<resetRequests, decisions>>

\* The completion hook runs after the transaction, looking up the request by its
\* latest challenge.
FindLinked(p, r) ==
    /\ calls[p].at = "findLinked"
    /\ resetRequests[r].challenge = calls[p].target /\ ~resetRequests[r].completed
    /\ calls' = [calls EXCEPT ![p].at = "complete", ![p].target = r]
    /\ UNCHANGED <<resetRequests, resetChallenges, resetLog>>

FindNoLinked(p) ==
    /\ calls[p].at = "findLinked"
    /\ \A r \in ResetRequest :
         resetRequests[r].challenge = calls[p].target => resetRequests[r].completed
    /\ Finish(p)
    /\ UNCHANGED <<resetRequests, resetChallenges, resetLog>>

CompleteRequest(p) ==
    /\ calls[p].at = "complete"
    /\ resetRequests' = [resetRequests EXCEPT ![calls[p].target].completed = TRUE]
    /\ Finish(p)
    /\ UNCHANGED <<resetChallenges, resetLog>>

\* adminReset(): no challenge involved, all of them end.
AdminSetPassword ==
    /\ Minted # {}
    /\ \E c \in Minted : resetChallenges' = RevokeChallenges(c)
    /\ outdated' = Minted
    /\ UNCHANGED <<resetRequests, calls, decisions, changes>>

-----------------------------------------------------------------------------
ExpireRequest(r) ==
    /\ resetRequests[r].status # "absent" /\ ~resetRequests[r].overdue
    /\ resetRequests' = [resetRequests EXCEPT ![r].overdue = TRUE, ![r].cooling = FALSE]
    /\ UNCHANGED <<resetChallenges, calls, resetLog>>

CooldownElapses(r) ==
    /\ resetRequests[r].cooling
    /\ resetRequests' = [resetRequests EXCEPT ![r].cooling = FALSE]
    /\ UNCHANGED <<resetChallenges, calls, resetLog>>

ExpireResetChallenge(c) ==
    /\ resetChallenges[c].state = "open"
    /\ resetChallenges' = [resetChallenges EXCEPT ![c].state = "expired"]
    /\ UNCHANGED <<resetRequests, calls, resetLog>>

\* The process dies, or the database ends the call's transaction.
ResetCrash(p) ==
    /\ calls[p] # NoCall
    /\ Finish(p)
    /\ UNCHANGED <<resetRequests, resetChallenges, resetLog>>

ResetNext ==
    \/ \E p \in ResetCall :
         \/ Begin(p, "sweep", NoId)
         \/ \E r \in {q \in ResetRequest : resetRequests[q].status # "absent"},
               l \in {"poll", "judge", "detail"} : Begin(p, l, r)
         \/ \E c \in Minted, l \in {"guardCode", "guardPassword"} : Begin(p, l, c)
         \/ SweepOverdue(p) \/ FindOpen(p) \/ CheckCooldown(p) \/ Recheck(p) \/ InsertRequest(p)
         \/ ReadForOwner(p) \/ FlipOverdue(p) \/ StampGrant(p) \/ LinkChallenge(p)
         \/ \E c \in ResetChallenge : MintForClaim(p, c)
         \/ Judge(p) \/ ReadDetail(p)
         \/ \E verdict \in {"APPROVED", "DENIED"} : Decide(p, verdict)
         \/ \E right \in BOOLEAN : GuardCode(p, right) \/ GuardPassword(p, right)
         \/ StampFactor(p) \/ CountAttempt(p) \/ ChangePassword(p)
         \/ (\E r \in ResetRequest : FindLinked(p, r)) \/ FindNoLinked(p) \/ CompleteRequest(p)
         \/ ResetCrash(p)
    \/ \E c \in ResetChallenge : Initiate(c) \/ ExpireResetChallenge(c)
    \/ \E r \in ResetRequest : ExpireRequest(r) \/ CooldownElapses(r)
    \/ AdminList \/ AdminSetPassword

ResetSpec == ResetInit /\ [][ResetNext]_resetVars

-----------------------------------------------------------------------------
\* consume() has one winner: a challenge authorises at most one password change,
\* however verify calls, expiries and administrator resets overlap.
ChallengeChangesOnce == \A c \in ResetChallenge : changes[c] <= 1

\* A password change, by challenge or by an administrator, ends every challenge
\* minted before it, the ones being claimed at that moment included.
ChangeEndsChallenges == \A c \in outdated : resetChallenges[c].state # "open"

\* A challenge that carries an administrator's approval belongs to a request whose
\* only decision was that approval, even when two administrators decide at once
\* and the row expires in between.
GrantsWereApproved ==
    \A c \in ResetChallenge :
        resetChallenges[c].grant # NoId => decisions[resetChallenges[c].grant] = {"APPROVED"}

\* Every password change is authorised once, by a challenge no other change has
\* ended, and an approval behind it was the administrators' only decision.
ResetsAreAuthorised == ChallengeChangesOnce /\ ChangeEndsChallenges /\ GrantsWereApproved
=============================================================================
