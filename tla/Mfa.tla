-------------------------------- MODULE Mfa --------------------------------
(***************************************************************************)
(* The second factor of one account: login challenges, TOTP codes with     *)
(* their replay floor, backup codes, remembered devices, enrolment,        *)
(* removal and the administrator's reset.  Every database statement is an  *)
(* action, and a request goes on with the row it has read (seen).          *)
(***************************************************************************)
EXTENDS Naturals

CONSTANTS
    MfaRequest,     \* requests in flight
    Challenge,      \* ids of login challenges
    BackupCode,     \* codes that can be generated
    Device,         \* ids of remembered devices
    MaxAttempts,    \* MFA_MAX_VERIFY_ATTEMPTS
    StepBound,      \* bound on the TOTP clock
    SecretBound     \* bound on the number of enrolments

ASSUME MfaAssumption ==
    MaxAttempts \in Nat \ {0} /\ StepBound \in Nat \ {0} /\ SecretBound \in Nat

VARIABLES
    factor,      \* the MFA columns of the users row
    challenges,  \* mfa_challenges
    backups,     \* backup_codes
    devices,     \* remembered_devices
    totpNow,     \* the current TOTP time step
    mfa,         \* request -> its handler
    secrets,     \* observer: how many secrets were generated
    accepted,    \* observer: codes accepted, TOTP codes for a sign-in only
    replayed,    \* observer: a code accepted a second time
    floorBack,   \* observer: the replay floor went back
    upgrades     \* observer: challenge -> sessions issued for it

mfaVars == <<factor, challenges, backups, devices, totpNow, mfa, secrets, accepted,
             replayed, floorBack, upgrades>>

-----------------------------------------------------------------------------
\* enabled: mfaEnabled with mfaConfirmedAt; secret 0 is NULL, and so is floor 0.
Factor == [enabled : BOOLEAN, secret : 0 .. SecretBound, floor : 0 .. StepBound + 1]
FactorOff == [enabled |-> FALSE, secret |-> 0, floor |-> 0]

\* A six-digit code belongs to a secret and a time step; wrong codes have secret 0.
TotpCode == [secret : 0 .. SecretBound, step : 1 .. StepBound + 1]
Code == TotpCode \cup BackupCode

\* A TOTP code has six digits, a backup code two groups of five characters.
ASSUME CodesAssumption == BackupCode \cap TotpCode = {}

NoCode == [secret |-> 0, step |-> 1]
AnyChallenge == CHOOSE c \in Challenge : TRUE

Ops == {"login", "start", "confirm", "disable", "regenerate", "adminReset"}

MfaPcs == {"load", "read", "backup", "floor", "consume", "session", "device",
           "reject", "write", "codes"}

Handler == [at : MfaPcs, op : Ops, challenge : Challenge, code : Code,
            remember : BOOLEAN, seen : 0 .. StepBound + 1]
NoHandler == [at |-> "idle"]

ChallengeRow == [state : {"absent", "open", "consumed", "expired"}, attempts : 0 .. MaxAttempts]

MfaTypeOK ==
    /\ factor \in Factor
    /\ challenges \in [Challenge -> ChallengeRow]
    /\ backups \in [BackupCode -> {"absent", "unused", "used", "deleted"}]
    /\ devices \in [Device -> {"absent", "trusted", "revoked"}]
    /\ totpNow \in 1 .. StepBound
    /\ mfa \in [MfaRequest -> Handler \cup {NoHandler}]
    /\ secrets \in 0 .. SecretBound
    /\ accepted \subseteq Code
    /\ replayed \subseteq Code
    /\ floorBack \in BOOLEAN
    /\ upgrades \in [Challenge -> Nat]

MfaInit ==
    /\ factor = FactorOff
    /\ challenges = [c \in Challenge |-> [state |-> "absent", attempts |-> 0]]
    /\ backups = [b \in BackupCode |-> "absent"]
    /\ devices = [d \in Device |-> "absent"]
    /\ totpNow = 1
    /\ mfa = [p \in MfaRequest |-> NoHandler]
    /\ secrets = 0
    /\ accepted = {}
    /\ replayed = {}
    /\ floorBack = FALSE
    /\ upgrades = [c \in Challenge |-> 0]

-----------------------------------------------------------------------------
mfaObservers == <<secrets, accepted, replayed, floorBack, upgrades>>
mfaRows == <<factor, challenges, backups, devices>>

MfaGoto(p, l) == mfa' = [mfa EXCEPT ![p].at = l]
MfaEnd(p) == mfa' = [mfa EXCEPT ![p] = NoHandler]

Open(c) == challenges[c].state = "open" /\ challenges[c].attempts < MaxAttempts

\* TotpService.verify: within one step of the clock and above the floor.
TotpValid(row, code) ==
    /\ row.secret # 0
    /\ code.secret = row.secret
    /\ code.step \in {totpNow - 1, totpNow, totpNow + 1}
    /\ code.step > row.floor

CodeAccepted(p) ==
    LET use == {k \in {mfa[p].code} : k \in BackupCode \/ mfa[p].op = "login"} IN
    /\ accepted' = accepted \cup use
    /\ replayed' = replayed \cup (accepted \cap use)

\* decideSecondFactor: a sign-in of an enrolled user mints a challenge.
MintChallenge(c) ==
    /\ factor.enabled
    /\ challenges[c].state = "absent"
    /\ challenges' = [challenges EXCEPT ![c].state = "open"]
    /\ UNCHANGED <<factor, backups, devices, totpNow, mfa, mfaObservers>>

ExpireChallenge(c) ==
    /\ challenges[c].state = "open"
    /\ challenges' = [challenges EXCEPT ![c].state = "expired"]
    /\ UNCHANGED <<factor, backups, devices, totpNow, mfa, mfaObservers>>

\* A request arrives; password checks that fail end it at once and are left out.
MfaArrive(p, op, c, code, remember) ==
    /\ mfa[p] = NoHandler
    /\ IF op = "login" THEN challenges[c].state # "absent"
       ELSE c = AnyChallenge /\ ~remember
    /\ op \in {"start", "adminReset"} => code = NoCode
    /\ op = "confirm" => code \in TotpCode
    /\ code \in BackupCode => ~remember
    /\ mfa' = [mfa EXCEPT ![p] =
                 [at |-> CASE op = "login" -> "load"
                           [] op = "adminReset" -> "write"
                           [] OTHER -> "read",
                  op |-> op, challenge |-> c, code |-> code, remember |-> remember,
                  seen |-> 0]]
    /\ UNCHANGED <<mfaRows, totpNow, mfaObservers>>

\* MfaChallengeGuard: one answer for every unusable challenge.
LoadOpen(p) ==
    /\ mfa[p].at = "load"
    /\ \/ Open(mfa[p].challenge) /\ MfaGoto(p, IF mfa[p].code \in BackupCode THEN "backup" ELSE "read")
       \/ ~Open(mfa[p].challenge) /\ MfaEnd(p)
    /\ UNCHANGED <<mfaRows, totpNow, mfaObservers>>

\* Where a request goes once it has read the users row: assertNotEnrolled,
\* assertEnrolled, and the TOTP check against the row just read.
AfterRead(p) ==
    LET op == mfa[p].op
        valid == mfa[p].code \in TotpCode /\ TotpValid(factor, mfa[p].code)
    IN
    CASE op = "login" -> IF valid THEN "floor" ELSE "reject"
      [] op = "start" -> IF factor.enabled THEN "end" ELSE "write"
      [] op = "confirm" -> IF ~factor.enabled /\ valid THEN "write" ELSE "end"
      [] OTHER -> IF ~factor.enabled THEN "end"
                  ELSE IF mfa[p].code \in BackupCode THEN "backup"
                  ELSE IF valid THEN "floor" ELSE "end"

ReadUser(p) ==
    /\ mfa[p].at = "read"
    /\ mfa' = [mfa EXCEPT ![p] = IF AfterRead(p) = "end" THEN NoHandler
                                 ELSE [@ EXCEPT !.at = AfterRead(p),
                                                !.seen = IF mfa[p].op = "login" THEN factor.floor ELSE 0]]
    /\ UNCHANGED <<mfaRows, totpNow, mfaObservers>>

\* The single-use gate: UPDATE ... WHERE id AND used_at IS NULL.
Redeemable(b) == backups[b] = "unused"

\* BackupCodeService.verify: its earlier read of the unused codes only narrows
\* the candidates, the conditional UPDATE decides.
RedeemBackup(p) ==
    LET b == mfa[p].code IN
    /\ mfa[p].at = "backup"
    /\ \/ /\ Redeemable(b)
          /\ backups' = [backups EXCEPT ![b] = "used"]
          /\ MfaGoto(p, IF mfa[p].op = "login" THEN "consume" ELSE "write")
          /\ CodeAccepted(p)
       \/ /\ ~Redeemable(b)
          /\ IF mfa[p].op = "login" THEN MfaGoto(p, "reject") ELSE MfaEnd(p)
          /\ UNCHANGED <<backups, accepted, replayed>>
    /\ UNCHANGED <<factor, challenges, devices, totpNow, secrets, floorBack, upgrades>>

\* verifyTotp compares and sets the floor it saw; assertSecondFactor just writes.
FloorAsSeen(p) == mfa[p].op = "login" => factor.floor = mfa[p].seen

AdvanceFloor(p) ==
    /\ mfa[p].at = "floor"
    /\ \/ /\ FloorAsSeen(p)
          /\ factor' = [factor EXCEPT !.floor = mfa[p].code.step]
          /\ floorBack' = (floorBack \/ mfa[p].code.step < factor.floor)
          /\ MfaGoto(p, IF mfa[p].op = "login" THEN "consume" ELSE "write")
          /\ CodeAccepted(p)
       \/ /\ ~FloorAsSeen(p)
          /\ MfaGoto(p, "reject")
          /\ UNCHANGED <<factor, floorBack, accepted, replayed>>
    /\ UNCHANGED <<challenges, backups, devices, totpNow, secrets, upgrades>>

\* Mutant: the attempt is counted whatever the challenge has become.
CountsAlways(c) == TRUE

\* registerFailedAttempt counts only on an open challenge.
Counts(c) == Open(c)

RejectCode(p) ==
    /\ mfa[p].at = "reject"
    /\ challenges' = IF Counts(mfa[p].challenge)
                     THEN [challenges EXCEPT ![mfa[p].challenge].attempts = @ + 1]
                     ELSE challenges
    /\ MfaEnd(p)
    /\ UNCHANGED <<factor, backups, devices, totpNow, mfaObservers>>

\* Mutant: consumption does not look at consumed_at.
ConsumableAgain(c) ==
    challenges[c].state \in {"open", "consumed"} /\ challenges[c].attempts < MaxAttempts

\* The WHERE clause of consume().
Consumable(c) == Open(c)

ConsumeChallenge(p) ==
    LET c == mfa[p].challenge IN
    /\ mfa[p].at = "consume"
    /\ \/ /\ Consumable(c)
          /\ challenges' = [challenges EXCEPT ![c].state = "consumed"]
          /\ MfaGoto(p, "session")
       \/ ~Consumable(c) /\ MfaEnd(p) /\ UNCHANGED challenges
    /\ UNCHANGED <<factor, backups, devices, totpNow, mfaObservers>>

IssueMfaSession(p) ==
    /\ mfa[p].at = "session"
    /\ upgrades' = [upgrades EXCEPT ![mfa[p].challenge] = @ + 1]
    /\ IF mfa[p].remember THEN MfaGoto(p, "device") ELSE MfaEnd(p)
    /\ UNCHANGED <<mfaRows, totpNow, secrets, accepted, replayed, floorBack>>

\* RememberedDeviceService.issue, with its best-effort alert.
IssueDevice(p, d) ==
    /\ mfa[p].at = "device"
    /\ devices[d] = "absent"
    /\ devices' = [devices EXCEPT ![d] = "trusted"]
    /\ MfaEnd(p)
    /\ UNCHANGED <<factor, challenges, backups, totpNow, mfaObservers>>

RevokeDevice(d) ==
    /\ devices[d] = "trusted"
    /\ devices' = [devices EXCEPT ![d] = "revoked"]
    /\ UNCHANGED <<factor, challenges, backups, totpNow, mfa, mfaObservers>>

\* generate() replaces the whole set in one transaction.
FreshCodes(b) ==
    /\ backups[b] = "absent"
    /\ backups' = [x \in BackupCode |->
                     CASE x = b -> "unused"
                       [] x # b /\ backups[x] \in {"unused", "used"} -> "deleted"
                       [] OTHER -> backups[x]]

NoCodes == [b \in BackupCode |-> IF backups[b] = "absent" THEN "absent" ELSE "deleted"]
NoDevices == [d \in Device |-> IF devices[d] = "absent" THEN "absent" ELSE "revoked"]

\* Enrolment starts: a new secret, inactive, with the floor reset.
StartEnrolment(p) ==
    /\ mfa[p].at = "write" /\ mfa[p].op = "start"
    /\ secrets < SecretBound
    /\ secrets' = secrets + 1
    /\ factor' = [enabled |-> FALSE, secret |-> secrets + 1, floor |-> 0]
    /\ floorBack' = (floorBack \/ factor.floor # 0)
    /\ MfaEnd(p)
    /\ UNCHANGED <<challenges, backups, devices, totpNow, accepted, replayed, upgrades>>

\* The confirming code activates MFA; the backup codes follow in a step of their own.
ConfirmEnrolment(p) ==
    /\ mfa[p].at = "write" /\ mfa[p].op = "confirm"
    /\ factor' = [factor EXCEPT !.enabled = TRUE, !.floor = mfa[p].code.step]
    /\ floorBack' = (floorBack \/ mfa[p].code.step < factor.floor)
    /\ MfaGoto(p, "codes")
    /\ CodeAccepted(p)
    /\ UNCHANGED <<challenges, backups, devices, totpNow, secrets, upgrades>>

GenerateCodes(p, b) ==
    /\ mfa[p].at = "codes" \/ (mfa[p].at = "write" /\ mfa[p].op = "regenerate")
    /\ FreshCodes(b)
    /\ MfaEnd(p)
    /\ UNCHANGED <<factor, challenges, devices, totpNow, mfaObservers>>

\* disable() clears factor, codes and devices; challenges stay as they are.
DisableMfa(p) ==
    /\ mfa[p].at = "write" /\ mfa[p].op = "disable"
    /\ factor' = FactorOff
    /\ floorBack' = (floorBack \/ factor.floor # 0)
    /\ backups' = NoCodes
    /\ devices' = NoDevices
    /\ MfaEnd(p)
    /\ UNCHANGED <<challenges, totpNow, secrets, accepted, replayed, upgrades>>

\* adminReset() also ends every unconsumed challenge (the sessions it revokes are
\* RefreshTokens').
AdminReset(p) ==
    /\ mfa[p].at = "write" /\ mfa[p].op = "adminReset"
    /\ factor' = FactorOff
    /\ floorBack' = (floorBack \/ factor.floor # 0)
    /\ backups' = NoCodes
    /\ devices' = NoDevices
    /\ challenges' = [c \in Challenge |->
                        IF challenges[c].state \in {"open", "expired"}
                        THEN [challenges[c] EXCEPT !.state = "consumed"] ELSE challenges[c]]
    /\ MfaEnd(p)
    /\ UNCHANGED <<totpNow, secrets, accepted, replayed, upgrades>>

MfaCrash(p) ==
    /\ mfa[p] # NoHandler
    /\ MfaEnd(p)
    /\ UNCHANGED <<mfaRows, totpNow, mfaObservers>>

TotpTick ==
    /\ totpNow < StepBound
    /\ totpNow' = totpNow + 1
    /\ UNCHANGED <<mfaRows, mfa, mfaObservers>>

\* Codes a client can present: those of generated secrets near the clock, a wrong
\* one, and backup codes it was given.
Presented ==
    {NoCode}
      \cup {k \in TotpCode : k.secret \in 1 .. secrets
                               /\ k.step \in {totpNow - 1, totpNow, totpNow + 1}}
      \cup {b \in BackupCode : backups[b] # "absent"}

MfaNext ==
    \/ \E c \in Challenge : MintChallenge(c) \/ ExpireChallenge(c)
    \/ \E p \in MfaRequest :
         \/ \E op \in Ops, c \in Challenge, code \in Presented, remember \in BOOLEAN :
              MfaArrive(p, op, c, code, remember)
         \/ LoadOpen(p) \/ ReadUser(p) \/ RedeemBackup(p) \/ AdvanceFloor(p)
         \/ RejectCode(p) \/ ConsumeChallenge(p) \/ IssueMfaSession(p)
         \/ \E d \in Device : IssueDevice(p, d)
         \/ StartEnrolment(p) \/ ConfirmEnrolment(p) \/ DisableMfa(p) \/ AdminReset(p)
         \/ \E b \in BackupCode : GenerateCodes(p, b)
         \/ MfaCrash(p)
    \/ \E d \in Device : RevokeDevice(d)
    \/ TotpTick

MfaSpec == MfaInit /\ [][MfaNext]_mfaVars

-----------------------------------------------------------------------------
\* consume() has one winner: a challenge becomes at most one session, and none when
\* its attempts ran out while a correct code was on its way.
ChallengesSpentOnce ==
    \A c \in Challenge :
        upgrades[c] <= IF challenges[c].attempts = MaxAttempts THEN 0 ELSE 1

\* A backup code is accepted at most once, for a sign-in or for a change of the MFA
\* settings, however redemptions overlap with regeneration; and while the replay
\* floor only advances, a TOTP code signs in at most once.
CodesSpentOnce ==
    /\ replayed \cap BackupCode = {}
    /\ ~floorBack => replayed \cap TotpCode = {}

\* Whatever proves a second factor proves it once.
FactorsSpentOnce == ChallengesSpentOnce /\ CodesSpentOnce
=============================================================================
