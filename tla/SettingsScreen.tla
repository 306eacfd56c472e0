--------------------------- MODULE SettingsScreen ---------------------------
(***************************************************************************)
(* The security section of the settings screen: the trusted devices with   *)
(* their optimistic revoke, and the re-authenticated MFA actions with the  *)
(* backup codes that are shown once.  The state is the page's: it survives *)
(* a change of section, and every entry of the section loads the devices.  *)
(***************************************************************************)
EXTENDS Naturals, FiniteSets

CONSTANTS
    TrustedDevice,   \* remembered devices
    NoDevice,        \* revokingId() and confirmRevokeId() are null
    DeviceLoads,     \* bound on device lists on the wire
    CodesBound       \* bound on generations of backup codes

ASSUME SettingsAssumption ==
    NoDevice \notin TrustedDevice /\ DeviceLoads \in Nat /\ CodesBound \in Nat

VARIABLES
    active,           \* devices active on the server
    inSecurity,       \* activeSection = 'security'
    trusted,          \* devices(): what the list shows
    known,            \* observer: what was active when the list shown was read
    deviceLoads,      \* device lists read and not delivered yet
    devicesLoading,   \* devicesLoading()
    devicesFailed,    \* devicesErrorKey()
    confirmRevokeId,  \* confirmRevokeId()
    revokingId,       \* revokingId()
    revokeAnswer,     \* the DELETE: none, sent, or its answer
    mfaOn,            \* mfaEnabled()
    mfaAction,        \* mfaAction()
    mfaAnswer,        \* mfaSubmitting() and the answer on the wire
    codesIssued,      \* backup code generations issued by the server
    newCodes,         \* mfaNewBackupCodes(): the generation shown, 0 when none
    codesSaved,       \* mfaCodesSaved()
    unconfirmed       \* observer: the generation delivered and not confirmed as saved

deviceVars == <<active, trusted, known, deviceLoads, devicesLoading, devicesFailed,
                confirmRevokeId, revokingId, revokeAnswer>>
codeVars == <<mfaOn, mfaAction, mfaAnswer, codesIssued, newCodes, codesSaved, unconfirmed>>
settingsVars == <<inSecurity, deviceVars, codeVars>>

-----------------------------------------------------------------------------
SettingsTypeOK ==
    /\ active \subseteq TrustedDevice
    /\ trusted \subseteq TrustedDevice /\ known \subseteq TrustedDevice
    /\ deviceLoads \subseteq SUBSET TrustedDevice
    /\ {inSecurity, devicesLoading, devicesFailed, mfaOn, codesSaved} \subseteq BOOLEAN
    /\ {confirmRevokeId, revokingId} \subseteq TrustedDevice \cup {NoDevice}
    /\ revokeAnswer \in {"none", "sent", "revoked", "gone", "failed"}
    /\ mfaAction \in {"none", "disable", "regenerate"}
    /\ mfaAnswer \in {"none", "disable", "regenerate", "disabled", "regenerated", "failed"}
    /\ {codesIssued, newCodes, unconfirmed} \subseteq 0..CodesBound

SettingsInit ==
    /\ active = TrustedDevice
    /\ inSecurity = FALSE
    /\ trusted = {} /\ known = {}
    /\ deviceLoads = {}
    /\ devicesLoading = FALSE /\ devicesFailed = FALSE
    /\ confirmRevokeId = NoDevice /\ revokingId = NoDevice
    /\ revokeAnswer = "none"
    /\ mfaOn = TRUE
    /\ mfaAction = "none" /\ mfaAnswer = "none"
    /\ codesIssued = 0 /\ newCodes = 0 /\ unconfirmed = 0
    /\ codesSaved = FALSE

-----------------------------------------------------------------------------
\* loadDevices(): loads overlap and are answered in any order.
LoadDevices ==
    /\ Cardinality(deviceLoads) < DeviceLoads
    /\ deviceLoads' = deviceLoads \cup {active}
    /\ devicesLoading' = TRUE /\ devicesFailed' = FALSE

\* setActiveSection('security') loads the devices; leaving it, by a tab or (past an open
\* dialog) by the address, keeps all state.
EnterSecurity ==
    /\ ~inSecurity
    /\ inSecurity' = TRUE
    /\ LoadDevices
    /\ UNCHANGED <<active, trusted, known, confirmRevokeId, revokingId, revokeAnswer, codeVars>>

LeaveSecurity ==
    /\ inSecurity
    /\ inSecurity' = FALSE
    /\ UNCHANGED <<deviceVars, codeVars>>

\* The retry button of the error block.
RetryLoadDevices ==
    /\ inSecurity /\ ~devicesLoading /\ devicesFailed
    /\ LoadDevices
    /\ UNCHANGED <<inSecurity, active, trusted, known, confirmRevokeId, revokingId,
                   revokeAnswer, codeVars>>

\* A load is answered, or fails and the list stays.  Any of them ends the loading state.
DevicesLoaded(l, ok) ==
    /\ deviceLoads' = deviceLoads \ {l}
    /\ devicesLoading' = FALSE
    /\ trusted' = IF ok THEN l ELSE trusted
    /\ known' = IF ok THEN l ELSE known
    /\ devicesFailed' = (devicesFailed \/ ~ok)
    /\ UNCHANGED <<inSecurity, active, confirmRevokeId, revokingId, revokeAnswer, codeVars>>

\* askRevoke(): the list is drawn when it is neither loading nor failed.
AskRevoke(d) ==
    /\ inSecurity /\ ~devicesLoading /\ ~devicesFailed
    /\ d \in trusted
    /\ confirmRevokeId = NoDevice /\ revokingId = NoDevice
    /\ confirmRevokeId' = d
    /\ UNCHANGED <<inSecurity, active, trusted, known, deviceLoads, devicesLoading,
                   devicesFailed, revokingId, revokeAnswer, codeVars>>

CancelRevoke ==
    /\ inSecurity /\ confirmRevokeId # NoDevice /\ revokingId = NoDevice
    /\ confirmRevokeId' = NoDevice
    /\ UNCHANGED <<inSecurity, active, trusted, known, deviceLoads, devicesLoading,
                   devicesFailed, revokingId, revokeAnswer, codeVars>>

\* confirmRevoke(): the row goes at once and the DELETE is sent; a row that a reload has
\* taken away only closes the dialog.
ConfirmRevoke ==
    LET d == confirmRevokeId IN
    /\ inSecurity /\ d # NoDevice /\ revokingId = NoDevice
    /\ trusted' = trusted \ {d}
    /\ IF d \in trusted
       THEN revokingId' = d /\ revokeAnswer' = "sent" /\ UNCHANGED confirmRevokeId
       ELSE confirmRevokeId' = NoDevice /\ UNCHANGED <<revokingId, revokeAnswer>>
    /\ UNCHANGED <<inSecurity, active, known, deviceLoads, devicesLoading, devicesFailed, codeVars>>

\* The DELETE is executed (404 when the device is gone), fails, or is lost; an executed
\* one may be answered by a failure too.
RevokeExecutes(answer) ==
    /\ revokeAnswer = "sent"
    /\ revokeAnswer' = IF answer = "lost" THEN "failed"
                       ELSE IF revokingId \in active THEN "revoked" ELSE "gone"
    /\ active' = active \ {revokingId}
    /\ UNCHANGED <<inSecurity, trusted, known, deviceLoads, devicesLoading, devicesFailed,
                   confirmRevokeId, revokingId, codeVars>>

RevokeIsLost ==
    /\ revokeAnswer = "sent"
    /\ revokeAnswer' = "failed"
    /\ UNCHANGED <<inSecurity, active, trusted, known, deviceLoads, devicesLoading,
                   devicesFailed, confirmRevokeId, revokingId, codeVars>>

\* Mutant: a failure is taken for a device that is gone.
NeverRestored == {}

\* What the answer puts back on the list: the row, unless it succeeded or was a 404.
Restored == IF revokeAnswer = "failed" THEN {revokingId} ELSE {}

RevokeAnswered ==
    /\ revokeAnswer \notin {"none", "sent"}
    /\ trusted' = trusted \cup Restored
    /\ revokeAnswer' = "none"
    /\ revokingId' = NoDevice /\ confirmRevokeId' = NoDevice
    /\ UNCHANGED <<inSecurity, active, known, deviceLoads, devicesLoading, devicesFailed, codeVars>>

\* A device is revoked from another browser.
RevokedElsewhere(d) ==
    /\ d \in active
    /\ active' = active \ {d}
    /\ UNCHANGED <<inSecurity, trusted, known, deviceLoads, devicesLoading, devicesFailed,
                   confirmRevokeId, revokingId, revokeAnswer, codeVars>>

-----------------------------------------------------------------------------
\* openMfaAction(): the buttons are drawn when neither codes nor a form are.
OpenMfaAction(a) ==
    /\ inSecurity /\ mfaOn /\ newCodes = 0 /\ mfaAction = "none"
    /\ mfaAction' = a
    /\ newCodes' = 0 /\ codesSaved' = FALSE
    /\ UNCHANGED <<inSecurity, deviceVars, mfaOn, mfaAnswer, codesIssued, unconfirmed>>

\* Cancel is possible while the request is on the wire.
CancelMfaAction ==
    /\ inSecurity /\ mfaOn /\ newCodes = 0 /\ mfaAction # "none"
    /\ mfaAction' = "none"
    /\ UNCHANGED <<inSecurity, deviceVars, mfaOn, mfaAnswer, codesIssued, newCodes,
                   codesSaved, unconfirmed>>

SubmitMfaAction ==
    /\ inSecurity /\ mfaOn /\ newCodes = 0 /\ mfaAction # "none"
    /\ mfaAnswer = "none"
    /\ mfaAnswer' = mfaAction
    /\ UNCHANGED <<inSecurity, deviceVars, mfaOn, mfaAction, codesIssued, newCodes,
                   codesSaved, unconfirmed>>

\* The server disables MFA or issues new codes (see Mfa); or the request fails.
MfaExecutes ==
    /\ \/ mfaAnswer = "disable" /\ mfaAnswer' = "disabled" /\ UNCHANGED codesIssued
       \/ /\ mfaAnswer = "regenerate" /\ codesIssued < CodesBound
          /\ codesIssued' = codesIssued + 1
          /\ mfaAnswer' = "regenerated"
    /\ UNCHANGED <<inSecurity, deviceVars, mfaOn, mfaAction, newCodes, codesSaved, unconfirmed>>

MfaFails ==
    /\ mfaAnswer # "none"
    /\ mfaAnswer' = "failed"
    /\ UNCHANGED <<inSecurity, deviceVars, mfaOn, mfaAction, codesIssued, newCodes,
                   codesSaved, unconfirmed>>

MfaAnswered ==
    /\ mfaAnswer \in {"disabled", "regenerated", "failed"}
    /\ mfaAnswer' = "none"
    /\ mfaOn' = (mfaOn /\ mfaAnswer # "disabled")
    /\ mfaAction' = IF mfaAnswer = "disabled" THEN "none" ELSE mfaAction
    /\ IF mfaAnswer = "regenerated"
       THEN newCodes' = codesIssued /\ codesSaved' = FALSE /\ unconfirmed' = codesIssued
       ELSE UNCHANGED <<newCodes, codesSaved, unconfirmed>>
    /\ UNCHANGED <<inSecurity, deviceVars, codesIssued>>

ToggleMfaCodesSaved ==
    /\ inSecurity /\ mfaOn /\ newCodes # 0
    /\ codesSaved' = ~codesSaved
    /\ unconfirmed' = IF codesSaved' THEN 0 ELSE newCodes
    /\ UNCHANGED <<inSecurity, deviceVars, mfaOn, mfaAction, mfaAnswer, codesIssued, newCodes>>

\* dismissNewBackupCodes() returns early until the codes are said to be saved.
Dismissable == newCodes # 0 /\ codesSaved

DismissNewBackupCodes ==
    /\ inSecurity /\ mfaOn /\ Dismissable
    /\ newCodes' = 0 /\ codesSaved' = FALSE /\ mfaAction' = "none"
    /\ UNCHANGED <<inSecurity, deviceVars, mfaOn, mfaAnswer, codesIssued, unconfirmed>>

SettingsNext ==
    \/ EnterSecurity \/ LeaveSecurity \/ RetryLoadDevices
    \/ \E l \in deviceLoads, ok \in BOOLEAN : DevicesLoaded(l, ok)
    \/ \E d \in TrustedDevice : AskRevoke(d) \/ RevokedElsewhere(d)
    \/ CancelRevoke \/ ConfirmRevoke \/ RevokeIsLost \/ RevokeAnswered
    \/ \E answer \in {"delivered", "lost"} : RevokeExecutes(answer)
    \/ \E a \in {"disable", "regenerate"} : OpenMfaAction(a)
    \/ CancelMfaAction \/ SubmitMfaAction \/ MfaExecutes \/ MfaFails \/ MfaAnswered
    \/ ToggleMfaCodesSaved \/ DismissNewBackupCodes

SettingsSpec == SettingsInit /\ [][SettingsNext]_settingsVars

-----------------------------------------------------------------------------
\* A device that can still skip the second factor is never hidden from its owner, but
\* while its revoke is on the wire: not by a failed or lost revoke, nor by lists that
\* are delivered late (a device remembered after the list was read aside).
DevicesShown == active \cap known \subseteq trusted \cup {revokingId}

\* Backup codes that have been delivered stay on the screen until their owner says that
\* they are saved, also when the action was cancelled or another one opened meanwhile.
CodesKept == unconfirmed # 0 => newCodes = unconfirmed

\* The security section hides no trusted device and drops no codes.
SettingsHonest == DevicesShown /\ CodesKept
=============================================================================
