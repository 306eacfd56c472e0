---------------------------- MODULE ScreensProofs ---------------------------
(***************************************************************************)
(* Proofs about the web application's stateful parts, for any number of    *)
(* customers, devices, calls, rows and answers on the wire.                *)
(***************************************************************************)
EXTENDS Screens, RowOrderProofs, TLAPS, FiniteSetTheorems, SequenceTheorems

-----------------------------------------------------------------------------
(* The forgot-password screen *)

\* The submission on the wire is the one the form on screen offers.
SubmissionFits ==
    \/ submitting = "none"
    \/ /\ ~expired
       /\ \/ submitting = "initiate" /\ step = 1 /\ adminFlow = "none"
          \/ submitting = "verifyCode" /\ step = 2 /\ adminFlow = "none"
          \/ submitting = "createResetRequest" /\ step = 2 /\ adminFlow = "form"
          \/ submitting = "verify" /\ step = 3 /\ adminFlow = "none"

\* The inductive invariant of the screen: the overlay belongs to step 2.
ForgotFlags ==
    /\ alive \in BOOLEAN /\ expired \in BOOLEAN
    /\ checking \in BOOLEAN /\ pollTimer \in BOOLEAN
ForgotRest ==
    /\ step \in 1..4
    /\ adminFlow \in {"none", "form", "waiting", "denied"}
    /\ submitting \in {"none", "initiate", "verifyCode", "verify", "createResetRequest"}
    /\ submitting # "none" => step \in 1..3
    /\ alive => /\ pollTimer <=> adminFlow = "waiting"
                /\ checking => adminFlow = "waiting"
                /\ SubmissionFits
                /\ adminFlow # "none" => step = 2 /\ ~expired
ForgotInv == ForgotFlags /\ ForgotRest

LEMMA ForgotInitInv == ASSUME ForgotInit PROVE ForgotInv
<1>1. ForgotFlags
    BY Zenon DEF ForgotInit, ForgotFlags
<1>2. ForgotRest
    BY DEF ForgotInit, ForgotRest, SubmissionFits
<1> QED
    BY <1>1, <1>2 DEF ForgotInv

\* What the wizard offers, by where it stands.
LEMMA OfferedByStep ==
    /\ Offered \in {"none", "initiate", "verifyCode", "verify", "createResetRequest"}
    /\ Offered # "none" => ~expired
    /\ Offered = "initiate" => step = 1
    /\ Offered = "verifyCode" => step = 2 /\ adminFlow = "none"
    /\ Offered = "createResetRequest" => step = 2 /\ adminFlow = "form"
    /\ Offered = "verify" => step = 3
<1>1. CASE expired
    BY <1>1 DEF Offered
<1>2. CASE ~expired /\ step = 1
    BY <1>2 DEF Offered
<1>3. CASE ~expired /\ step = 2
    BY <1>3 DEF Offered
<1>4. CASE ~expired /\ step = 3
    BY <1>4 DEF Offered
<1>5. CASE ~expired /\ step \notin {1, 2, 3}
    BY <1>5 DEF Offered
<1> QED
    BY <1>1, <1>2, <1>3, <1>4, <1>5

LEMMA SubmitStep ==
    ASSUME ForgotInv, Submit \/ SubmitSucceeds \/ SubmitFails PROVE ForgotInv'
<1>1. CASE Submit
  <2>1. ForgotFlags'
      BY <1>1, Zenon DEF Submit, ForgotInv, ForgotFlags
  <2>2. ForgotRest'
      BY <1>1, OfferedByStep DEF Submit, ForgotInv, ForgotFlags, ForgotRest, SubmissionFits
  <2> QED
      BY <2>1, <2>2 DEF ForgotInv
<1>2. CASE SubmitSucceeds
  <2>1. ForgotFlags'
      BY <1>2, Zenon DEF SubmitSucceeds, ForgotInv, ForgotFlags
  <2>2. ForgotRest'
      BY <1>2 DEF SubmitSucceeds, ForgotInv, ForgotFlags, ForgotRest, SubmissionFits
  <2> QED
      BY <2>1, <2>2 DEF ForgotInv
<1>3. CASE SubmitFails
  <2>1. ForgotFlags'
      BY <1>3, Zenon DEF SubmitFails, ForgotInv, ForgotFlags
  <2>2. ForgotRest'
      BY <1>3 DEF SubmitFails, ForgotInv, ForgotFlags, ForgotRest, SubmissionFits
  <2> QED
      BY <2>1, <2>2 DEF ForgotInv
<1> QED
    BY <1>1, <1>2, <1>3

LEMMA WizardStep ==
    ASSUME ForgotInv, Back \/ OpenAdminRequest \/ StartOver \/ LeaveScreen PROVE ForgotInv'
<1>1. CASE Back
  <2>1. ForgotFlags'
      BY <1>1, Zenon DEF Back, ForgotInv, ForgotFlags
  <2>2. ForgotRest'
      BY <1>1 DEF Back, ForgotInv, ForgotFlags, ForgotRest, SubmissionFits
  <2> QED
      BY <2>1, <2>2 DEF ForgotInv
<1>2. CASE OpenAdminRequest
  <2>1. ForgotFlags'
      BY <1>2, Zenon DEF OpenAdminRequest, ForgotInv, ForgotFlags
  <2>2. ForgotRest'
      BY <1>2, OfferedByStep DEF OpenAdminRequest, ForgotInv, ForgotFlags, ForgotRest, SubmissionFits
  <2> QED
      BY <2>1, <2>2 DEF ForgotInv
<1>3. CASE StartOver
  <2>1. ForgotFlags'
      BY <1>3, Zenon DEF StartOver, ForgotInv, ForgotFlags
  <2>2. ForgotRest'
      BY <1>3 DEF StartOver, ForgotInv, ForgotFlags, ForgotRest, SubmissionFits
  <2> QED
      BY <2>1, <2>2 DEF ForgotInv
<1>4. CASE LeaveScreen
  <2>1. ForgotFlags'
      BY <1>4, Zenon DEF LeaveScreen, ForgotInv, ForgotFlags
  <2>2. ForgotRest'
      BY <1>4 DEF LeaveScreen, ForgotInv, ForgotFlags, ForgotRest, SubmissionFits
  <2> QED
      BY <2>1, <2>2 DEF ForgotInv
<1> QED
    BY <1>1, <1>2, <1>3, <1>4

LEMMA PollStep ==
    ASSUME ForgotInv,
           \/ CheckStatus \/ CheckFails
           \/ \E status \in {"approved", "denied", "expired", "pending"} : ApplyRequestStatus(status)
    PROVE  ForgotInv'
<1>1. CASE CheckStatus
  <2>1. ForgotFlags'
      BY <1>1, Zenon DEF CheckStatus, ForgotInv, ForgotFlags
  <2>2. ForgotRest'
      BY <1>1 DEF CheckStatus, ForgotInv, ForgotFlags, ForgotRest, SubmissionFits
  <2> QED
      BY <2>1, <2>2 DEF ForgotInv
<1>2. CASE CheckFails
  <2>1. ForgotFlags'
      BY <1>2, Zenon DEF CheckFails, ForgotInv, ForgotFlags
  <2>2. ForgotRest'
      BY <1>2 DEF CheckFails, ForgotInv, ForgotFlags, ForgotRest, SubmissionFits
  <2> QED
      BY <2>1, <2>2 DEF ForgotInv
<1>3. ASSUME NEW status \in {"approved", "denied", "expired", "pending"}, ApplyRequestStatus(status)
      PROVE  ForgotInv'
  <2>1. ForgotFlags'
      BY <1>3, Zenon DEF ApplyRequestStatus, StopPolling, ForgotInv, ForgotFlags
  <2>2. pollTimer' <=> (pollTimer /\ status = "pending")
      BY <1>3, Zenon DEF ApplyRequestStatus, StopPolling
  <2>3. ForgotRest'
      BY <1>3, <2>1, <2>2 DEF ApplyRequestStatus, ForgotInv, ForgotFlags, ForgotRest, SubmissionFits
  <2> QED
      BY <2>1, <2>3 DEF ForgotInv
<1> QED
    BY <1>1, <1>2, <1>3

\* In every behaviour of the forgot-password screen the timer runs exactly in the
\* waiting state, and a poll is only answered in the state it was sent for.
THEOREM PollsOnlyWhileWaiting == ForgotSpec => [](ForgotTypeOK /\ PollOnlyWhileWaiting)
<1>1. ForgotInit => ForgotInv
    BY ForgotInitInv
<1>2. ForgotInv /\ [ForgotNext]_forgotVars => ForgotInv'
  <2> SUFFICES ASSUME ForgotInv, [ForgotNext]_forgotVars PROVE ForgotInv'
      OBVIOUS
  <2>1. CASE ForgotNext
      BY <2>1, SubmitStep, WizardStep, PollStep DEF ForgotNext
  <2>2. CASE UNCHANGED forgotVars
      BY <2>2 DEF forgotVars, ForgotInv, ForgotFlags, ForgotRest, SubmissionFits
  <2> QED
      BY <2>1, <2>2
<1>3. ForgotInv => ForgotTypeOK /\ PollOnlyWhileWaiting
  <2>1. ASSUME ForgotInv, alive PROVE pollTimer = (adminFlow = "waiting")
      BY <2>1, Zenon DEF ForgotInv, ForgotFlags, ForgotRest
  <2>2. ForgotInv => ForgotTypeOK
      BY DEF ForgotInv, ForgotFlags, ForgotRest, ForgotTypeOK
  <2> QED
      BY <2>1, <2>2 DEF ForgotInv, ForgotRest, PollOnlyWhileWaiting
<1> QED
    BY <1>1, <1>2, <1>3, PTL DEF ForgotSpec

-----------------------------------------------------------------------------
(* The risk screen *)

\* What is shown, or awaited, is of the address on screen, and of the customer on
\* screen unless the route changed since.
OfScreen(s) ==
    s # Null => /\ s \in Screening
                /\ s.address = screenedAddress
                /\ onScreen # Null
                /\ s.of = onScreen \/ rerouted

\* The inductive invariant of the screen; a customer other than the route's is on
\* screen only after a change of route.
RiskInv ==
    /\ route \in RiskCustomer
    /\ onScreen \in RiskCustomer \cup {Null}
    /\ screenedAddress \in RiskAddress \cup {Null}
    /\ OfScreen(assessment) /\ OfScreen(screening)
    /\ onScreen # Null /\ onScreen # route => rerouted
    /\ DecisionMatchesScreening
    /\ rerouted \in BOOLEAN

LEMMA RiskInitInv == ASSUME RiskInit PROVE RiskInv
<1>1. rerouted \in BOOLEAN
    BY Zenon DEF RiskInit
<1> QED
    BY <1>1 DEF RiskInit, RiskInv, OfScreen, DecisionMatchesScreening

LEMMA RouteStep ==
    ASSUME RiskInv, CustomerLoaded \/ \E c \in RiskCustomer : Reroute(c) PROVE RiskInv'
<1>1. CASE CustomerLoaded
  <2>1. (assessment # Null \/ screening # Null) => rerouted
      BY <1>1 DEF CustomerLoaded, RiskInv, OfScreen
  <2>2. onScreen' = route /\ route \in RiskCustomer /\ route # Null
      BY <1>1, RiskAssumption DEF CustomerLoaded, RiskInv
  <2> QED
      BY <1>1, <2>1, <2>2 DEF CustomerLoaded, RiskInv, OfScreen, DecisionMatchesScreening
<1>2. ASSUME NEW c \in RiskCustomer, Reroute(c) PROVE RiskInv'
  <2>1. rerouted' \in BOOLEAN /\ rerouted'
      BY <1>2, Zenon DEF Reroute
  <2> QED
      BY <1>2, <2>1 DEF Reroute, RiskInv, OfScreen, DecisionMatchesScreening
<1> QED
    BY <1>1, <1>2

LEMMA ScreeningStep ==
    ASSUME RiskInv,
           \/ ScreenInvalid
           \/ \E a \in RiskAddress : Screen(a)
           \/ \E ok \in BOOLEAN : ScreenAnswers(ok)
    PROVE  RiskInv'
<1>1. CASE ScreenInvalid
    BY <1>1 DEF ScreenInvalid, RiskInv, OfScreen, DecisionMatchesScreening
<1>2. ASSUME NEW a \in RiskAddress, Screen(a) PROVE RiskInv'
  <2>1. rerouted' \in BOOLEAN /\ (rerouted' <=> route # onScreen)
      BY <1>2, Zenon DEF Screen
  <2>2. PICK s : s = [of |-> onScreen, address |-> a]
      OBVIOUS
  <2>3. s \in Screening /\ s.of = onScreen /\ s.address = a
      BY <1>2, <2>2 DEF Screen, RiskInv, Screening
  <2>4. /\ screening' = s /\ assessment' = Null /\ screenedAddress' = a /\ onScreen # Null
        /\ UNCHANGED <<route, onScreen, recording>>
      BY <1>2, <2>2 DEF Screen, ClearedAssessment
  <2> QED
      BY <2>1, <2>3, <2>4 DEF RiskInv, OfScreen, DecisionMatchesScreening
<1>3. ASSUME NEW ok \in BOOLEAN, ScreenAnswers(ok) PROVE RiskInv'
  <2>1. /\ assessment' \in {screening, Null} /\ screening' = Null
        /\ UNCHANGED <<route, onScreen, screenedAddress, recording, rerouted>>
      BY <1>3 DEF ScreenAnswers
  <2> QED
      BY <2>1 DEF RiskInv, OfScreen, DecisionMatchesScreening
<1> QED
    BY <1>1, <1>2, <1>3

LEMMA RecordStep == ASSUME RiskInv, Record PROVE RiskInv'
<1>1. PICK d : d = [of |-> onScreen, address |-> screenedAddress, signals |-> assessment,
                    rerouted |-> rerouted]
    OBVIOUS
<1>2. d.of = onScreen /\ d.address = screenedAddress /\ d.signals = assessment
    BY <1>1
<1>3. d.rerouted = rerouted
    BY <1>1, Zenon
<1>4. /\ recording' = {d} /\ assessment # Null
      /\ UNCHANGED <<route, onScreen, screenedAddress, assessment, screening, rerouted>>
    BY <1>1 DEF Record
<1>5. d.signals.address = d.address /\ (d.signals.of = d.of \/ d.rerouted)
    BY <1>2, <1>3, <1>4 DEF RiskInv, OfScreen
<1>6. DecisionMatchesScreening'
    BY <1>4, <1>5 DEF DecisionMatchesScreening
<1> QED
    BY <1>4, <1>6 DEF RiskInv, OfScreen

LEMMA RiskRest ==
    ASSUME RiskInv, recording' \subseteq recording,
           UNCHANGED <<route, onScreen, screenedAddress, assessment, screening, rerouted>>
    PROVE  RiskInv'
BY DEF RiskInv, OfScreen, DecisionMatchesScreening

\* A decision recorded on the risk screen always carries the signals of a screening of
\* its own address, and of its own customer unless the route changed in between.
THEOREM DecisionsMatchScreenings == RiskSpec => []DecisionMatchesScreening
<1>1. RiskInit => RiskInv
    BY RiskInitInv
<1>2. RiskInv /\ [RiskNext]_riskVars => RiskInv'
  <2> SUFFICES ASSUME RiskInv, [RiskNext]_riskVars PROVE RiskInv'
      OBVIOUS
  <2>1. CASE UNCHANGED riskVars
      BY <2>1, RiskRest DEF riskVars
  <2>2. ASSUME \/ RecordAnswers \/ DropWallet \/ SignAudit
               \/ \E w \in Wallet : UseWallet(w)
               \/ \E s \in signing, ok \in BOOLEAN : SignAnswers(s, ok)
        PROVE  RiskInv'
      BY <2>2, RiskRest DEF RecordAnswers, DropWallet, SignAudit, UseWallet, SignAnswers
  <2> QED
      BY <2>1, <2>2, RouteStep, ScreeningStep, RecordStep DEF RiskNext
<1>3. RiskInv => DecisionMatchesScreening
    BY DEF RiskInv
<1> QED
    BY <1>1, <1>2, <1>3, PTL DEF RiskSpec

LEMMA RiskTypeStep == ASSUME RiskTypeOK, [RiskNext]_riskVars PROVE RiskTypeOK'
<1>1. ASSUME NEW c \in RiskCustomer, Reroute(c) PROVE RiskTypeOK'
  <2>1. rerouted' \in BOOLEAN
      BY <1>1, Zenon DEF Reroute
  <2> QED
      BY <1>1, <2>1 DEF Reroute, RiskTypeOK
<1>2. CASE CustomerLoaded
    BY <1>2 DEF CustomerLoaded, RiskTypeOK
<1>3. CASE ScreenInvalid
    BY <1>3 DEF ScreenInvalid, RiskTypeOK
<1>4. ASSUME NEW a \in RiskAddress, Screen(a) PROVE RiskTypeOK'
  <2>1. rerouted' \in BOOLEAN
      BY <1>4, Zenon DEF Screen
  <2>2. [of |-> onScreen, address |-> a] \in Screening
      BY <1>4 DEF Screen, RiskTypeOK, Screening
  <2> QED
      BY <1>4, <2>1, <2>2 DEF Screen, ClearedAssessment, RiskTypeOK
<1>5. ASSUME NEW ok \in BOOLEAN, ScreenAnswers(ok) PROVE RiskTypeOK'
    BY <1>5 DEF ScreenAnswers, RiskTypeOK
<1>6. CASE Record
  <2>1. PICK d : d = [of |-> onScreen, address |-> screenedAddress, signals |-> assessment,
                      rerouted |-> rerouted]
      OBVIOUS
  <2>2. /\ onScreen \in RiskCustomer /\ screenedAddress \in RiskAddress
        /\ assessment \in Screening
      BY <1>6 DEF Record, RiskTypeOK
  <2>3. rerouted \in BOOLEAN
      BY DEF RiskTypeOK
  <2>4. d \in Decision
      BY <2>1, <2>2, <2>3 DEF Decision
  <2>5. recording' = {d} /\ Cardinality({d}) = 1
      BY <1>6, <2>1, FS_Singleton DEF Record
  <2>6. recording' \subseteq Decision /\ Cardinality(recording') <= 1
      BY <2>4, <2>5
  <2>7. UNCHANGED <<route, onScreen, screenedAddress, assessment, screening,
                    operatorWallet, signing, signature, rerouted>>
      BY <1>6 DEF Record
  <2> QED
      BY <2>6, <2>7 DEF RiskTypeOK
<1>7. CASE RecordAnswers
  <2>1. recording' = {} /\ Cardinality(recording') <= 1
      BY <1>7, FS_EmptySet DEF RecordAnswers
  <2> QED
      BY <1>7, <2>1 DEF RecordAnswers, RiskTypeOK
<1>8. ASSUME NEW w \in Wallet, UseWallet(w) PROVE RiskTypeOK'
    BY <1>8 DEF UseWallet, RiskTypeOK
<1>9. CASE DropWallet
    BY <1>9 DEF DropWallet, RiskTypeOK
<1>10. CASE SignAudit
  <2>1. [by |-> operatorWallet, address |-> screenedAddress] \in Signature
      BY <1>10 DEF SignAudit, RiskTypeOK, Signature
  <2> QED
      BY <1>10, <2>1 DEF SignAudit, RiskTypeOK
<1>11. ASSUME NEW s \in signing, NEW ok \in BOOLEAN, SignAnswers(s, ok) PROVE RiskTypeOK'
    BY <1>11 DEF SignAnswers, RiskTypeOK
<1>12. CASE UNCHANGED riskVars
    BY <1>12 DEF riskVars, RiskTypeOK
<1> QED
    BY <1>1, <1>2, <1>3, <1>4, <1>5, <1>6, <1>7, <1>8, <1>9, <1>10, <1>11, <1>12 DEF RiskNext

\* Decisions and signatures are of customers, addresses and accounts there are, and one
\* decision is on the wire at a time.
THEOREM RiskTypeCorrect == RiskSpec => []RiskTypeOK
<1>1. ASSUME RiskInit PROVE RiskTypeOK
  <2>1. rerouted \in BOOLEAN
      BY <1>1, Zenon DEF RiskInit
  <2>2. Cardinality(recording) <= 1
      BY <1>1, FS_EmptySet DEF RiskInit
  <2> QED
      BY <1>1, <2>1, <2>2 DEF RiskInit, RiskTypeOK
<1> QED
    BY <1>1, RiskTypeStep, PTL DEF RiskSpec

-----------------------------------------------------------------------------
(* The security section of the settings screen *)

\* The devices: a revoke that was answered without failure has taken effect.
DevicesInv ==
    /\ active \subseteq TrustedDevice
    /\ revokeAnswer \in {"none", "sent", "revoked", "gone", "failed"}
    /\ DevicesShown
    /\ revokeAnswer \in {"revoked", "gone"} => revokingId \notin active
    /\ revokeAnswer = "none" => revokingId \notin TrustedDevice

\* The codes: what the owner has confirmed is no longer awaited.
CodesInv ==
    /\ codesIssued \in Nat /\ newCodes \in Nat /\ unconfirmed \in Nat
    /\ CodesKept
    /\ codesSaved => unconfirmed = 0

LEMMA DevicesStep ==
    ASSUME DevicesInv, SettingsNext \/ UNCHANGED settingsVars PROVE DevicesInv'
<1> USE DEF DevicesInv, DevicesShown
<1>1. CASE UNCHANGED deviceVars
    BY <1>1 DEF deviceVars
<1>2. CASE EnterSecurity \/ RetryLoadDevices
    BY <1>2 DEF EnterSecurity, RetryLoadDevices
<1>3. ASSUME NEW l \in deviceLoads, NEW ok \in BOOLEAN, DevicesLoaded(l, ok) PROVE DevicesInv'
  <2>1. /\ \/ known' = l /\ trusted' = l
           \/ known' = known /\ trusted' = trusted
        /\ UNCHANGED <<active, revokingId, revokeAnswer>>
      BY <1>3 DEF DevicesLoaded
  <2> QED
      BY <2>1
<1>4. ASSUME NEW d \in TrustedDevice, AskRevoke(d) \/ RevokedElsewhere(d) PROVE DevicesInv'
    BY <1>4 DEF AskRevoke, RevokedElsewhere
<1>5. CASE CancelRevoke \/ RevokeIsLost
    BY <1>5 DEF CancelRevoke, RevokeIsLost
<1>6. CASE ConfirmRevoke
    BY <1>6, SettingsAssumption DEF ConfirmRevoke
<1>7. ASSUME NEW answer \in {"delivered", "lost"}, RevokeExecutes(answer) PROVE DevicesInv'
    BY <1>7 DEF RevokeExecutes
<1>8. CASE RevokeAnswered
    BY <1>8, SettingsAssumption DEF RevokeAnswered, Restored
<1>9. ASSUME SettingsNext,
             ~(EnterSecurity \/ RetryLoadDevices),
             ~\E l \in deviceLoads, ok \in BOOLEAN : DevicesLoaded(l, ok),
             ~\E d \in TrustedDevice : AskRevoke(d) \/ RevokedElsewhere(d),
             ~(CancelRevoke \/ RevokeIsLost), ~ConfirmRevoke, ~RevokeAnswered,
             ~\E answer \in {"delivered", "lost"} : RevokeExecutes(answer)
      PROVE  UNCHANGED deviceVars
    BY <1>9 DEF SettingsNext, LeaveSecurity, OpenMfaAction, CancelMfaAction, SubmitMfaAction,
       MfaExecutes, MfaFails, MfaAnswered, ToggleMfaCodesSaved, DismissNewBackupCodes
<1> QED
    BY <1>1, <1>2, <1>3, <1>4, <1>5, <1>6, <1>7, <1>8, <1>9 DEF settingsVars

LEMMA CodesStep ==
    ASSUME CodesInv, SettingsNext \/ UNCHANGED settingsVars PROVE CodesInv'
<1> USE DEF CodesInv, CodesKept
<1>1. CASE UNCHANGED codeVars
    BY <1>1 DEF codeVars
<1>2. ASSUME NEW a \in {"disable", "regenerate"}, OpenMfaAction(a) PROVE CodesInv'
    BY <1>2 DEF OpenMfaAction
<1>3. CASE CancelMfaAction \/ SubmitMfaAction \/ MfaFails
    BY <1>3 DEF CancelMfaAction, SubmitMfaAction, MfaFails
<1>4. CASE MfaExecutes
    BY <1>4 DEF MfaExecutes
<1>5. CASE MfaAnswered
    BY <1>5 DEF MfaAnswered
<1>6. CASE ToggleMfaCodesSaved
    BY <1>6 DEF ToggleMfaCodesSaved
<1>7. CASE DismissNewBackupCodes
    BY <1>7 DEF DismissNewBackupCodes, Dismissable
<1>8. ASSUME SettingsNext,
             ~\E a \in {"disable", "regenerate"} : OpenMfaAction(a),
             ~(CancelMfaAction \/ SubmitMfaAction \/ MfaFails), ~MfaExecutes, ~MfaAnswered,
             ~ToggleMfaCodesSaved, ~DismissNewBackupCodes
      PROVE  UNCHANGED codeVars
    BY <1>8 DEF SettingsNext, EnterSecurity, LeaveSecurity, RetryLoadDevices, DevicesLoaded,
       AskRevoke, RevokedElsewhere, CancelRevoke, ConfirmRevoke, RevokeIsLost, RevokeAnswered,
       RevokeExecutes
<1> QED
    BY <1>1, <1>2, <1>3, <1>4, <1>5, <1>6, <1>7, <1>8 DEF settingsVars

\* The security section of the settings screen hides no device that can still skip the
\* second factor, and drops no backup codes its owner has not confirmed, for any number
\* of devices, loads on the wire and generations of codes.
THEOREM SettingsStayHonest == SettingsSpec => []SettingsHonest
<1>1. SettingsInit => DevicesInv /\ CodesInv
    BY SettingsAssumption DEF SettingsInit, DevicesInv, DevicesShown, CodesInv, CodesKept
<1>2. DevicesInv /\ CodesInv /\ [SettingsNext]_settingsVars => DevicesInv' /\ CodesInv'
    BY DevicesStep, CodesStep
<1>3. DevicesInv /\ CodesInv => SettingsHonest
    BY DEF DevicesInv, CodesInv, SettingsHonest
<1> QED
    BY <1>1, <1>2, <1>3, PTL DEF SettingsSpec

\* The two parts of the section, and the tab.
DevicesTyped ==
    /\ active \subseteq TrustedDevice
    /\ trusted \subseteq TrustedDevice /\ known \subseteq TrustedDevice
    /\ deviceLoads \subseteq SUBSET TrustedDevice
    /\ devicesLoading \in BOOLEAN /\ devicesFailed \in BOOLEAN
    /\ confirmRevokeId \in TrustedDevice \cup {NoDevice}
    /\ revokingId \in TrustedDevice \cup {NoDevice}
    /\ revokeAnswer \in {"none", "sent", "revoked", "gone", "failed"}
    /\ revokeAnswer # "none" => revokingId \in TrustedDevice

CodesTyped ==
    /\ mfaOn \in BOOLEAN /\ codesSaved \in BOOLEAN
    /\ mfaAction \in {"none", "disable", "regenerate"}
    /\ mfaAnswer \in {"none", "disable", "regenerate", "disabled", "regenerated", "failed"}
    /\ codesIssued \in 0..CodesBound /\ newCodes \in 0..CodesBound
    /\ unconfirmed \in 0..CodesBound

LEMMA DevicesTypeStep ==
    ASSUME DevicesTyped, SettingsNext \/ UNCHANGED settingsVars PROVE DevicesTyped'
<1>1. CASE UNCHANGED deviceVars
    BY <1>1 DEF deviceVars, DevicesTyped
<1>2. CASE EnterSecurity \/ RetryLoadDevices
  <2>1. devicesLoading' \in BOOLEAN /\ devicesFailed' \in BOOLEAN
      BY <1>2, Zenon DEF EnterSecurity, RetryLoadDevices, LoadDevices
  <2> QED
      BY <1>2, <2>1 DEF EnterSecurity, RetryLoadDevices, LoadDevices, DevicesTyped
<1>3. ASSUME NEW l \in deviceLoads, NEW ok \in BOOLEAN, DevicesLoaded(l, ok) PROVE DevicesTyped'
  <2>1. devicesLoading' \in BOOLEAN /\ devicesFailed' \in BOOLEAN
      BY <1>3, Zenon DEF DevicesLoaded
  <2>2. /\ deviceLoads' = deviceLoads \ {l}
        /\ trusted' \in {l, trusted} /\ known' \in {l, known}
        /\ UNCHANGED <<active, confirmRevokeId, revokingId, revokeAnswer>>
      BY <1>3 DEF DevicesLoaded
  <2> QED
      BY <2>1, <2>2 DEF DevicesTyped
<1>4. ASSUME NEW d \in TrustedDevice, AskRevoke(d) \/ RevokedElsewhere(d) PROVE DevicesTyped'
    BY <1>4 DEF AskRevoke, RevokedElsewhere, DevicesTyped
<1>5. CASE CancelRevoke \/ RevokeIsLost
    BY <1>5 DEF CancelRevoke, RevokeIsLost, DevicesTyped
<1>6. CASE ConfirmRevoke
    BY <1>6 DEF ConfirmRevoke, DevicesTyped
<1>7. ASSUME NEW answer \in {"delivered", "lost"}, RevokeExecutes(answer) PROVE DevicesTyped'
    BY <1>7 DEF RevokeExecutes, DevicesTyped
<1>8. CASE RevokeAnswered
    BY <1>8 DEF RevokeAnswered, Restored, DevicesTyped
<1>9. ASSUME SettingsNext,
             ~(EnterSecurity \/ RetryLoadDevices),
             ~\E l \in deviceLoads, ok \in BOOLEAN : DevicesLoaded(l, ok),
             ~\E d \in TrustedDevice : AskRevoke(d) \/ RevokedElsewhere(d),
             ~(CancelRevoke \/ RevokeIsLost), ~ConfirmRevoke, ~RevokeAnswered,
             ~\E answer \in {"delivered", "lost"} : RevokeExecutes(answer)
      PROVE  UNCHANGED deviceVars
    BY <1>9 DEF SettingsNext, LeaveSecurity, OpenMfaAction, CancelMfaAction, SubmitMfaAction,
       MfaExecutes, MfaFails, MfaAnswered, ToggleMfaCodesSaved, DismissNewBackupCodes
<1> QED
    BY <1>1, <1>2, <1>3, <1>4, <1>5, <1>6, <1>7, <1>8, <1>9 DEF settingsVars

LEMMA CodesTypeStep ==
    ASSUME CodesTyped, SettingsNext \/ UNCHANGED settingsVars PROVE CodesTyped'
<1>0. CodesBound \in Nat
    BY SettingsAssumption
<1>1. CASE UNCHANGED codeVars
    BY <1>1 DEF codeVars, CodesTyped
<1>2. ASSUME NEW a \in {"disable", "regenerate"}, OpenMfaAction(a) PROVE CodesTyped'
  <2>1. codesSaved' \in BOOLEAN
      BY <1>2, Zenon DEF OpenMfaAction
  <2> QED
      BY <1>0, <1>2, <2>1 DEF OpenMfaAction, CodesTyped
<1>3. CASE CancelMfaAction \/ SubmitMfaAction \/ MfaFails
    BY <1>3 DEF CancelMfaAction, SubmitMfaAction, MfaFails, CodesTyped
<1>4. CASE MfaExecutes
    BY <1>0, <1>4 DEF MfaExecutes, CodesTyped
<1>5. CASE MfaAnswered
  <2>1. mfaOn' \in BOOLEAN
      BY <1>5, Zenon DEF MfaAnswered
  <2>2. codesSaved' \in BOOLEAN
    <3>1. codesSaved' = FALSE \/ codesSaved' = codesSaved
        BY <1>5 DEF MfaAnswered
    <3> QED
        BY <3>1 DEF CodesTyped
  <2> QED
      BY <1>5, <2>1, <2>2 DEF MfaAnswered, CodesTyped
<1>6. CASE ToggleMfaCodesSaved
  <2>1. codesSaved' \in BOOLEAN
      BY <1>6, Zenon DEF ToggleMfaCodesSaved
  <2>2. unconfirmed' \in {0, newCodes}
      BY <1>6 DEF ToggleMfaCodesSaved
  <2> QED
      BY <1>0, <1>6, <2>1, <2>2 DEF ToggleMfaCodesSaved, CodesTyped
<1>7. CASE DismissNewBackupCodes
  <2>1. codesSaved' \in BOOLEAN
      BY <1>7, Zenon DEF DismissNewBackupCodes
  <2> QED
      BY <1>0, <1>7, <2>1 DEF DismissNewBackupCodes, CodesTyped
<1>8. ASSUME SettingsNext,
             ~\E a \in {"disable", "regenerate"} : OpenMfaAction(a),
             ~(CancelMfaAction \/ SubmitMfaAction \/ MfaFails), ~MfaExecutes, ~MfaAnswered,
             ~ToggleMfaCodesSaved, ~DismissNewBackupCodes
      PROVE  UNCHANGED codeVars
    BY <1>8 DEF SettingsNext, EnterSecurity, LeaveSecurity, RetryLoadDevices, DevicesLoaded,
       AskRevoke, RevokedElsewhere, CancelRevoke, ConfirmRevoke, RevokeIsLost, RevokeAnswered,
       RevokeExecutes
<1> QED
    BY <1>1, <1>2, <1>3, <1>4, <1>5, <1>6, <1>7, <1>8 DEF settingsVars

LEMMA TabTypeStep ==
    ASSUME inSecurity \in BOOLEAN, SettingsNext \/ UNCHANGED settingsVars
    PROVE  inSecurity' \in BOOLEAN
<1>1. inSecurity' = inSecurity \/ inSecurity' = TRUE \/ inSecurity' = FALSE
    BY DEF SettingsNext, EnterSecurity, LeaveSecurity, RetryLoadDevices, DevicesLoaded,
       AskRevoke, RevokedElsewhere, CancelRevoke, ConfirmRevoke, RevokeIsLost, RevokeAnswered,
       RevokeExecutes, OpenMfaAction, CancelMfaAction, SubmitMfaAction, MfaExecutes, MfaFails,
       MfaAnswered, ToggleMfaCodesSaved, DismissNewBackupCodes, settingsVars
<1> QED
    BY <1>1, Zenon

\* The lists hold devices of the operator, and only generations that were issued are
\* shown or awaited.
THEOREM SettingsTypeCorrect == SettingsSpec => []SettingsTypeOK
<1>1. ASSUME SettingsInit PROVE DevicesTyped /\ CodesTyped /\ inSecurity \in BOOLEAN
  <2>1. /\ inSecurity \in BOOLEAN /\ devicesLoading \in BOOLEAN /\ devicesFailed \in BOOLEAN
        /\ mfaOn \in BOOLEAN /\ codesSaved \in BOOLEAN
      BY <1>1, Zenon DEF SettingsInit
  <2> QED
      BY <1>1, <2>1, SettingsAssumption DEF SettingsInit, DevicesTyped, CodesTyped
<1>2. (DevicesTyped /\ CodesTyped /\ inSecurity \in BOOLEAN)
      /\ [SettingsNext]_settingsVars
      => (DevicesTyped /\ CodesTyped /\ inSecurity \in BOOLEAN)'
    BY DevicesTypeStep, CodesTypeStep, TabTypeStep
<1>3. DevicesTyped /\ CodesTyped /\ inSecurity \in BOOLEAN => SettingsTypeOK
  <2> SUFFICES ASSUME DevicesTyped, CodesTyped, inSecurity \in BOOLEAN PROVE SettingsTypeOK
      OBVIOUS
  <2>1. {inSecurity, devicesLoading, devicesFailed, mfaOn, codesSaved} \subseteq BOOLEAN
      BY Zenon DEF DevicesTyped, CodesTyped
  <2> QED
      BY <2>1 DEF DevicesTyped, CodesTyped, SettingsTypeOK
<1> QED
    BY <1>1, <1>2, <1>3, PTL DEF SettingsSpec

-----------------------------------------------------------------------------
(* The reset-request screen *)

Deciding == [id : DeskRequest, as : {"APPROVED", "DENIED"}, at : {"sent", "done", "stale"}]
Decided == [asked : DeskRequest, sent : DeskRequest]

\* The inductive invariant: an open dialog asks about a request.
DeskInv ==
    /\ decisions \in [DeskRequest -> DeskStatus]
    /\ requestsShown \in BOOLEAN /\ listLoading \in BOOLEAN /\ detailLoading \in BOOLEAN
    /\ selected \in Detail \cup {Nothing}
    /\ lists \subseteq DeskRequest \cup {NoRequest}
    /\ details \subseteq Detail
    /\ preselected \in DeskRequest \cup {NoRequest} /\ asked \in DeskRequest \cup {NoRequest}
    /\ confirmAction \in {"none", "APPROVED", "DENIED"}
    /\ deciding \in Deciding \cup {NoDecision}
    /\ decided \in Decided \cup {NoDecision}
    /\ confirmAction # "none" => asked \in DeskRequest

LEMMA DeskFields ==
    /\ \A d \in Detail : d.id \in DeskRequest
    /\ \A d \in Deciding : d.id \in DeskRequest /\ d.as \in {"APPROVED", "DENIED"}
    /\ Nothing.id = NoRequest
BY DEF Detail, Deciding, Nothing

\* A detail is fetched.
LEMMA FetchedType ==
    ASSUME DeskInv, NEW q \in DeskRequest, FetchDetail(q)
    PROVE  details' \subseteq Detail /\ detailLoading' \in BOOLEAN
<1>1. [id |-> q, status |-> decisions[q]] \in Detail
    BY DEF DeskInv, Detail
<1>2. detailLoading' \in BOOLEAN
    BY Zenon DEF FetchDetail
<1> QED
    BY <1>1, <1>2 DEF FetchDetail, DeskInv

LEMMA DeskFetches ==
    ASSUME DeskInv,
           \/ \E q \in lists, ok \in BOOLEAN : ListAnswered(q, ok)
           \/ \E d \in details, ok \in BOOLEAN : DetailAnswered(d, ok)
           \/ \E q \in DeskRequest : Preselect(q) \/ SelectRequest(q)
           \/ Refresh
    PROVE  DeskInv'
<1>1. ASSUME NEW q \in lists, NEW ok \in BOOLEAN, ListAnswered(q, ok) PROVE DeskInv'
  <2>1. listLoading' \in BOOLEAN /\ requestsShown' \in BOOLEAN
      BY <1>1, Zenon DEF ListAnswered
  <2>2. details' \subseteq Detail /\ detailLoading' \in BOOLEAN
    <3>1. CASE ok /\ q # NoRequest
        BY <1>1, <3>1, FetchedType DEF ListAnswered, DeskInv
    <3>2. CASE ~(ok /\ q # NoRequest)
        BY <1>1, <3>2 DEF ListAnswered, DeskInv
    <3> QED
        BY <3>1, <3>2
  <2> QED
      BY <1>1, <2>1, <2>2 DEF ListAnswered, DeskInv
<1>2. ASSUME NEW d \in details, NEW ok \in BOOLEAN, DetailAnswered(d, ok) PROVE DeskInv'
  <2>1. detailLoading' \in BOOLEAN
      BY <1>2, Zenon DEF DetailAnswered
  <2> QED
      BY <1>2, <2>1 DEF DetailAnswered, DeskInv
<1>3. ASSUME NEW q \in DeskRequest, Preselect(q) \/ SelectRequest(q) PROVE DeskInv'
  <2>1. details' \subseteq Detail /\ detailLoading' \in BOOLEAN
      BY <1>3, FetchedType DEF Preselect, SelectRequest
  <2> QED
      BY <1>3, <2>1 DEF Preselect, SelectRequest, DeskInv
<1>4. CASE Refresh
  <2>1. listLoading' \in BOOLEAN
      BY <1>4, Zenon DEF Refresh, LoadRequests
  <2>2. selected.id \in DeskRequest \cup {NoRequest}
      BY DeskFields DEF DeskInv
  <2> QED
      BY <1>4, <2>1, <2>2 DEF Refresh, LoadRequests, DeskInv
<1> QED
    BY <1>1, <1>2, <1>3, <1>4

LEMMA DeskDecides ==
    ASSUME DeskInv,
           \/ CancelDecision \/ ConfirmDecision
           \/ \E a \in {"APPROVED", "DENIED"} : AskDecision(a)
           \/ DecisionExecutes \/ DecisionAnswered \/ DecisionFails
           \/ \E q \in DeskRequest, as \in {"APPROVED", "EXPIRED"} : DecidedElsewhere(q, as)
    PROVE  DeskInv'
<1>1. CASE CancelDecision
    BY <1>1 DEF CancelDecision, DeskInv
<1>2. CASE ConfirmDecision
  <2>1. selected.id \in DeskRequest /\ asked \in DeskRequest
        /\ confirmAction \in {"APPROVED", "DENIED"}
      BY <1>2, DeskFields DEF ConfirmDecision, DeskInv
  <2>2. [id |-> selected.id, as |-> confirmAction, at |-> "sent"] \in Deciding
      BY <2>1 DEF Deciding
  <2>3. [asked |-> asked, sent |-> selected.id] \in Decided
      BY <2>1 DEF Decided
  <2> QED
      BY <1>2, <2>2, <2>3 DEF ConfirmDecision, DeskInv
<1>3. ASSUME NEW a \in {"APPROVED", "DENIED"}, AskDecision(a) PROVE DeskInv'
    BY <1>3, DeskFields DEF AskDecision, DeskInv
<1>4. CASE DecisionExecutes
  <2>1. PICK d : d = deciding
      OBVIOUS
  <2>2. d \in Deciding /\ d.id \in DeskRequest /\ d.as \in {"APPROVED", "DENIED"}
      BY <1>4, <2>1, DeskFields DEF DecisionExecutes, DeskInv
  <2>3. [d EXCEPT !.at = "done"] \in Deciding /\ [d EXCEPT !.at = "stale"] \in Deciding
      BY <2>2 DEF Deciding
  <2>4. d.as \in DeskStatus
      BY <2>2 DEF DeskStatus
  <2>5. decisions' \in [DeskRequest -> DeskStatus]
      BY <1>4, <2>1, <2>4 DEF DecisionExecutes, DeskInv
  <2> QED
      BY <1>4, <2>1, <2>3, <2>5 DEF DecisionExecutes, DeskInv
<1>5. CASE DecisionAnswered
  <2>1. deciding.id \in DeskRequest /\ deciding.as \in {"APPROVED", "DENIED"}
      BY <1>5, DeskFields DEF DecisionAnswered, DeskInv
  <2>2. [id |-> deciding.id, status |-> deciding.as] \in Detail
      BY <2>1 DEF Detail, DeskStatus
  <2>3. listLoading' \in BOOLEAN
      BY <1>5, Zenon DEF DecisionAnswered, LoadRequests
  <2>4. lists' \subseteq DeskRequest \cup {NoRequest}
      BY <1>5, <2>1 DEF DecisionAnswered, LoadRequests, DeskInv
  <2> QED
      BY <1>5, <2>2, <2>3, <2>4 DEF DecisionAnswered, DeskInv
<1>6. CASE DecisionFails
    BY <1>6 DEF DecisionFails, DeskInv
<1>7. ASSUME NEW q \in DeskRequest, NEW as \in {"APPROVED", "EXPIRED"}, DecidedElsewhere(q, as)
      PROVE  DeskInv'
    BY <1>7 DEF DecidedElsewhere, DeskInv, DeskStatus
<1> QED
    BY <1>1, <1>2, <1>3, <1>4, <1>5, <1>6, <1>7

LEMMA DeskInitInv == ASSUME DeskInit PROVE DeskInv
<1>1. requestsShown \in BOOLEAN /\ listLoading \in BOOLEAN /\ detailLoading \in BOOLEAN
    BY Zenon DEF DeskInit
<1> QED
    BY <1>1 DEF DeskInit, DeskInv, DeskStatus

LEMMA DeskStep == ASSUME DeskInv, [DeskNext]_deskVars PROVE DeskInv'
<1>1. CASE UNCHANGED deskVars
    BY <1>1 DEF deskVars, DeskInv
<1> QED
    BY <1>1, DeskFetches, DeskDecides DEF DeskNext

\* A decision is sent of a request, and its dialog was opened on one.
THEOREM DeskTypeCorrect == DeskSpec => []DeskTypeOK
<1>1. DeskInv => DeskTypeOK
  <2> SUFFICES ASSUME DeskInv PROVE DeskTypeOK
      OBVIOUS
  <2>1. {requestsShown, listLoading, detailLoading} \subseteq BOOLEAN
      BY Zenon DEF DeskInv
  <2> QED
      BY <2>1 DEF DeskInv, DeskTypeOK, Deciding, Decided
<1> QED
    BY <1>1, DeskInitInv, DeskStep, PTL DEF DeskSpec

\* An open dialog is about the request selected, unless none is.
FocusInv == confirmAction # "none" => selected.id \in {asked, NoRequest}

LEMMA FocusStep ==
    ASSUME DeskInv, FocusInv, DecidesWhatWasAsked, [FocusedNext]_deskVars
    PROVE  FocusInv' /\ DecidesWhatWasAsked'
<1>1. CASE ConfirmDecision
  <2>1. selected \in Detail /\ selected.id \in DeskRequest
      BY <1>1, DeskFields DEF ConfirmDecision, DeskInv
  <2>2. selected.id = asked
      BY <1>1, <2>1, DeskAssumption DEF ConfirmDecision, FocusInv
  <2>3. PICK g : g = [asked |-> asked, sent |-> selected.id]
      OBVIOUS
  <2>4. g.sent = g.asked
      BY <2>2, <2>3
  <2> QED
      BY <1>1, <2>3, <2>4 DEF ConfirmDecision, FocusInv, DecidesWhatWasAsked
<1>2. ASSUME NEW a \in {"APPROVED", "DENIED"}, AskDecision(a)
      PROVE  FocusInv' /\ DecidesWhatWasAsked'
    BY <1>2 DEF AskDecision, FocusInv, DecidesWhatWasAsked
<1>3. CASE CancelDecision
    BY <1>3 DEF CancelDecision, FocusInv, DecidesWhatWasAsked
<1>4. CASE UNCHANGED deskVars
    BY <1>4 DEF deskVars, FocusInv, DecidesWhatWasAsked
<1>5. ASSUME FocusedNext, UNCHANGED <<confirmAction, asked, decided>>
      PROVE  FocusInv' /\ DecidesWhatWasAsked'
    BY <1>5 DEF FocusedNext, FocusInv, DecidesWhatWasAsked
<1> QED
    BY <1>1, <1>2, <1>3, <1>4, <1>5 DEF FocusedNext, DeskNext, ListAnswered, DetailAnswered,
       Preselect, SelectRequest, Refresh, DecisionExecutes, DecisionAnswered, DecisionFails,
       DecidedElsewhere

\* The request decided is the one the dialog asked about unless the detail of another is
\* answered while it asks: that late answer alone is behind the violation of
\* DecidesWhatWasAsked.
THEOREM FocusedDecisionsMatch == FocusedSpec => []DecidesWhatWasAsked
<1>1. DeskInit => DeskInv /\ FocusInv /\ DecidesWhatWasAsked
    BY DeskInitInv DEF DeskInit, FocusInv, DecidesWhatWasAsked
<1>2. DeskInv /\ FocusInv /\ DecidesWhatWasAsked /\ [FocusedNext]_deskVars =>
          DeskInv' /\ FocusInv' /\ DecidesWhatWasAsked'
    BY DeskStep, FocusStep DEF FocusedNext
<1> QED
    BY <1>1, <1>2, PTL DEF FocusedSpec

-----------------------------------------------------------------------------
(* The customer detail screen *)

\* What the switch asked for last is what an answer paints, unless the route changed.
Concealed(s) ==
    s # None => s \in Shown /\ (s.clear => revealOn \/ s.late)

RevealInv ==
    /\ revealOn \in BOOLEAN /\ skeleton \in BOOLEAN
    /\ detailId \in DetailCustomer
    /\ loadingCustomer \in {detailId, None}
    /\ Concealed(detail) /\ Concealed(revealing)

LEMMA RevealInit == ASSUME DetailInit PROVE RevealInv
<1>1. revealOn \in BOOLEAN /\ skeleton \in BOOLEAN
    BY Zenon DEF DetailInit
<1> QED
    BY <1>1 DEF DetailInit, RevealInv, Concealed

LEMMA GoToReveals ==
    ASSUME RevealInv, NEW c \in DetailCustomer, GoTo(c) PROVE RevealInv'
<1>1. revealOn' \in BOOLEAN /\ skeleton' \in BOOLEAN
    BY Zenon DEF GoTo
<1>2. Concealed(revealing)'
  <2>1. CASE revealing = None
      BY <2>1 DEF GoTo, Late, Concealed
  <2>2. CASE revealing # None
    <3>1. revealing \in Shown
        BY <2>2 DEF RevealInv, Concealed
    <3>2. PICK g : g = [revealing EXCEPT !.late = TRUE]
        OBVIOUS
    <3>3. g \in Shown
        BY <3>1, <3>2 DEF Shown
    <3>4. g.late
        BY <3>1, <3>2, Zenon DEF Shown
    <3>5. revealing' = g
        BY <2>2, <3>2 DEF GoTo, Late
    <3> QED
        BY <3>3, <3>4, <3>5 DEF Concealed
  <2> QED
      BY <2>1, <2>2
<1> QED
    BY <1>1, <1>2 DEF GoTo, RevealInv, Concealed

LEMMA ToggleReveals == ASSUME RevealInv, ToggleDetailReveal PROVE RevealInv'
<1>1. revealOn' \in BOOLEAN /\ (revealOn' <=> ~revealOn)
    BY Zenon DEF ToggleDetailReveal
<1>2. PICK g : g = [of |-> detailId, clear |-> ~revealOn, late |-> FALSE]
    OBVIOUS
<1>3. g.clear <=> ~revealOn
    BY <1>2, Zenon
<1>4. g \in Shown
    BY <1>2 DEF Shown, RevealInv
<1>5. /\ revealing' = g
      /\ UNCHANGED <<detailId, loadingCustomer, skeleton>>
    BY <1>2 DEF ToggleDetailReveal
<1>6. detail' = None \/ (detail' = detail /\ revealOn')
    BY <1>1 DEF ToggleDetailReveal, ShownWhile
<1> QED
    BY <1>1, <1>3, <1>4, <1>5, <1>6 DEF RevealInv, Concealed

LEMMA LoadReveals == ASSUME RevealInv, DetailLoaded PROVE RevealInv'
<1>1. PICK g : g = [of |-> loadingCustomer, clear |-> FALSE, late |-> FALSE]
    OBVIOUS
<1>2. g \in Shown
    BY <1>1 DEF Shown, RevealInv, DetailLoaded
<1>3. ~g.clear
    BY <1>1, Zenon
<1>4. detail' = g /\ loadingCustomer' = None /\ UNCHANGED <<revealOn, detailId, revealing>>
    BY <1>1 DEF DetailLoaded
<1>5. skeleton' \in BOOLEAN
    BY Zenon DEF DetailLoaded
<1> QED
    BY <1>2, <1>3, <1>4, <1>5 DEF RevealInv, Concealed

LEMMA AnswerReveals == ASSUME RevealInv, NEW ok, RevealAnswers(ok) PROVE RevealInv'
<1>1. /\ detail' \in {detail, revealing} /\ revealing' = None
      /\ UNCHANGED <<revealOn, detailId, loadingCustomer, skeleton>>
    BY DEF RevealAnswers
<1> QED
    BY <1>1 DEF RevealInv, Concealed

LEMMA RestReveals ==
    ASSUME RevealInv, UNCHANGED <<revealOn, detailId, detail, loadingCustomer, skeleton, revealing>>
    PROVE  RevealInv'
BY DEF RevealInv, Concealed

LEMMA DetailFailsReveals == ASSUME RevealInv, DetailFails PROVE RevealInv'
<1>1. skeleton' \in BOOLEAN
    BY Zenon DEF DetailFails
<1> QED
    BY <1>1 DEF DetailFails, RevealInv, Concealed

LEMMA RevealStep ==
    ASSUME RevealInv, DetailNext \/ UNCHANGED detailVars PROVE RevealInv'
<1>1. CASE UNCHANGED detailVars
    BY <1>1, RestReveals DEF detailVars
<1>2. CASE \/ ReloadWallet \/ SaveLimits \/ LimitsCommitted \/ LimitsConflict
           \/ LimitsRefused \/ LimitsRead
    BY <1>2, RestReveals DEF ReloadWallet, SaveLimits, LimitsCommitted,
       LimitsConflict, LimitsRefused, LimitsRead
<1>3. ASSUME \/ \E c \in DetailCustomer : LimitsChangedElsewhere(c)
             \/ \E ok \in BOOLEAN : WalletLoaded(ok) \/ LimitsAnswered(ok)
             \/ \E w \in reloads, ok \in BOOLEAN : WalletReloaded(w, ok)
      PROVE  RevealInv'
    BY <1>3, RestReveals DEF LimitsChangedElsewhere, WalletLoaded, LimitsAnswered, WalletReloaded
<1> QED
    BY <1>1, <1>2, <1>3, GoToReveals, ToggleReveals, LoadReveals, AnswerReveals,
       DetailFailsReveals DEF DetailNext

\* A wallet of the route's customer, or asked for before the route changed.
Current(w) == w \in Limits /\ (w.of = detailId \/ w.late)

\* The wallets on screen and on the wire, and the update they lead to: whatever is not
\* late is about the route's customer.
WalletsInv ==
    /\ limitsVersion \in [DetailCustomer -> 0..LimitsBound]
    /\ loadingWallet # None => Current(loadingWallet)
    /\ \A w \in reloads : Current(w)
    /\ wallet # None => Current(wallet)
    /\ saving # None =>
         \/ saving \in Update /\ saving.path = detailId /\ Current(saving.shown)
         \/ saving \in [read : {detailId}]
         \/ saving \in [answer : Limits] /\ Current(saving.answer)
    /\ overwritten \in [shown : Limits, replaced : Limits] \cup {None}
    /\ UpdatesReplaceShown

LEMMA StoredIsCurrent ==
    ASSUME WalletsInv, NEW c \in DetailCustomer
    PROVE  /\ Stored(c) \in Limits
           /\ c = detailId => Current(Stored(c))
<1>1. PICK w : w = Stored(c)
    OBVIOUS
<1>2. w \in Limits
    BY <1>1 DEF WalletsInv, Stored, Limits
<1>3. w.of = c
    BY <1>1 DEF Stored
<1> QED
    BY <1>1, <1>2, <1>3 DEF Current

LEMMA LateIsCurrent ==
    ASSUME NEW w \in Limits
    PROVE  LET g == [w EXCEPT !.late = TRUE] IN g \in Limits /\ g.late
<1>1. PICK g : g = [w EXCEPT !.late = TRUE]
    OBVIOUS
<1>2. g \in Limits
    BY <1>1 DEF Limits
<1>3. g.late
    BY <1>1, Zenon DEF Limits
<1> QED
    BY <1>1, <1>2, <1>3

LEMMA WalletsRest ==
    ASSUME WalletsInv, saving' \in {saving, None}, overwritten' \in {overwritten, None},
           wallet' \in {wallet, None},
           UNCHANGED <<limitsVersion, detailId, loadingWallet, reloads>>
    PROVE  WalletsInv'
BY DEF WalletsInv, Current, UpdatesReplaceShown

LEMMA WalletsGoTo ==
    ASSUME WalletsInv, NEW c \in DetailCustomer, GoTo(c) PROVE WalletsInv'
<1>1. \A w \in Limits : \A g : g = [w EXCEPT !.late = TRUE] => Current(g)'
    BY LateIsCurrent DEF Current
<1>2. loadingWallet' # None => Current(loadingWallet)'
  <2>1. CASE loadingWallet = None
      BY <2>1 DEF GoTo, Late
  <2>2. CASE loadingWallet # None
    <3>1. loadingWallet \in Limits
        BY <2>2 DEF WalletsInv, Current
    <3>2. PICK g : g = [loadingWallet EXCEPT !.late = TRUE]
        OBVIOUS
    <3>3. loadingWallet' = g
        BY <2>2, <3>2 DEF GoTo, Late
    <3>4. Current(g)'
        BY <1>1, <3>1, <3>2
    <3> QED
        BY <3>3, <3>4 DEF Current
  <2> QED
      BY <2>1, <2>2
<1>3. ASSUME NEW g \in reloads' PROVE Current(g)'
  <2>1. PICK w \in reloads : g = [w EXCEPT !.late = TRUE]
      BY DEF GoTo
  <2> QED
      BY <1>1, <2>1 DEF WalletsInv, Current
<1>4. UNCHANGED limitsVersion /\ wallet' = None /\ saving' = None /\ overwritten' = None
    BY DEF GoTo
<1> QED
    BY <1>2, <1>3, <1>4 DEF WalletsInv, Current, UpdatesReplaceShown

LEMMA WalletsCommit == ASSUME WalletsInv, LimitsCommitted PROVE WalletsInv'
<1>1. saving \in Update /\ saving.path = detailId /\ Current(saving.shown)
    BY DEF LimitsCommitted, Patching, WalletsInv
<1>2. PICK c : c = detailId
    OBVIOUS
<1>3. c \in DetailCustomer /\ saving.shown \in Limits
    BY <1>1, <1>2 DEF Update
<1>4. limitsVersion[c] = saving.shown.version /\ limitsVersion[c] + 1 \in 0..LimitsBound
    BY <1>1, <1>2, <1>3, DetailAssumption DEF LimitsCommitted, LimitsCurrent, WalletsInv
<1>5. limitsVersion' = [limitsVersion EXCEPT ![c] = limitsVersion[c] + 1]
    BY <1>1, <1>2 DEF LimitsCommitted
<1>6. saving' = [read |-> c] /\ UNCHANGED <<detailId, loadingWallet, reloads, wallet>>
    BY <1>1, <1>2 DEF LimitsCommitted
<1>7. PICK o : o = [shown |-> saving.shown, replaced |-> Stored(c)]
    OBVIOUS
<1>8. o \in [shown : Limits, replaced : Limits] /\ o.shown = saving.shown /\ o.replaced = Stored(c)
    BY <1>3, <1>7, StoredIsCurrent
<1>9. ASSUME ~saving.shown.late PROVE saving.shown = Stored(c)
  <2>1. PICK w : w = saving.shown
      OBVIOUS
  <2>2. w \in Limits /\ w.of = c /\ w.version = limitsVersion[c]
      BY <1>1, <1>2, <1>3, <1>4, <1>9, <2>1 DEF Current
  <2>3. w.late = FALSE
      BY <1>9, <2>1, <2>2, Zenon DEF Limits
  <2>4. w = [of |-> w.of, version |-> w.version, late |-> w.late]
      BY <2>2 DEF Limits
  <2> QED
      BY <2>1, <2>2, <2>3, <2>4, Zenon DEF Stored
<1>10. overwritten' = o
    BY <1>1, <1>2, <1>7 DEF LimitsCommitted
<1>11. UpdatesReplaceShown'
    BY <1>8, <1>9, <1>10 DEF UpdatesReplaceShown
<1>12. limitsVersion' \in [DetailCustomer -> 0..LimitsBound]
    BY <1>3, <1>4, <1>5 DEF WalletsInv
<1> QED
    BY <1>2, <1>3, <1>6, <1>8, <1>10, <1>11, <1>12 DEF WalletsInv, Current

LEMMA WalletsStep ==
    ASSUME WalletsInv, RevealInv, DetailNext \/ UNCHANGED detailVars PROVE WalletsInv'
<1>1. CASE UNCHANGED detailVars \/ DetailFails \/ ToggleDetailReveal \/ LimitsRefused
    BY <1>1, WalletsRest DEF detailVars, DetailFails, ToggleDetailReveal, LimitsRefused
<1>2. ASSUME NEW c \in DetailCustomer, GoTo(c) PROVE WalletsInv'
    BY <1>2, WalletsGoTo
<1>3. ASSUME NEW c \in DetailCustomer, LimitsChangedElsewhere(c) PROVE WalletsInv'
  <2>1. limitsVersion[c] + 1 \in 0..LimitsBound
      BY <1>3, DetailAssumption DEF LimitsChangedElsewhere, WalletsInv
  <2>2. limitsVersion' \in [DetailCustomer -> 0..LimitsBound]
      BY <1>3, <2>1 DEF LimitsChangedElsewhere, WalletsInv
  <2>3. UNCHANGED <<detailId, loadingWallet, reloads, wallet, saving, overwritten>>
      BY <1>3 DEF LimitsChangedElsewhere
  <2> QED
      BY <2>2, <2>3 DEF WalletsInv, Current, UpdatesReplaceShown
<1>4. CASE DetailLoaded
  <2>1. loadingCustomer = detailId /\ detailId \in DetailCustomer
      BY <1>4 DEF DetailLoaded, RevealInv
  <2>2. Current(Stored(detailId))
      BY <2>1, StoredIsCurrent
  <2>3. /\ loadingWallet' = Stored(detailId)
        /\ UNCHANGED <<limitsVersion, detailId, reloads, wallet, saving, overwritten>>
      BY <1>4, <2>1 DEF DetailLoaded
  <2> QED
      BY <2>2, <2>3 DEF WalletsInv, Current, UpdatesReplaceShown
<1>5. CASE ReloadWallet
  <2>1. Current(Stored(detailId))
      BY StoredIsCurrent DEF RevealInv
  <2>2. /\ reloads' = reloads \cup {Stored(detailId)}
        /\ UNCHANGED <<limitsVersion, detailId, loadingWallet, wallet, saving, overwritten>>
      BY <1>5 DEF ReloadWallet
  <2> QED
      BY <2>1, <2>2 DEF WalletsInv, Current, UpdatesReplaceShown
<1>6. CASE SaveLimits
  <2>1. wallet # None /\ Current(wallet)
      BY <1>6 DEF SaveLimits, WalletsInv
  <2>2. PICK u : u = [path |-> detailId, shown |-> wallet]
      OBVIOUS
  <2>3. u \in Update /\ u.path = detailId /\ u.shown = wallet
      BY <2>1, <2>2 DEF Update, RevealInv, Current
  <2>4. /\ saving' = u
        /\ UNCHANGED <<limitsVersion, detailId, loadingWallet, reloads, wallet, overwritten>>
      BY <1>6, <2>2 DEF SaveLimits
  <2> QED
      BY <2>1, <2>3, <2>4 DEF WalletsInv, Current, UpdatesReplaceShown
<1>7. ASSUME NEW ok \in BOOLEAN, WalletLoaded(ok) \/ RevealAnswers(ok) PROVE WalletsInv'
    BY <1>7 DEF WalletLoaded, RevealAnswers, WalletsInv, Current, UpdatesReplaceShown
<1>8. ASSUME NEW w \in reloads, NEW ok \in BOOLEAN, WalletReloaded(w, ok) PROVE WalletsInv'
    BY <1>8 DEF WalletReloaded, WalletsInv, Current, UpdatesReplaceShown
<1>9. CASE LimitsCommitted
    BY <1>9, WalletsCommit
<1>10. CASE LimitsConflict
  <2>1. saving.path = detailId
      BY <1>10 DEF LimitsConflict, Patching, WalletsInv
  <2>2. saving' = [read |-> detailId] /\ UNCHANGED
          <<limitsVersion, detailId, loadingWallet, reloads, wallet, overwritten>>
      BY <1>10, <2>1 DEF LimitsConflict
  <2> QED
      BY <2>2 DEF WalletsInv, Current, UpdatesReplaceShown
<1>11. CASE LimitsRead
  <2>1. saving \in [read : {detailId}]
      BY <1>11 DEF LimitsRead, Update, WalletsInv
  <2>2. Current(Stored(detailId))
      BY StoredIsCurrent DEF RevealInv
  <2>3. PICK a : a = [answer |-> Stored(detailId)]
      OBVIOUS
  <2>4. a \in [answer : Limits] /\ a.answer = Stored(detailId)
      BY <2>2, <2>3 DEF Current
  <2>5. /\ saving' = a /\ overwritten' = None
        /\ UNCHANGED <<limitsVersion, detailId, loadingWallet, reloads, wallet>>
      BY <1>11, <2>1, <2>3 DEF LimitsRead
  <2> QED
      BY <2>2, <2>4, <2>5 DEF WalletsInv, Current, UpdatesReplaceShown
<1>12. ASSUME NEW ok \in BOOLEAN, LimitsAnswered(ok) PROVE WalletsInv'
  <2>1. Current(saving.answer)
      BY <1>12 DEF LimitsAnswered, Update, WalletsInv
  <2>2. /\ wallet' \in {wallet, saving.answer} /\ saving' = None
        /\ UNCHANGED <<limitsVersion, detailId, loadingWallet, reloads, overwritten>>
      BY <1>12 DEF LimitsAnswered
  <2> QED
      BY <2>1, <2>2 DEF WalletsInv, Current, UpdatesReplaceShown
<1> QED
    BY <1>1, <1>2, <1>3, <1>4, <1>5, <1>6, <1>7, <1>8, <1>9, <1>10, <1>11, <1>12 DEF DetailNext

LEMMA DetailInitInv == ASSUME DetailInit PROVE RevealInv /\ WalletsInv
<1>1. WalletsInv
    BY DetailAssumption DEF DetailInit, WalletsInv, UpdatesReplaceShown
<1> QED
    BY <1>1, RevealInit

\* On the customer detail screen nothing unmasked shows with the switch off, and an
\* accepted update of the limits replaces the ones shown, of the customer shown, however
\* answers are lost or reordered, for any number of customers and updates; only what was
\* asked for before the route changed may come in against it.
THEOREM DetailStaysHonest == DetailSpec => []DetailHonest
<1>1. RevealInv /\ WalletsInv => DetailHonest
    BY DEF RevealInv, Concealed, WalletsInv, DetailHonest, HiddenMeansHidden
<1> QED
    BY <1>1, DetailInitInv, RevealStep, WalletsStep, PTL DEF DetailSpec

\* The screen's state has its type: the wallets on the wire and the update they lead to
\* keep their form through conflicts, reloads and lost answers.
THEOREM DetailTypeCorrect == DetailSpec => []DetailTypeOK
<1>1. RevealInv /\ WalletsInv => DetailTypeOK
    BY DEF RevealInv, Concealed, WalletsInv, Current, DetailTypeOK
<1> QED
    BY <1>1, DetailInitInv, RevealStep, WalletsStep, PTL DEF DetailSpec

-----------------------------------------------------------------------------
(* The customer form *)

\* What the operator has not edited is as it was loaded.
UntouchedAsLoaded ==
    /\ "contact" \notin touched => controls.contact = baseline.contact
    /\ "address" \notin touched => controls.address = baseline.address
    /\ "status" \notin touched => controls.isActive = baseline.isActive

\* Only a form that was loaded has a baseline, and one of the row's version shows the
\* row's address or its mask.
BaselineSound ==
    /\ formAt \in {"loading", "failed", "closed"} => baseline = NoForm
    /\ formAt = "open" => baseline # NoForm
    /\ baseline.version <= stored.version
    /\ baseline # NoForm /\ baseline.version = stored.version /\ baseline.address \in FieldText =>
         baseline.address = stored.address

\* The update on the wire was made from the controls, which rest while it is.
UpdateSound ==
    update # NoForm =>
        /\ formAt = "saving"
        /\ update \in Body
        /\ update.version = baseline.version
        /\ update.address = controls.address /\ update.address \in FieldText
        /\ update.contact \in FieldText \cup {EmptyText, Unsent}
        /\ baseline # NoForm /\ controls.contact = baseline.contact => update.contact = Unsent
        /\ baseline # NoForm /\ controls.isActive = baseline.isActive => update.status = Unsent

FormInv ==
    /\ NoMaskStored
    /\ baseline \in FormValue /\ controls \in FormValue
    /\ UntouchedAsLoaded /\ BaselineSound /\ UpdateSound /\ UntouchedKept

LEMMA NoFormValue == NoForm \in FormValue
BY FormAssumption DEF NoForm, FormValue, Text

LEMMA FormInitInv == ASSUME FormInit PROVE FormInv
<1>1. NoForm.version = 0
    BY DEF NoForm
<1>2. stored.version = 0 /\ NoMaskStored
    BY DEF FormInit, NoMaskStored
<1> QED
    BY <1>1, <1>2, NoFormValue
    DEF FormInit, FormInv, UntouchedAsLoaded, BaselineSound, UpdateSound, UntouchedKept

\* Steps that only move the form, or the session's rights.
LEMMA FormRest ==
    ASSUME FormInv,
           UNCHANGED <<stored, baseline, controls, touched, saved>>,
           \/ UNCHANGED <<formAt, update>>
           \/ formAt = "closed" /\ formAt' = "loading" /\ UNCHANGED update
           \/ formAt = "loading" /\ formAt' = "failed" /\ UNCHANGED update
           \/ formAt = "saving" /\ formAt' = (IF baseline = NoForm THEN "failed" ELSE "open")
                /\ update' = NoForm
    PROVE  FormInv'
BY DEF FormInv, NoMaskStored, UntouchedAsLoaded, BaselineSound, UpdateSound, UntouchedKept

LEMMA LoadedStep == ASSUME FormInv, FormLoaded PROVE FormInv'
<1>1. PICK g : g = toFormValue
    OBVIOUS
<1>2. stored.contact \in FieldText /\ stored.address \in FieldText /\ stored.version \in 0..RowVersions
    BY DEF FormInv, NoMaskStored, CustomerOf
<1>3. Read("contact") \in FieldText \cup {Masked} /\ Read("address") \in {stored.address, Masked}
    BY <1>2 DEF Read
<1>4. g.address = Read("address") /\ g.version = stored.version
    BY <1>1 DEF toFormValue
<1>5. g \in FormValue
    BY <1>1, <1>2, <1>3 DEF toFormValue, FormValue, Text
<1>6. g # NoForm
    BY <1>2, <1>3, <1>4, FormAssumption DEF NoForm
<1>7. /\ baseline' = g /\ controls' = g /\ formAt' = "open" /\ formAt = "loading"
      /\ UNCHANGED <<stored, touched, update, saved>>
    BY <1>1 DEF FormLoaded
<1>8. update = NoForm
    BY <1>7 DEF FormInv, UpdateSound
<1>9. BaselineSound'
    BY <1>2, <1>3, <1>4, <1>6, <1>7, FormAssumption DEF BaselineSound
<1> QED
    BY <1>5, <1>7, <1>8, <1>9
    DEF FormInv, NoMaskStored, UntouchedAsLoaded, UpdateSound, UntouchedKept

\* A step that changes controls of a form that is not being saved.
LEMMA EditStep ==
    ASSUME FormInv, formAt \in {"open", "failed"},
           UNCHANGED <<stored, formAt, baseline, update, saved>>,
           controls' \in FormValue, UntouchedAsLoaded'
    PROVE  FormInv'
BY DEF FormInv, NoMaskStored, BaselineSound, UpdateSound, UntouchedKept

LEMMA TypeStep ==
    ASSUME FormInv, NEW f \in {"contact", "address"}, NEW text \in FieldText \cup {EmptyText},
           Type(f, text)
    PROVE  FormInv'
<1>1. CASE f = "contact"
  <2>1. PICK g : g = [controls EXCEPT !.contact = text]
      OBVIOUS
  <2>2. /\ g \in FormValue /\ g.address = controls.address
        /\ g.isActive = controls.isActive
      BY <2>1 DEF FormInv, FormValue, Text
  <2>3. controls' = g /\ touched' = touched \cup {"contact"}
      BY <1>1, <2>1 DEF Type
  <2>4. UntouchedAsLoaded'
      BY <2>2, <2>3 DEF FormInv, UntouchedAsLoaded, Type
  <2> QED
      BY <2>2, <2>3, <2>4, EditStep DEF Type
<1>2. CASE f = "address"
  <2>1. PICK g : g = [controls EXCEPT !.address = text]
      OBVIOUS
  <2>2. /\ g \in FormValue /\ g.contact = controls.contact
        /\ g.isActive = controls.isActive
      BY <2>1 DEF FormInv, FormValue, Text
  <2>3. controls' = g /\ touched' = touched \cup {"address"}
      BY <1>2, <2>1 DEF Type
  <2>4. UntouchedAsLoaded'
      BY <2>2, <2>3 DEF FormInv, UntouchedAsLoaded, Type
  <2> QED
      BY <2>2, <2>3, <2>4, EditStep DEF Type
<1> QED
    BY <1>1, <1>2

LEMMA ToggleStep == ASSUME FormInv, ToggleActive PROVE FormInv'
<1>1. PICK g : g = [controls EXCEPT !.isActive = ~@]
    OBVIOUS
<1>2. g \in FormValue /\ g.contact = controls.contact /\ g.address = controls.address
    BY <1>1 DEF FormInv, FormValue
<1>3. controls' = g /\ touched' = touched \cup {"status"}
    BY <1>1 DEF ToggleActive
<1>4. UntouchedAsLoaded'
    BY <1>2, <1>3 DEF FormInv, UntouchedAsLoaded, ToggleActive
<1> QED
    BY <1>2, <1>3, <1>4, EditStep DEF ToggleActive

LEMMA ClearStep == ASSUME FormInv, ClearForm PROVE FormInv'
<1>1. UntouchedAsLoaded' /\ controls' \in FormValue
    BY DEF FormInv, UntouchedAsLoaded, ClearForm
<1> QED
    BY <1>1, EditStep DEF ClearForm

LEMMA SubmitFormStep == ASSUME FormInv, SubmitForm PROVE FormInv'
<1>1. PICK g : g = Payload
    OBVIOUS
<1>2. formAt = "open" <=> baseline # NoForm
    BY DEF FormInv, BaselineSound, SubmitForm
<1>3. /\ controls.address \in FieldText
      /\ controls.contact \in FieldText \cup {EmptyText}
      /\ baseline.version \in 0..RowVersions
    BY DEF SubmitForm, Valid, AddressValid, ContactValid, FormInv, FormValue
<1>4. /\ g.address = controls.address /\ g.version = baseline.version
      /\ g.contact \in {Unsent, controls.contact} /\ g.status = StatusSent
      /\ formAt = "open" /\ controls.contact = baseline.contact => g.contact = Unsent
    BY <1>1 DEF Payload
<1>5. /\ StatusSent \in {"ACTIVE", "INACTIVE", Unsent}
      /\ formAt = "open" /\ controls.isActive = baseline.isActive => StatusSent = Unsent
    BY DEF StatusSent
<1>6. g \in Body
    BY <1>1, <1>3, <1>5 DEF Payload, Body, Text
<1>7. /\ update' = g /\ formAt' = "saving"
      /\ UNCHANGED <<stored, baseline, controls, touched, saved>>
    BY <1>1 DEF SubmitForm
<1>8. UpdateSound'
    BY <1>2, <1>3, <1>4, <1>5, <1>6, <1>7 DEF UpdateSound
<1> QED
    BY <1>7, <1>8 DEF FormInv, NoMaskStored, UntouchedAsLoaded, BaselineSound, UntouchedKept

LEMMA AcceptedStep == ASSUME FormInv, UpdateAccepted PROVE FormInv'
<1>1. /\ update \in Body /\ update.version = baseline.version
      /\ update.address = controls.address /\ update.address \in FieldText
      /\ update.contact \in FieldText \cup {EmptyText, Unsent}
      /\ baseline # NoForm /\ controls.contact = baseline.contact => update.contact = Unsent
      /\ baseline # NoForm /\ controls.isActive = baseline.isActive => update.status = Unsent
    BY DEF FormInv, UpdateSound, UpdateAccepted
<1>2. /\ update.contact # EmptyText /\ update.version = stored.version
      /\ stored.version < RowVersions /\ formAt = "saving"
    BY DEF UpdateAccepted, Refused
<1>3. stored \in CustomerOf(FieldText)
    BY DEF FormInv, NoMaskStored
<1>4. PICK g : g = Applied(stored, update)
    OBVIOUS
<1>5. /\ g.contact = IF update.contact = Unsent THEN stored.contact ELSE update.contact
      /\ g.address = update.address
      /\ g.status = IF update.status = Unsent THEN stored.status ELSE update.status
      /\ g.version = stored.version + 1
    BY <1>4 DEF Applied
<1>6. g \in CustomerOf(FieldText)
  <2>1. update.status \in {"ACTIVE", "INACTIVE", Unsent}
      BY <1>1 DEF Body
  <2>2. /\ stored.contact \in FieldText /\ stored.status \in {"ACTIVE", "INACTIVE", "CLOSED"}
        /\ stored.version + 1 \in 0..RowVersions
      BY <1>2, <1>3, FormAssumption DEF CustomerOf
  <2> QED
      BY <1>1, <1>2, <1>4, <2>1, <2>2 DEF Applied, CustomerOf
<1>7. /\ stored' = g /\ update' = NoForm
      /\ UNCHANGED <<formAt, baseline, controls, touched>>
    BY <1>4 DEF UpdateAccepted
<1>8. PICK s : s = [before |-> stored, after |-> g, touched |-> touched, seen |-> baseline # NoForm]
    OBVIOUS
<1>9. s.before = stored /\ s.after = g /\ s.touched = touched
    BY <1>8
<1>10. s.seen <=> baseline # NoForm
    BY <1>8, Zenon
<1>11. saved' = s
    BY <1>4, <1>7, <1>8 DEF UpdateAccepted
<1>12. ASSUME baseline # NoForm, NEW f \in Field \ touched PROVE g[f] = stored[f]
  <2>1. UntouchedAsLoaded /\ BaselineSound
      BY DEF FormInv
  <2>2. CASE f = "contact"
      BY <1>1, <1>5, <1>12, <2>1, <2>2 DEF UntouchedAsLoaded
  <2>3. CASE f = "address"
      BY <1>1, <1>2, <1>5, <1>12, <2>1, <2>3 DEF UntouchedAsLoaded, BaselineSound
  <2>4. CASE f = "status"
      BY <1>1, <1>5, <1>12, <2>1, <2>4 DEF UntouchedAsLoaded
  <2> QED
      BY <2>2, <2>3, <2>4, <1>12 DEF Field
<1>13. UntouchedKept'
    BY <1>9, <1>10, <1>11, <1>12 DEF UntouchedKept
<1>14. BaselineSound'
  <2>1. stored.version \in Nat /\ baseline.version = stored.version
      BY <1>1, <1>2, <1>3, FormAssumption DEF CustomerOf
  <2> QED
      BY <1>2, <1>5, <1>7, <2>1 DEF FormInv, BaselineSound
<1> QED
    BY <1>6, <1>7, <1>13, <1>14
    DEF FormInv, NoMaskStored, UntouchedAsLoaded, UpdateSound

LEMMA CloseStep == ASSUME FormInv, CloseForm PROVE FormInv'
<1>1. NoForm.version = 0 /\ stored.version >= 0
    BY FormAssumption DEF NoForm, FormInv, NoMaskStored, CustomerOf
<1> QED
    BY <1>1, NoFormValue DEF CloseForm, FormInv, NoMaskStored, UntouchedAsLoaded, BaselineSound,
       UpdateSound, UntouchedKept

LEMMA ElsewhereStep ==
    ASSUME FormInv, NEW row \in CustomerOf(FieldText), EditedElsewhere(row) PROVE FormInv'
<1>1. /\ stored.version \in Nat /\ baseline.version \in Nat /\ baseline.version <= stored.version
      /\ row.version = stored.version + 1
    BY FormAssumption
    DEF EditedElsewhere, FormInv, NoMaskStored, CustomerOf, FormValue, BaselineSound
<1>2. BaselineSound'
    BY <1>1 DEF EditedElsewhere, FormInv, BaselineSound
<1> QED
    BY <1>2 DEF EditedElsewhere, FormInv, NoMaskStored, UntouchedAsLoaded, UpdateSound, UntouchedKept

LEMMA FormInvStep == ASSUME FormInv, [FormNext]_formVars PROVE FormInv'
<1>1. CASE UNCHANGED formVars
    BY <1>1, FormRest DEF formVars
<1>2. CASE OpenForm \/ FormLoadFails \/ UpdateFails \/ RevealChanges \/ PrincipalReloaded
    BY <1>2, FormRest DEF OpenForm, FormLoadFails, UpdateFails, RevealChanges, PrincipalReloaded
<1> QED
    BY <1>1, <1>2, LoadedStep, TypeStep, ToggleStep, ClearStep, SubmitFormStep, AcceptedStep,
       CloseStep, ElsewhereStep DEF FormNext

\* Whatever is masked, lost, refused or edited by others meanwhile, a save of the
\* customer form never writes a mask or an emptied field over a customer's data, and
\* changes nothing the operator has not edited.
THEOREM FormStaysFaithful == FormSpec => []FormFaithful
<1>1. FormInit => FormInv
    BY FormInitInv
<1>2. FormInv /\ [FormNext]_formVars => FormInv'
    BY FormInvStep
<1>3. FormInv => FormFaithful
    BY DEF FormInv, FormFaithful
<1> QED
    BY <1>1, <1>2, <1>3, PTL DEF FormSpec

\* What the invariant leaves open of the form's type.
FormFlags == mayReveal \in BOOLEAN /\ believed \in BOOLEAN
SavedUpdate ==
    [before : CustomerOf(FieldText), after : CustomerOf(Text), touched : SUBSET Field,
     seen : BOOLEAN]
FormShape ==
    /\ formAt \in {"loading", "open", "failed", "saving", "closed"}
    /\ touched \subseteq Field
    /\ saved \in SavedUpdate \cup {NoForm}

LEMMA FlagsTypeStep == ASSUME FormFlags, [FormNext]_formVars PROVE FormFlags'
<1>1. CASE RevealChanges
  <2>1. mayReveal' \in BOOLEAN
      BY <1>1, Zenon DEF RevealChanges
  <2> QED
      BY <1>1, <2>1 DEF RevealChanges, FormFlags
<1>2. CASE UNCHANGED <<mayReveal, believed>>
    BY <1>2 DEF FormFlags
<1>3. CASE PrincipalReloaded
    BY <1>3 DEF PrincipalReloaded, FormFlags
<1> QED
    BY <1>1, <1>2, <1>3 DEF FormNext, formVars, OpenForm, FormLoaded, FormLoadFails, ToggleActive,
       ClearForm, SubmitForm, Type, UpdateAccepted, UpdateFails, CloseForm, EditedElsewhere

LEMMA RowOfText == CustomerOf(FieldText) \subseteq CustomerOf(Text)
BY DEF CustomerOf, Text

LEMMA ShapeTypeStep ==
    ASSUME FormInv, FormInv', FormShape, [FormNext]_formVars PROVE FormShape'
<1>1. CASE UpdateAccepted
  <2>1. PICK g : g = [before |-> stored, after |-> stored', touched |-> touched,
                      seen |-> baseline # NoForm]
      OBVIOUS
  <2>2. stored \in CustomerOf(FieldText) /\ stored' \in CustomerOf(Text)
      BY RowOfText DEF FormInv, NoMaskStored
  <2>3. g \in SavedUpdate
      BY <2>1, <2>2 DEF SavedUpdate, FormShape
  <2> QED
      BY <1>1, <2>1, <2>3 DEF UpdateAccepted, FormShape
<1>2. ASSUME NEW f \in {"contact", "address"}, NEW text, Type(f, text) PROVE FormShape'
    BY <1>2 DEF Type, FormShape, Field
<1>3. CASE ToggleActive
    BY <1>3 DEF ToggleActive, FormShape, Field
<1>4. CASE CloseForm \/ ClearForm
    BY <1>4 DEF CloseForm, ClearForm, FormShape
<1>5. CASE UNCHANGED <<touched, saved>> /\ ~UpdateAccepted
    BY <1>5 DEF FormNext, formVars, OpenForm, FormLoaded, FormLoadFails, ToggleActive, ClearForm,
       SubmitForm, Type, UpdateFails, CloseForm, EditedElsewhere, RevealChanges,
       PrincipalReloaded, FormShape
<1> QED
    BY <1>1, <1>2, <1>3, <1>4, <1>5 DEF FormNext, formVars, OpenForm, FormLoaded, FormLoadFails,
       SubmitForm, UpdateFails, EditedElsewhere, RevealChanges, PrincipalReloaded

\* The form's state has its type, what is stored and what is shown alike.
THEOREM FormTypeCorrect == FormSpec => []FormTypeOK
<1>1. FormInit => FormInv /\ FormFlags /\ FormShape
    BY FormInitInv DEF FormInit, FormFlags, FormShape
<1>2. FormInv /\ FormFlags /\ FormShape /\ [FormNext]_formVars =>
          FormInv' /\ FormFlags' /\ FormShape'
    BY FormInvStep, FlagsTypeStep, ShapeTypeStep
<1>3. FormInv /\ FormFlags /\ FormShape => FormTypeOK
  <2> SUFFICES ASSUME FormInv, FormFlags, FormShape PROVE FormTypeOK
      OBVIOUS
  <2>1. stored \in CustomerOf(Text)
      BY RowOfText DEF FormInv, NoMaskStored
  <2>2. update \in Body \cup {NoForm}
      BY DEF FormInv, UpdateSound
  <2>3. {mayReveal, believed} \subseteq BOOLEAN
      BY Zenon DEF FormFlags
  <2> QED
      BY <2>1, <2>2, <2>3 DEF FormInv, FormShape, FormTypeOK, SavedUpdate
<1> QED
    BY <1>1, <1>2, <1>3, PTL DEF FormSpec

-----------------------------------------------------------------------------
(* The customer list *)

\* The store's last parameters are the page's, the request on the wire is theirs, and
\* rows in clear were asked for.
ListFlow ==
    /\ mounted \in BOOLEAN /\ reveal \in BOOLEAN /\ unmasked \in BOOLEAN
    /\ view \in ListView /\ navigation \in ListView \cup {NoView}
    /\ \A l \in loads : l \in ListLoad /\ l.params = lastParams
    /\ \A l, k \in loads : l = k
    /\ mounted \/ deletions # <<>> => lastParams \in Params
    /\ mounted => (lastParams.reveal <=> reveal)
    /\ mounted /\ navigation = NoView => lastParams = [view |-> view, reveal |-> reveal]
    /\ unmasked => lastParams.reveal
    /\ mounted /\ loads = {} /\ ~loadFailed => rowsOf = lastParams

\* What is deleted here is not in the list, in an answer on the wire, or on the server.
ListGone ==
    /\ deletions \in Seq(Deletion)
    /\ \A i \in 1..Len(deletions) : deletions[i].at = "ok" => deletions[i].id \notin listed
    /\ goneFor \cap rows = {} /\ goneFor \cap listed = {}
    /\ \A l \in loads : l.rows \cap goneFor = {}

\* What loadCustomers leaves in the store.
LEMMA LoadEffect ==
    ASSUME ListFlow, NEW p \in Params, NEW base, Load(p, base)
    PROVE  /\ rows' \subseteq base /\ lastParams' = p
           /\ unmasked' \in BOOLEAN /\ (unmasked' => p.reveal)
           /\ ~loadFailed'
           /\ \A l \in loads' : l \in ListLoad /\ l.params = p /\ l.rows = {}
           /\ \A l, k \in loads' : l = k
           /\ loads' # {}
<1>1. PICK n : n = [params |-> p, at |-> "sent", rows |-> {}]
    OBVIOUS
<1>2. n \in ListLoad /\ n.params = p /\ n.rows = {}
    BY <1>1 DEF ListLoad
<1>3. loads' = {n}
    BY <1>1 DEF Load, SwitchTo
<1>4. unmasked' \in BOOLEAN /\ (unmasked' <=> unmasked /\ rows' # {})
    BY Zenon DEF Load
<1>5. rows' = IF lastParams.reveal /\ ~p.reveal THEN {} ELSE base
    BY DEF Load, RowsWhileLoading
<1>6. unmasked => lastParams.reveal
    BY DEF ListFlow
<1>7. unmasked' => p.reveal
    BY <1>4, <1>5, <1>6
<1>8. ~loadFailed' /\ lastParams' = p
    BY DEF Load
<1> QED
    BY <1>2, <1>3, <1>4, <1>5, <1>7, <1>8

LEMMA LoadKeepsFlow ==
    ASSUME ListFlow, NEW p \in Params, NEW base, Load(p, base),
           mounted' \in BOOLEAN, reveal' \in BOOLEAN, view' \in ListView,
           navigation' \in ListView \cup {NoView},
           mounted' => (p.reveal <=> reveal'),
           mounted' /\ navigation' = NoView => p = [view |-> view', reveal |-> reveal']
    PROVE  ListFlow'
BY LoadEffect DEF ListFlow

LEMMA ListParams ==
    ASSUME NEW v \in ListView, NEW b \in BOOLEAN
    PROVE  [view |-> v, reveal |-> b] \in Params /\ ([view |-> v, reveal |-> b].reveal <=> b)
<1>1. [view |-> v, reveal |-> b] \in Params
    BY DEF Params
<1>2. [view |-> v, reveal |-> b].reveal <=> b
    BY Zenon
<1> QED
    BY <1>1, <1>2

LEMMA PageLoadFlow ==
    ASSUME ListFlow,
           \/ \E v \in ListView : OpenList(v) \/ Search(v)
           \/ Navigated \/ ToggleReveal \/ LiveReload \/ DeleteSucceeds
    PROVE  ListFlow'
<1>0. /\ reveal \in BOOLEAN /\ mounted \in BOOLEAN /\ view \in ListView
      /\ navigation \in ListView \cup {NoView}
    BY DEF ListFlow
<1>1. ASSUME NEW v \in ListView, OpenList(v) PROVE ListFlow'
  <2>1. mounted' \in BOOLEAN /\ reveal' \in BOOLEAN /\ reveal' = FALSE
      BY <1>1, Zenon DEF OpenList
  <2>2. PICK p : p = [view |-> v, reveal |-> FALSE]
      OBVIOUS
  <2>3. p \in Params /\ ~p.reveal
      BY <2>2, ListParams
  <2>4. p = [view |-> view', reveal |-> reveal']
      BY <1>1, <2>1, <2>2 DEF OpenList
  <2>5. Load(p, rows) /\ view' = v /\ navigation' = NoView
      BY <1>1, <2>2 DEF OpenList
  <2>6. ~reveal'
      BY <2>1, Zenon
  <2> QED
      BY <2>1, <2>3, <2>4, <2>5, <2>6, LoadKeepsFlow
<1>2. ASSUME NEW v \in ListView, Search(v) PROVE ListFlow'
  <2>1. PICK p : p = [view |-> v, reveal |-> reveal]
      OBVIOUS
  <2>2. p \in Params /\ (p.reveal <=> reveal)
      BY <1>0, <2>1, ListParams
  <2>3. /\ Load(p, rows) /\ view' = v /\ UNCHANGED <<mounted, reveal>>
        /\ navigation' \in ListView \cup {NoView}
      BY <1>0, <1>2, <2>1 DEF Search
  <2> QED
      BY <1>0, <2>1, <2>2, <2>3, LoadKeepsFlow
<1>3. CASE Navigated
  <2>1. PICK p : p = [view |-> navigation, reveal |-> reveal]
      OBVIOUS
  <2>2. /\ Load(p, rows) /\ view' = navigation /\ navigation' = NoView
        /\ UNCHANGED <<mounted, reveal>> /\ navigation \in ListView
      BY <1>0, <1>3, <2>1 DEF Navigated
  <2>3. p \in Params /\ (p.reveal <=> reveal)
      BY <1>0, <2>1, <2>2, ListParams
  <2> QED
      BY <1>0, <2>1, <2>2, <2>3, LoadKeepsFlow
<1>4. CASE ToggleReveal
  <2>1. PICK b : b = ~reveal
      OBVIOUS
  <2>2. b \in BOOLEAN
      BY <2>1, Zenon
  <2>3. PICK p : p = [view |-> view, reveal |-> b]
      OBVIOUS
  <2>4. p \in Params /\ (p.reveal <=> b)
      BY <1>0, <2>2, <2>3, ListParams
  <2>5. /\ Load(p, rows) /\ reveal' = b /\ UNCHANGED <<mounted, view, navigation>>
      BY <1>4, <2>1, <2>3, Zenon DEF ToggleReveal
  <2> QED
      BY <1>0, <2>2, <2>3, <2>4, <2>5, LoadKeepsFlow
<1>5. CASE LiveReload
  <2>1. PICK p : p = [view |-> view, reveal |-> reveal]
      OBVIOUS
  <2>2. p \in Params /\ (p.reveal <=> reveal)
      BY <1>0, <2>1, ListParams
  <2>3. Load(p, rows) /\ UNCHANGED <<mounted, view, navigation, reveal>>
      BY <1>5, <2>1 DEF LiveReload, pageVars
  <2> QED
      BY <1>0, <2>1, <2>2, <2>3, LoadKeepsFlow
<1>6. CASE DeleteSucceeds
  <2>1. PICK p, base : p = lastParams /\ base = rows \ {Head(deletions).id}
      OBVIOUS
  <2>2. Load(p, base) /\ deletions # <<>> /\ UNCHANGED <<mounted, view, navigation, reveal>>
      BY <1>6, <2>1 DEF DeleteSucceeds, ReloadAfterDelete
  <2>3. /\ p \in Params
        /\ mounted => (p.reveal <=> reveal)
        /\ mounted /\ navigation = NoView => p = [view |-> view, reveal |-> reveal]
      BY <2>1, <2>2 DEF ListFlow
  <2> QED
      BY <1>0, <2>2, <2>3, LoadKeepsFlow
<1> QED
    BY <1>1, <1>2, <1>3, <1>4, <1>5, <1>6

LEMMA AnswersFlow ==
    ASSUME ListFlow,
           \E l \in loads : ApplyLoad(l) \/ \E r \in {"ok", "error"} : AnswerLoad(l, r)
    PROVE  ListFlow'
<1>1. ASSUME NEW l \in loads, NEW r \in {"ok", "error"}, AnswerLoad(l, r) PROVE ListFlow'
  <2>1. PICK S : S = IF r = "ok" THEN ShownIn[l.params.view] \cap listed ELSE {}
      OBVIOUS
  <2>2. l \in ListLoad /\ l.params \in Params
      BY DEF ListFlow, ListLoad
  <2>3. PICK n : n = [l EXCEPT !.at = r, !.rows = S]
      OBVIOUS
  <2>4. S \subseteq ListRow
      BY <2>1, <2>2, CustomerListAssumption DEF Params
  <2>5. n \in ListLoad /\ n.params = l.params
      BY <2>2, <2>3, <2>4 DEF ListLoad
  <2>6. loads' = (loads \ {l}) \cup {n}
      BY <1>1, <2>1, <2>3 DEF AnswerLoad
  <2>7. loads' = {n}
      BY <2>6 DEF ListFlow
  <2>8. UNCHANGED <<mounted, view, navigation, reveal, unmasked, loadFailed, lastParams,
                    deletions, rowsOf>>
      BY <1>1 DEF AnswerLoad, pageVars
  <2> QED
      BY <2>5, <2>7, <2>8 DEF ListFlow
<1>2. ASSUME NEW l \in loads, ApplyLoad(l) PROVE ListFlow'
  <2>1. loads' = {} /\ l.params = lastParams
      BY <1>2 DEF ApplyLoad, ListFlow
  <2>2. UNCHANGED <<mounted, view, navigation, reveal, lastParams, deletions>>
      BY <1>2 DEF ApplyLoad, pageVars
  <2>3. CASE l.at = "ok"
    <3>1. unmasked' \in BOOLEAN /\ (unmasked' => l.params.reveal)
        BY <1>2, <2>3, Zenon DEF ApplyLoad
    <3>2. rowsOf' = l.params
        BY <1>2, <2>3 DEF ApplyLoad
    <3> QED
        BY <2>1, <2>2, <3>1, <3>2 DEF ListFlow
  <2>4. CASE l.at # "ok"
    <3>1. loadFailed' /\ UNCHANGED unmasked
        BY <1>2, <2>4 DEF ApplyLoad
    <3> QED
        BY <2>1, <2>2, <3>1 DEF ListFlow
  <2> QED
      BY <2>3, <2>4
<1> QED
    BY <1>1, <1>2

\* The remaining steps leave the store's loads alone.
LEMMA RestFlow ==
    ASSUME ListFlow, UNCHANGED <<reveal, unmasked, lastParams, loads, rowsOf, loadFailed>>,
           mounted' = mounted \/ mounted' = FALSE,
           mounted' \/ deletions' # <<>> => mounted \/ deletions # <<>>,
           \/ UNCHANGED <<view, navigation>>
           \/ view' \in ListView /\ navigation' \in ListView
    PROVE  ListFlow'
<1>1. mounted' \in BOOLEAN /\ (mounted' => mounted)
  <2>1. CASE mounted' = mounted
      BY <2>1 DEF ListFlow
  <2>2. CASE mounted' = FALSE
    <3>1. mounted' \in BOOLEAN
        BY <2>2, Zenon
    <3>2. ~mounted'
        BY <2>2
    <3> QED
        BY <3>1, <3>2
  <2> QED
      BY <2>1, <2>2
<1> QED
    BY <1>1, CustomerListAssumption DEF ListFlow

LEMMA FlowStep == ASSUME ListFlow, ListNext \/ UNCHANGED listVars PROVE ListFlow'
<1>1. CASE UNCHANGED listVars
    BY <1>1, RestFlow DEF listVars, pageVars
<1>2. CASE LeaveList
    BY <1>2, RestFlow DEF LeaveList, StoreRests
<1>3. ASSUME NEW v \in ListView, ChangeView(v) PROVE ListFlow'
    BY <1>3, RestFlow DEF ChangeView, StoreRests
<1>4. ASSUME NEW c \in ListRow, OpenDelete(c) \/ ConfirmDelete(c) PROVE ListFlow'
    BY <1>4, RestFlow DEF OpenDelete, ConfirmDelete, StoreRests, pageVars
<1>5. CASE CloseDelete \/ AnswerDelete \/ DeleteFails
    BY <1>5, RestFlow DEF CloseDelete, AnswerDelete, DeleteFails, StoreRests, pageVars
<1> QED
    BY <1>1, <1>2, <1>3, <1>4, <1>5, PageLoadFlow, AnswersFlow DEF ListNext

\* A load that starts from rows of the list keeps what is gone out of it.
LEMMA LoadKeepsGone ==
    ASSUME ListFlow, ListGone, NEW p \in Params, NEW base, Load(p, base), base \subseteq rows,
           UNCHANGED <<deletions, listed, goneFor>>
    PROVE  ListGone'
<1>1. rows' \subseteq base /\ \A l \in loads' : l.rows = {}
    BY LoadEffect
<1> QED
    BY <1>1 DEF ListGone

LEMMA PageGone ==
    ASSUME ListFlow, ListGone,
           \/ \E v \in ListView : OpenList(v) \/ Search(v)
           \/ Navigated \/ ToggleReveal \/ LiveReload
    PROVE  ListGone'
<1>1. UNCHANGED <<deletions, listed, goneFor>>
    BY DEF OpenList, Search, Navigated, ToggleReveal, LiveReload
<1>2. \E w \in ListView, b \in BOOLEAN : Load([view |-> w, reveal |-> b], rows)
  <2>1. view \in ListView /\ navigation \in ListView \cup {NoView} /\ reveal \in BOOLEAN
      BY DEF ListFlow
  <2>2. FALSE \in BOOLEAN /\ (~reveal) \in BOOLEAN
      BY Zenon
  <2> QED
      BY <2>1, <2>2 DEF OpenList, Search, Navigated, ToggleReveal, LiveReload
<1> QED
    BY <1>1, <1>2, LoadKeepsGone, ListParams

LEMMA AnswersGone ==
    ASSUME ListFlow, ListGone,
           \E l \in loads : ApplyLoad(l) \/ \E r \in {"ok", "error"} : AnswerLoad(l, r)
    PROVE  ListGone'
<1>1. ASSUME NEW l \in loads, NEW r \in {"ok", "error"}, AnswerLoad(l, r) PROVE ListGone'
  <2>1. PICK S : S = IF r = "ok" THEN ShownIn[l.params.view] \cap listed ELSE {}
      OBVIOUS
  <2>2. PICK n : n = [l EXCEPT !.at = r, !.rows = S]
      OBVIOUS
  <2>3. n.rows = S
      BY <2>2 DEF ListFlow, ListLoad
  <2>4. loads' = (loads \ {l}) \cup {n} /\ UNCHANGED <<rows, deletions, listed, goneFor>>
      BY <1>1, <2>1, <2>2 DEF AnswerLoad
  <2>5. S \cap goneFor = {}
      BY <2>1 DEF ListGone
  <2> QED
      BY <2>3, <2>4, <2>5 DEF ListGone
<1>2. ASSUME NEW l \in loads, ApplyLoad(l) PROVE ListGone'
  <2>1. rows' \in {rows, l.rows} /\ loads' \subseteq loads /\ UNCHANGED <<deletions, listed, goneFor>>
      BY <1>2 DEF ApplyLoad
  <2> QED
      BY <2>1 DEF ListGone
<1> QED
    BY <1>1, <1>2

LEMMA DeletionGone ==
    ASSUME ListFlow, ListGone,
           \/ \E c \in ListRow : ConfirmDelete(c)
           \/ AnswerDelete \/ DeleteSucceeds \/ DeleteFails
    PROVE  ListGone'
<1>0. deletions \in Seq(Deletion)
    BY DEF ListGone
<1>1. ASSUME NEW c \in ListRow, ConfirmDelete(c) PROVE ListGone'
  <2>1. PICK d : d = [id |-> c, at |-> "sent"]
      OBVIOUS
  <2>2. d \in Deletion /\ d.at = "sent"
      BY <2>1 DEF Deletion
  <2>3. deletions' = Append(deletions, d) /\ UNCHANGED <<rows, loads, listed, goneFor>>
      BY <1>1, <2>1 DEF ConfirmDelete, StoreRests
  <2>4. ASSUME NEW i \in 1..Len(deletions'), deletions'[i].at = "ok"
        PROVE  i \in 1..Len(deletions) /\ deletions'[i] = deletions[i]
      BY <1>0, <2>2, <2>3, <2>4
  <2> QED
      BY <1>0, <2>2, <2>3, <2>4 DEF ListGone
<1>2. CASE AnswerDelete
  <2>1. PICK d : d = deletions[1]
      OBVIOUS
  <2>2. d = Head(deletions) /\ d \in Deletion /\ 1 \in 1..Len(deletions)
      BY <1>0, <1>2, <2>1 DEF AnswerDelete
  <2>3. PICK s \in {"ok", "error"} :
            /\ deletions' = [deletions EXCEPT ![1].at = s]
            /\ s = "ok" => listed' = listed \ {d.id}
            /\ s # "ok" => listed' = listed
      BY <1>2, <2>2 DEF AnswerDelete
  <2>4. PICK g : g = [d EXCEPT !.at = s]
      OBVIOUS
  <2>5. g \in Deletion /\ g.id = d.id /\ g.at = s
      BY <2>2, <2>4 DEF Deletion
  <2>6. deletions' = [deletions EXCEPT ![1] = g]
      BY <2>1, <2>3, <2>4
  <2>7. /\ deletions' \in Seq(Deletion) /\ Len(deletions') = Len(deletions)
        /\ \A i \in 1..Len(deletions) : deletions'[i] = IF i = 1 THEN g ELSE deletions[i]
      BY <1>0, <2>2, <2>5, <2>6
  <2>8. listed' \subseteq listed /\ UNCHANGED <<rows, loads, goneFor>>
      BY <1>2, <2>3 DEF AnswerDelete, StoreRests
  <2> QED
      BY <2>3, <2>5, <2>7, <2>8 DEF ListGone
<1>3. ASSUME deletions # <<>>
      PROVE  /\ Tail(deletions) \in Seq(Deletion) /\ Head(deletions) = deletions[1]
             /\ 1 \in 1..Len(deletions)
             /\ \A i \in 1..Len(Tail(deletions)) :
                  /\ i + 1 \in 1..Len(deletions)
                  /\ Tail(deletions)[i] = deletions[i + 1]
    BY <1>0, <1>3
<1>4. CASE DeleteFails
  <2>1. deletions # <<>> /\ deletions' = Tail(deletions) /\ UNCHANGED <<rows, loads, listed, goneFor>>
      BY <1>4 DEF DeleteFails, StoreRests
  <2> QED
      BY <1>3, <2>1 DEF ListGone
<1>5. CASE DeleteSucceeds
  <2>1. /\ deletions # <<>> /\ deletions' = Tail(deletions) /\ UNCHANGED listed
        /\ Head(deletions).at = "ok" /\ goneFor' = goneFor \cup {Head(deletions).id}
      BY <1>5 DEF DeleteSucceeds
  <2>2. PICK p, base : p = lastParams /\ base = rows \ {Head(deletions).id}
      OBVIOUS
  <2>3. Load(p, base) /\ p \in Params
      BY <1>5, <2>1, <2>2 DEF DeleteSucceeds, ReloadAfterDelete, ListFlow
  <2>4. rows' \subseteq base /\ \A l \in loads' : l.rows = {}
      BY <2>3, LoadEffect
  <2>5. Head(deletions).id \notin listed
      BY <1>3, <2>1 DEF ListGone
  <2> QED
      BY <1>3, <2>1, <2>2, <2>4, <2>5 DEF ListGone
<1> QED
    BY <1>1, <1>2, <1>4, <1>5

LEMMA GoneStep == ASSUME ListFlow, ListGone, ListNext \/ UNCHANGED listVars PROVE ListGone'
<1>1. CASE UNCHANGED <<rows, loads, deletions, listed, goneFor>>
    BY <1>1 DEF ListGone
<1>2. ASSUME \/ UNCHANGED listVars \/ LeaveList \/ CloseDelete
             \/ \E v \in ListView : ChangeView(v)
             \/ \E c \in ListRow : OpenDelete(c)
      PROVE  UNCHANGED <<rows, loads, deletions, listed, goneFor>>
    BY <1>2 DEF listVars, LeaveList, CloseDelete, ChangeView, OpenDelete, StoreRests
<1> QED
    BY <1>1, <1>2, PageGone, AnswersGone, DeletionGone DEF ListNext

LEMMA ListInitInv == ASSUME ListInit PROVE ListFlow /\ ListGone
<1>1. mounted \in BOOLEAN /\ reveal \in BOOLEAN /\ unmasked \in BOOLEAN /\ ~mounted /\ ~unmasked
    BY Zenon DEF ListInit
<1>2. ListFlow
    BY <1>1, CustomerListAssumption DEF ListInit, ListFlow
<1>3. ListGone
    BY DEF ListInit, ListGone
<1> QED
    BY <1>2, <1>3

\* The customer list never shows personal data with the switch off, never shows a
\* customer again that was deleted from it, and at rest shows the view on screen, for
\* any customers and views and however answers and deletions overlap.
THEOREM ListStaysHonest == ListSpec => []ListHonest
<1>1. ListInit => ListFlow /\ ListGone
    BY ListInitInv
<1>2. ListFlow /\ ListGone /\ [ListNext]_listVars => ListFlow' /\ ListGone'
    BY FlowStep, GoneStep
<1>3. ListFlow /\ ListGone => ListHonest
  <2> SUFFICES ASSUME ListFlow, ListGone PROVE ListHonest
      OBVIOUS
  <2>1. MaskedMeansMasked
      BY DEF ListFlow, MaskedMeansMasked
  <2>2. DeletedStaysGone
      BY DEF ListGone, DeletedStaysGone
  <2>3. ListShowsView
      BY DEF ListFlow, ListShowsView
  <2> QED
      BY <2>1, <2>2, <2>3 DEF ListHonest
<1> QED
    BY <1>1, <1>2, <1>3, PTL DEF ListSpec

\* What the invariant leaves open of the list's type.
Single(S) == S \subseteq ListRow /\ \A a, b \in S : a = b
ListChoice == Single(target) /\ Single(deletingId)
ListStore ==
    /\ rows \subseteq ListRow /\ listed \subseteq ListRow /\ goneFor \subseteq ListRow
    /\ loadFailed \in BOOLEAN
    /\ lastParams \in Params \cup {NoParams} /\ rowsOf \in Params \cup {NoParams}
    /\ Len(deletions) <= DeleteBound

LEMMA SingleIsOne == ASSUME NEW S, Single(S) PROVE Cardinality(S) <= 1
<1>1. CASE S = {}
    BY <1>1, FS_EmptySet
<1>2. ASSUME NEW a \in S PROVE Cardinality(S) <= 1
  <2>1. S = {a}
      BY <1>2 DEF Single
  <2>2. Cardinality({a}) = 1
      BY FS_Singleton
  <2> QED
      BY <2>1, <2>2
<1> QED
    BY <1>1, <1>2

LEMMA ChoiceTypeStep == ASSUME ListChoice, [ListNext]_listVars PROVE ListChoice'
<1>1. ASSUME NEW c \in ListRow, target' = {c}, UNCHANGED deletingId PROVE ListChoice'
    BY <1>1 DEF ListChoice, Single
<1>2. ASSUME NEW c \in ListRow, deletingId' = {c}, UNCHANGED target PROVE ListChoice'
    BY <1>2 DEF ListChoice, Single
<1>3. CASE target' \subseteq target /\ deletingId' \subseteq deletingId
    BY <1>3 DEF ListChoice, Single
<1>4. ASSUME NEW v \in ListView, OpenList(v) \/ ChangeView(v) \/ Search(v) PROVE ListChoice'
    BY <1>3, <1>4 DEF OpenList, ChangeView, Search
<1>5. CASE LeaveList \/ Navigated \/ ToggleReveal \/ LiveReload \/ CloseDelete \/ AnswerDelete
    BY <1>3, <1>5 DEF LeaveList, Navigated, ToggleReveal, LiveReload, CloseDelete, AnswerDelete,
       pageVars
<1>6. ASSUME NEW l, \/ ApplyLoad(l) \/ \E r \in {"ok", "error"} : AnswerLoad(l, r) PROVE ListChoice'
    BY <1>3, <1>6 DEF ApplyLoad, AnswerLoad, pageVars
<1>7. ASSUME NEW c \in ListRow, OpenDelete(c) \/ ConfirmDelete(c) PROVE ListChoice'
    BY <1>1, <1>2, <1>7 DEF OpenDelete, ConfirmDelete, pageVars
<1>8. CASE DeleteSucceeds \/ DeleteFails
    BY <1>3, <1>8 DEF DeleteSucceeds, DeleteFails, pageVars
<1>9. CASE UNCHANGED listVars
    BY <1>3, <1>9 DEF listVars, pageVars
<1> QED
    BY <1>4, <1>5, <1>6, <1>7, <1>8, <1>9 DEF ListNext

LEMMA LoadStores ==
    ASSUME ListFlow, ListStore, NEW p \in Params, NEW base, base \subseteq ListRow, Load(p, base),
           UNCHANGED <<listed, rowsOf>>, goneFor' \subseteq ListRow, Len(deletions') <= DeleteBound
    PROVE  ListStore'
<1>1. loadFailed' \in BOOLEAN
    BY Zenon DEF Load
<1> QED
    BY <1>1, LoadEffect DEF ListStore

LEMMA StoreTypeStep ==
    ASSUME ListFlow, ListGone, ListStore, [ListNext]_listVars PROVE ListStore'
<1>1. ASSUME StoreRests, UNCHANGED <<listed, goneFor>>, Len(deletions') <= DeleteBound
      PROVE  ListStore'
    BY <1>1 DEF ListStore, StoreRests
<1>2. Len(deletions) <= DeleteBound /\ rows \subseteq ListRow
    BY DEF ListStore
<1>3. ASSUME NEW p \in Params, Load(p, rows), UNCHANGED <<listed, rowsOf, goneFor, deletions>>
      PROVE  ListStore'
    BY <1>2, <1>3, LoadStores DEF ListStore
<1>4. ASSUME NEW v \in ListView, OpenList(v) \/ ChangeView(v) \/ Search(v) PROVE ListStore'
  <2>1. reveal \in BOOLEAN
      BY DEF ListFlow
  <2>2. [view |-> v, reveal |-> FALSE] \in Params /\ [view |-> v, reveal |-> reveal] \in Params
      BY <2>1, ListParams
  <2> QED
      BY <1>1, <1>2, <1>3, <1>4, <2>2 DEF OpenList, ChangeView, Search
<1>5. CASE Navigated \/ ToggleReveal \/ LiveReload
  <2>1. reveal \in BOOLEAN /\ view \in ListView /\ navigation \in ListView \cup {NoView}
      BY DEF ListFlow
  <2>2. PICK b \in BOOLEAN : b = ~reveal
      OBVIOUS
  <2>3. /\ [view |-> view, reveal |-> reveal] \in Params
        /\ [view |-> view, reveal |-> ~reveal] \in Params
        /\ navigation # NoView => [view |-> navigation, reveal |-> reveal] \in Params
      BY <2>1, <2>2, ListParams
  <2>4. CASE Navigated
      BY <1>3, <2>3, <2>4 DEF Navigated
  <2>5. CASE ToggleReveal
      BY <1>3, <2>3, <2>5 DEF ToggleReveal
  <2>6. CASE LiveReload
      BY <1>3, <2>3, <2>6 DEF LiveReload
  <2> QED
      BY <1>5, <2>4, <2>5, <2>6
<1>6. CASE LeaveList \/ CloseDelete \/ UNCHANGED listVars
    BY <1>1, <1>2, <1>6 DEF LeaveList, CloseDelete, listVars, StoreRests
<1>7. ASSUME NEW l \in loads, ApplyLoad(l) PROVE ListStore'
  <2>1. l.rows \subseteq ListRow /\ l.params \in Params
      BY DEF ListFlow, ListLoad
  <2>2. loadFailed' \in BOOLEAN
      BY <1>7, Zenon DEF ApplyLoad
  <2> QED
      BY <1>7, <2>1, <2>2 DEF ApplyLoad, ListStore
<1>8. ASSUME NEW l \in loads, NEW r, AnswerLoad(l, r) PROVE ListStore'
    BY <1>8 DEF AnswerLoad, ListStore
<1>9. ASSUME NEW c \in ListRow, OpenDelete(c) PROVE ListStore'
    BY <1>1, <1>2, <1>9 DEF OpenDelete
<1>10. ASSUME NEW c \in ListRow, ConfirmDelete(c) PROVE ListStore'
  <2>1. deletions \in Seq(Deletion) /\ Len(deletions) \in Nat /\ Len(deletions) < DeleteBound
      BY <1>10 DEF ListGone, ConfirmDelete
  <2>2. Len(deletions') = Len(deletions) + 1
      BY <1>10, <2>1 DEF ConfirmDelete
  <2>3. Len(deletions') <= DeleteBound
      BY <2>1, <2>2, CustomerListAssumption
  <2> QED
      BY <1>1, <1>10, <2>3 DEF ConfirmDelete
<1>11. CASE AnswerDelete
  <2>1. deletions \in Seq(Deletion)
      BY DEF ListGone
  <2>2. Len(deletions') = Len(deletions) /\ listed' \subseteq listed
      BY <1>11, <2>1 DEF AnswerDelete
  <2> QED
      BY <1>2, <1>11, <2>2 DEF AnswerDelete, StoreRests, ListStore
<1>12. CASE DeleteSucceeds \/ DeleteFails
  <2>1. deletions \in Seq(Deletion) /\ deletions # <<>> /\ deletions' = Tail(deletions)
      BY <1>12 DEF ListGone, DeleteSucceeds, DeleteFails
  <2>2. Len(deletions') <= DeleteBound
    <3>1. Len(deletions') = Len(deletions) - 1 /\ Len(deletions) \in Nat
        BY <2>1
    <3> QED
        BY <1>2, <3>1, CustomerListAssumption
  <2>3. Head(deletions).id \in ListRow
    <3>1. Head(deletions) \in Deletion
        BY <2>1
    <3> QED
        BY <3>1 DEF Deletion
  <2>4. CASE DeleteFails
      BY <1>1, <2>2, <2>4 DEF DeleteFails
  <2>5. CASE DeleteSucceeds
    <3>1. lastParams \in Params
        BY <2>1 DEF ListFlow
    <3>2. goneFor' \subseteq ListRow /\ rows \ {Head(deletions).id} \subseteq ListRow
        BY <2>3, <2>5 DEF DeleteSucceeds, ListStore
    <3> QED
        BY <2>2, <2>5, <3>1, <3>2, LoadStores DEF DeleteSucceeds, ReloadAfterDelete
  <2> QED
      BY <1>12, <2>4, <2>5
<1> QED
    BY <1>4, <1>5, <1>6, <1>7, <1>8, <1>9, <1>10, <1>11, <1>12 DEF ListNext

\* The list's state has its type: at most one customer is in the delete dialog and one
\* marked as being deleted, and no more deletions than the bound are queued.
THEOREM ListTypeCorrect == ListSpec => []ListTypeOK
<1>1. ListInit => ListFlow /\ ListGone /\ ListChoice /\ ListStore
  <2> SUFFICES ASSUME ListInit PROVE ListChoice /\ ListStore
      BY ListInitInv
  <2>1. loadFailed \in BOOLEAN
      BY Zenon DEF ListInit
  <2> QED
      BY <2>1, CustomerListAssumption DEF ListInit, ListChoice, ListStore, Single
<1>2. ListFlow /\ ListGone /\ ListChoice /\ ListStore /\ [ListNext]_listVars =>
          ListFlow' /\ ListGone' /\ ListChoice' /\ ListStore'
    BY FlowStep, GoneStep, ChoiceTypeStep, StoreTypeStep
<1>3. ListFlow /\ ListGone /\ ListChoice /\ ListStore => ListTypeOK
    BY SingleIsOne DEF ListFlow, ListGone, ListChoice, ListStore, Single, ListTypeOK
<1> QED
    BY <1>1, <1>2, <1>3, PTL DEF ListSpec

-----------------------------------------------------------------------------
(* The session client *)

\* Tokens are numbers of tokens issued; a call that succeeded and an answered refresh
\* have one.
WebShape ==
    /\ owner \in Seq(WebUser) /\ Len(owner) <= TokenBound
    /\ webToken \in 0..Len(owner)
    /\ fresh \subseteq 1..Len(owner)
    /\ principal \in WebUser \cup {NoUser} /\ cookie \in WebUser \cup {NoUser}
    /\ overlapped \in BOOLEAN

WebCalls ==
    /\ call \in [WebCall -> CallState]
    /\ \A c \in WebCall :
         /\ call[c].token \in 0..Len(owner)
         /\ call[c].at = "ok" => call[c].token \in 1..Len(owner)

WebRefreshes ==
    /\ refreshes \subseteq Refreshing
    /\ \A r \in refreshes : r.at = "ok" => r.token \in 1..Len(owner)
    /\ \A r, k \in refreshes : r = k

\* Unless a session ended with a call on the wire, or its cookie outlived it: without a
\* token only token-less calls and refreshes without a cookie are on the wire, and with
\* one, all that has a token belongs to the user on screen.
SessionInv ==
    ~overlapped =>
        /\ webToken = 0 =>
             /\ principal = NoUser
             /\ OnTheWire => cookie = NoUser
             /\ \A c \in WebCall : call[c].token = 0
             /\ \A r \in refreshes : r.at # "ok"
        /\ webToken # 0 =>
             /\ ended = "no" /\ principal = owner[webToken]
             /\ cookie \in {NoUser, principal}
             /\ \A c \in WebCall : call[c].token # 0 => owner[call[c].token] = principal
             /\ \A r \in refreshes : r.at = "ok" => owner[r.token] = principal

WebInv == WebShape /\ WebCalls /\ WebRefreshes /\ SessionInv

LEMMA IdleIsCall == IdleCall \in CallState /\ IdleCall.token = 0 /\ IdleCall.at = "idle"
BY WebSessionAssumption DEF IdleCall, CallState

LEMMA WebInitInv == ASSUME WebInit PROVE WebInv
<1>1. overlapped \in BOOLEAN
    BY Zenon DEF WebInit
<1>2. WebShape /\ WebCalls /\ WebRefreshes
    BY <1>1, IdleIsCall, WebSessionAssumption DEF WebInit, WebShape, WebCalls, WebRefreshes
<1>3. SessionInv
    BY IdleIsCall DEF WebInit, SessionInv, OnTheWire
<1> QED
    BY <1>2, <1>3 DEF WebInv

\* A token is issued: earlier tokens keep their owners.
LEMMA IssueEffect ==
    ASSUME WebInv, NEW u \in WebUser, Issue(u)
    PROVE  /\ owner' \in Seq(WebUser) /\ Len(owner') = Len(owner) + 1 /\ Len(owner') <= TokenBound
           /\ Len(owner) \in Nat
           /\ \A n \in 1..Len(owner) : n \in 1..Len(owner') /\ owner'[n] = owner[n]
           /\ owner'[Len(owner) + 1] = u
           /\ fresh' \subseteq 1..Len(owner')
<1>1. PICK n \in Nat : n = Len(owner)
    BY DEF WebInv, WebShape
<1>2. fresh \subseteq 1..n /\ fresh' = fresh \cup {n + 1}
    BY <1>1 DEF Issue, WebInv, WebShape
<1>3. fresh' \subseteq 1..(n + 1)
    BY <1>2
<1>4. owner' = Append(owner, u) /\ owner \in Seq(WebUser) /\ n < TokenBound
    BY <1>1 DEF Issue, WebInv, WebShape
<1> QED
    BY <1>1, <1>3, <1>4, WebSessionAssumption

LEMMA AuthenticationStep ==
    ASSUME WebInv, NEW u \in WebUser, CompleteAuthentication(u) PROVE WebInv'
<1>1. /\ owner' \in Seq(WebUser) /\ Len(owner') = Len(owner) + 1 /\ Len(owner') <= TokenBound
      /\ Len(owner) \in Nat
      /\ \A n \in 1..Len(owner) : n \in 1..Len(owner') /\ owner'[n] = owner[n]
      /\ owner'[Len(owner) + 1] = u
      /\ fresh' \subseteq 1..Len(owner')
    BY IssueEffect DEF CompleteAuthentication
<1>2. overlapped' \in BOOLEAN /\ (overlapped' <=> (overlapped /\ OnTheWire))
    BY Zenon DEF CompleteAuthentication
<1>3. /\ webToken = 0 /\ webToken' = Len(owner) + 1 /\ principal' = u /\ cookie' = u
      /\ ended' = "no" /\ UNCHANGED <<call, refreshes>>
    BY DEF CompleteAuthentication
<1>4. WebShape'
    BY <1>1, <1>2, <1>3 DEF WebShape
<1>5. WebCalls' /\ WebRefreshes'
    BY <1>1, <1>3 DEF WebInv, WebCalls, WebRefreshes
<1>6. ASSUME ~overlapped'
      PROVE  /\ \A c \in WebCall : call[c].token = 0
             /\ \A r \in refreshes : r.at # "ok"
  <2>1. CASE overlapped
      BY <1>2, <1>6, <2>1, IdleIsCall DEF OnTheWire
  <2>2. CASE ~overlapped
      BY <1>3, <2>2 DEF WebInv, SessionInv
  <2> QED
      BY <2>1, <2>2
<1>7. SessionInv'
    BY <1>1, <1>3, <1>6 DEF SessionInv
<1> QED
    BY <1>4, <1>5, <1>7 DEF WebInv

LEMMA SignOutStep == ASSUME WebInv, SignOut PROVE WebInv'
<1>1. overlapped' \in BOOLEAN /\ (overlapped' <=> (overlapped \/ OnTheWire))
    BY Zenon DEF SignOut
<1>2. /\ webToken' = 0 /\ principal' = NoUser
      /\ UNCHANGED <<owner, fresh, cookie, call, refreshes>>
    BY DEF SignOut, Logout
<1>3. WebShape' /\ WebCalls' /\ WebRefreshes'
    BY <1>1, <1>2 DEF WebInv, WebShape, WebCalls, WebRefreshes
<1>4. SessionInv'
    BY <1>1, <1>2, IdleIsCall DEF SessionInv, OnTheWire
<1> QED
    BY <1>3, <1>4 DEF WebInv

LEMMA ServerStep ==
    ASSUME WebInv, RevokeCookie \/ LogoutFails \/ \E n \in fresh : ExpireToken(n) PROVE WebInv'
<1>1. /\ UNCHANGED <<webToken, principal, owner, call, refreshes, overlapped, ended>>
      /\ cookie' \in {cookie, NoUser} /\ fresh' \subseteq fresh
    BY DEF RevokeCookie, LogoutFails, ExpireToken
<1> QED
    BY <1>1 DEF WebInv, WebShape, WebCalls, WebRefreshes, SessionInv, OnTheWire

\* A call that moves on with the token it has.
LEMMA CallMoves ==
    ASSUME WebInv, NEW c \in WebCall, call[c] # IdleCall,
           NEW g \in CallState, g = IdleCall \/ g.token = call[c].token,
           g.at = "ok" => g.token \in 1..Len(owner),
           call' = [call EXCEPT ![c] = g],
           UNCHANGED <<webToken, principal, owner, fresh, cookie, overlapped, ended>>,
           refreshes' \subseteq Refreshing, \A r, k \in refreshes' : r = k,
           \A r \in refreshes' : r \in refreshes \/ r.at = "sent"
    PROVE  WebInv'
<1>1. WebShape'
    BY DEF WebInv, WebShape
<1>2. g.token \in {0, call[c].token}
    BY IdleIsCall
<1>3. WebCalls'
    BY <1>2 DEF WebInv, WebShape, WebCalls
<1>4. WebRefreshes'
    BY DEF WebInv, WebRefreshes
<1>5. \A d \in WebCall : call'[d].token \in {0, call[d].token}
    BY <1>2 DEF WebInv, WebCalls
<1>6. OnTheWire
    BY DEF OnTheWire
<1>7. SessionInv'
    BY <1>5, <1>6 DEF WebInv, SessionInv
<1> QED
    BY <1>1, <1>3, <1>4, <1>7 DEF WebInv

LEMMA SendStep ==
    ASSUME WebInv, NEW c \in WebCall,
           SendGuarded(c) \/ \E r \in {"ok", "401", "error"} : AnswerCall(c, r)
    PROVE  WebInv'
<1>1. CASE SendGuarded(c)
  <2>1. PICK g : g = [at |-> "sent", token |-> webToken, tries |-> 1]
      OBVIOUS
  <2>2. webToken \in 0..TokenBound
      BY WebSessionAssumption DEF WebInv, WebShape
  <2>3. g \in CallState /\ g.token = webToken /\ g.at = "sent"
      BY <2>1, <2>2 DEF CallState
  <2>4. /\ call' = [call EXCEPT ![c] = g]
        /\ UNCHANGED <<webToken, principal, owner, fresh, cookie, refreshes, ended>>
      BY <1>1, <2>1 DEF SendGuarded
  <2>5. /\ overlapped' \in BOOLEAN
        /\ overlapped' <=> (overlapped \/ (webToken = 0 /\ cookie # NoUser))
      BY <1>1, Zenon DEF SendGuarded
  <2>6. WebShape' /\ WebRefreshes'
      BY <2>4, <2>5 DEF WebInv, WebShape, WebRefreshes
  <2>7. \A d \in WebCall : call'[d] = g \/ call'[d] = call[d]
      BY <2>4 DEF WebInv, WebCalls
  <2>8. WebCalls'
      BY <2>3, <2>4 DEF WebInv, WebShape, WebCalls
  <2>9. SessionInv'
      BY <2>3, <2>4, <2>5, <2>7 DEF WebInv, SessionInv
  <2> QED
      BY <2>6, <2>8, <2>9 DEF WebInv
<1>2. ASSUME NEW r \in {"ok", "401", "error"}, AnswerCall(c, r) PROVE WebInv'
  <2>1. PICK g : g = [call[c] EXCEPT !.at = r]
      OBVIOUS
  <2>2. g \in CallState /\ g.token = call[c].token /\ g.at = r
      BY <2>1 DEF WebInv, WebCalls, CallState
  <2>3. r = "ok" => g.token \in 1..Len(owner)
      BY <1>2, <2>2 DEF AnswerCall, WebInv, WebShape
  <2>4. /\ call' = [call EXCEPT ![c] = g] /\ call[c] # IdleCall
        /\ UNCHANGED <<webToken, principal, owner, fresh, cookie, refreshes, overlapped, ended>>
      BY <1>2, <2>1 DEF AnswerCall, IdleCall
  <2> QED
      BY <2>2, <2>3, <2>4, CallMoves DEF WebInv, WebRefreshes
<1> QED
    BY <1>1, <1>2

\* /auth/me brings the user of the token it was sent with.
LEMMA PrincipalEffect ==
    ASSUME WebInv, NEW c \in WebCall
    PROVE  /\ PrincipalAfter(c) \in WebUser \cup {NoUser}
           /\ ~overlapped => PrincipalAfter(c) = principal
<1>1. CASE call[c].at = "ok"
  <2>1. call[c].token \in 1..Len(owner) /\ owner \in Seq(WebUser)
      BY <1>1 DEF WebInv, WebShape, WebCalls
  <2>2. owner[call[c].token] \in WebUser
      BY <2>1
  <2>3. ~overlapped => owner[call[c].token] = principal
      BY <2>1 DEF WebInv, SessionInv
  <2> QED
      BY <2>2, <2>3 DEF PrincipalAfter, WebInv, WebShape
<1>2. CASE call[c].at # "ok"
    BY <1>2 DEF PrincipalAfter, WebInv, WebShape
<1> QED
    BY <1>1, <1>2

\* A call that ends.
LEMMA CallEnds ==
    ASSUME WebInv, NEW c \in WebCall, call[c] # IdleCall,
           call' = [call EXCEPT ![c] = IdleCall], principal' = PrincipalAfter(c),
           UNCHANGED <<webToken, owner, fresh, cookie, refreshes, overlapped, ended>>
    PROVE  WebInv'
<1>1. CASE principal' = principal
    BY <1>1, IdleIsCall, CallMoves DEF WebInv, WebRefreshes
<1>2. CASE overlapped
  <2>1. WebShape'
      BY PrincipalEffect DEF WebInv, WebShape
  <2>2. WebCalls' /\ WebRefreshes'
      BY IdleIsCall DEF WebInv, WebShape, WebCalls, WebRefreshes
  <2>3. SessionInv'
      BY <1>2 DEF SessionInv
  <2> QED
      BY <2>1, <2>2, <2>3 DEF WebInv
<1> QED
    BY <1>1, <1>2, PrincipalEffect

LEMMA FirstAnswerStep == ASSUME WebInv, NEW c \in WebCall, FirstAnswer(c) PROVE WebInv'
<1>0. call[c] \in CallState /\ call[c] # IdleCall
    BY DEF FirstAnswer, IdleCall, WebInv, WebCalls
<1>1. CASE call[c].at \in {"ok", "error"}
    BY <1>0, <1>1, CallEnds DEF FirstAnswer
<1>2. CASE call[c].at = "401"
  <2>1. PICK g : g = [call[c] EXCEPT !.at = "refreshing"]
      OBVIOUS
  <2>2. g \in CallState /\ g.token = call[c].token /\ g.at = "refreshing"
      BY <1>0, <2>1 DEF CallState
  <2>3. PICK n : n = [by |-> c, at |-> "sent", token |-> 0]
      OBVIOUS
  <2>4. n \in Refreshing /\ n.at = "sent"
      BY <2>3, WebSessionAssumption DEF Refreshing
  <2>5. /\ call' = [call EXCEPT ![c] = g]
        /\ UNCHANGED <<webToken, principal, owner, fresh, cookie, overlapped, ended>>
        /\ refreshes' = refreshes \cup (IF StartsRefresh THEN {n} ELSE {})
      BY <1>2, <2>1, <2>3 DEF FirstAnswer
  <2>6. refreshes' = refreshes \/ (refreshes = {} /\ refreshes' = {n})
      BY <2>5 DEF StartsRefresh
  <2>7. /\ refreshes' \subseteq Refreshing /\ \A r, k \in refreshes' : r = k
        /\ \A r \in refreshes' : r \in refreshes \/ r.at = "sent"
      BY <2>4, <2>6 DEF WebInv, WebRefreshes
  <2> QED
      BY <1>0, <2>2, <2>5, <2>7, CallMoves
<1> QED
    BY <1>1, <1>2 DEF FirstAnswer

LEMMA AnswerRefreshStep == ASSUME WebInv, NEW r \in refreshes, AnswerRefresh(r) PROVE WebInv'
<1>0. r \in Refreshing /\ refreshes = {r} /\ r.at = "sent"
    BY DEF AnswerRefresh, WebInv, WebRefreshes
<1>1. UNCHANGED <<webToken, principal, cookie, call, overlapped, ended>>
    BY DEF AnswerRefresh
<1>2. ASSUME refreshes' = (refreshes \ {r}) \cup {[r EXCEPT !.at = "refused"]},
             UNCHANGED <<owner, fresh>>
      PROVE  WebInv'
  <2>1. PICK n : n = [r EXCEPT !.at = "refused"]
      OBVIOUS
  <2>2. n \in Refreshing /\ n.at = "refused"
      BY <1>0, <2>1 DEF Refreshing
  <2>3. refreshes' = {n}
      BY <1>0, <1>2, <2>1
  <2>4. WebShape' /\ WebCalls' /\ WebRefreshes'
      BY <1>1, <1>2, <2>2, <2>3 DEF WebInv, WebShape, WebCalls, WebRefreshes
  <2>5. OnTheWire
      BY <1>0 DEF OnTheWire
  <2>6. SessionInv'
      BY <1>1, <1>2, <2>2, <2>3, <2>5 DEF WebInv, SessionInv
  <2> QED
      BY <2>4, <2>6 DEF WebInv
<1>3. ASSUME cookie # NoUser, Issue(cookie),
             refreshes' = (refreshes \ {r}) \cup {[r EXCEPT !.at = "ok", !.token = Len(owner) + 1]}
      PROVE  WebInv'
  <2>1. PICK u : u = cookie
      OBVIOUS
  <2>2. u \in WebUser
      BY <1>3, <2>1 DEF WebInv, WebShape
  <2>3. Issue(u)
      BY <1>3, <2>1
  <2>4. /\ owner' \in Seq(WebUser) /\ Len(owner') = Len(owner) + 1 /\ Len(owner') <= TokenBound
        /\ Len(owner) \in Nat
        /\ \A n \in 1..Len(owner) : n \in 1..Len(owner') /\ owner'[n] = owner[n]
        /\ owner'[Len(owner) + 1] = u
        /\ fresh' \subseteq 1..Len(owner')
      BY <2>2, <2>3, IssueEffect
  <2>5. PICK m, n : m = Len(owner) + 1 /\ n = [r EXCEPT !.at = "ok", !.token = m]
      OBVIOUS
  <2>6. m \in 0..TokenBound
      BY <2>4, <2>5, WebSessionAssumption
  <2>7. n \in Refreshing /\ n.at = "ok" /\ n.token = m
      BY <1>0, <2>5, <2>6 DEF Refreshing
  <2>8. refreshes' = {n}
      BY <1>0, <1>3, <2>5
  <2>9. WebShape'
      BY <1>1, <2>4 DEF WebInv, WebShape
  <2>10. WebCalls' /\ WebRefreshes'
      BY <1>1, <2>4, <2>5, <2>7, <2>8 DEF WebInv, WebCalls, WebRefreshes
  <2>11. ~overlapped => webToken # 0
      BY <1>0, <1>3 DEF WebInv, SessionInv, OnTheWire
  <2>12. ASSUME ~overlapped PROVE u = principal
      BY <2>1, <2>11, <2>12, <1>3 DEF WebInv, SessionInv
  <2>13. SessionInv'
    <3> SUFFICES ASSUME ~overlapped PROVE SessionInv'
        BY <1>1 DEF SessionInv
    <3>1. /\ webToken # 0 /\ webToken \in 1..Len(owner)
          /\ ended = "no" /\ principal = owner[webToken] /\ cookie \in {NoUser, principal}
          /\ \A c \in WebCall : call[c].token # 0 =>
               call[c].token \in 1..Len(owner) /\ owner[call[c].token] = principal
        BY <2>11 DEF WebInv, WebShape, WebCalls, SessionInv
    <3> QED
        BY <1>1, <2>4, <2>5, <2>7, <2>8, <2>12, <3>1 DEF SessionInv
  <2> QED
      BY <2>9, <2>10, <2>13 DEF WebInv
<1> QED
    BY <1>2, <1>3 DEF AnswerRefresh

LEMMA RefreshSucceedsStep == ASSUME WebInv, NEW r \in refreshes, RefreshSucceeds(r) PROVE WebInv'
<1>0. /\ r \in Refreshing /\ refreshes = {r} /\ r.at = "ok" /\ r.token \in 1..Len(owner)
      /\ r.token \in 0..TokenBound
    BY DEF RefreshSucceeds, WebInv, WebRefreshes, Refreshing
<1>1. /\ webToken' = r.token /\ refreshes' = {}
      /\ UNCHANGED <<principal, owner, fresh, cookie, overlapped, ended>>
    BY <1>0 DEF RefreshSucceeds
<1>2. PICK g : g = [at |-> "sent", token |-> r.token, tries |-> 2]
    OBVIOUS
<1>3. g \in CallState /\ g.token = r.token /\ g.at = "sent"
    BY <1>0, <1>2 DEF CallState
<1>4. call' = [c \in WebCall |-> IF c \in Waiting THEN g ELSE call[c]]
    BY <1>2 DEF RefreshSucceeds
<1>5. WebShape'
    BY <1>0, <1>1 DEF WebInv, WebShape
<1>6. WebCalls' /\ WebRefreshes'
    BY <1>0, <1>1, <1>3, <1>4 DEF WebInv, WebCalls, WebRefreshes
<1>7. ASSUME ~overlapped
      PROVE  /\ ended = "no" /\ owner[r.token] = principal /\ cookie \in {NoUser, principal}
             /\ \A c \in WebCall : call[c].token # 0 => owner[call[c].token] = principal
    BY <1>0, <1>7 DEF WebInv, SessionInv
<1>8. SessionInv'
    BY <1>0, <1>1, <1>3, <1>4, <1>7 DEF SessionInv
<1> QED
    BY <1>5, <1>6, <1>8 DEF WebInv

\* The session ends for every call that waits, or with the retry that failed.
LEMMA RefreshRefusedStep == ASSUME WebInv, NEW r \in refreshes, RefreshRefused(r) PROVE WebInv'
<1>1. /\ webToken' = 0 /\ principal' = NoUser /\ refreshes' = {}
      /\ UNCHANGED <<owner, fresh, cookie>>
    BY DEF RefreshRefused, Logout, WebInv, WebRefreshes
<1>2. /\ overlapped' \in BOOLEAN
      /\ overlapped' <=> (overlapped \/ \E c \in WebCall \ Waiting : call[c] # IdleCall)
    BY Zenon DEF RefreshRefused
<1>3. IdleCall \in CallState /\ IdleCall.token = 0 /\ IdleCall.at = "idle"
    BY IdleIsCall
<1>4. call' = [c \in WebCall |-> IF c \in Waiting THEN IdleCall ELSE call[c]]
    BY DEF RefreshRefused
<1>5. WebShape' /\ WebCalls' /\ WebRefreshes'
    BY <1>1, <1>2, <1>3, <1>4 DEF WebInv, WebShape, WebCalls, WebRefreshes
<1>6. ASSUME ~overlapped' PROVE \A c \in WebCall : call'[c] = IdleCall
    BY <1>2, <1>4, <1>6
<1>7. SessionInv'
    BY <1>1, <1>3, <1>6 DEF SessionInv, OnTheWire
<1> QED
    BY <1>5, <1>7 DEF WebInv

LEMMA RetryAnswerStep == ASSUME WebInv, NEW c \in WebCall, RetryAnswer(c) PROVE WebInv'
<1>0. call[c] # IdleCall /\ call' = [call EXCEPT ![c] = IdleCall]
    BY DEF RetryAnswer, IdleCall
<1>1. CASE call[c].at = "ok"
    BY <1>0, <1>1, CallEnds DEF RetryAnswer
<1>2. CASE call[c].at # "ok"
  <2>1. /\ webToken' = 0 /\ principal' = NoUser
        /\ UNCHANGED <<owner, fresh, cookie, refreshes>>
      BY <1>2 DEF RetryAnswer, Logout
  <2>2. /\ overlapped' \in BOOLEAN
        /\ overlapped' <=> (overlapped \/ refreshes # {}
                              \/ \E d \in WebCall \ {c} : call[d] # IdleCall)
      BY <1>2, Zenon DEF RetryAnswer
  <2>3. IdleCall \in CallState /\ IdleCall.token = 0 /\ IdleCall.at = "idle"
      BY IdleIsCall
  <2>4. WebShape' /\ WebCalls' /\ WebRefreshes'
      BY <1>0, <2>1, <2>2, <2>3 DEF WebInv, WebShape, WebCalls, WebRefreshes
  <2>5. ASSUME ~overlapped' PROVE refreshes' = {} /\ \A d \in WebCall : call'[d] = IdleCall
      BY <1>0, <2>1, <2>2, <2>5 DEF WebInv, WebCalls
  <2>6. SessionInv'
      BY <2>1, <2>3, <2>5 DEF SessionInv, OnTheWire
  <2> QED
      BY <2>4, <2>6 DEF WebInv
<1> QED
    BY <1>1, <1>2

LEMMA WebStep == ASSUME WebInv, [WebNext]_webVars PROVE WebInv'
<1>1. CASE UNCHANGED webVars
    BY <1>1 DEF webVars, WebInv, WebShape, WebCalls, WebRefreshes, SessionInv, OnTheWire
<1> QED
    BY <1>1, AuthenticationStep, SignOutStep, ServerStep, SendStep, FirstAnswerStep,
       RetryAnswerStep, AnswerRefreshStep, RefreshSucceedsStep, RefreshRefusedStep DEF WebNext

\* The browser has at most one refresh on the wire, and the user on screen is the one
\* whose token is sent, unless a call was on the wire when the session ended or was sent
\* before the server took the refresh cookie back, for any number of users, calls and
\* tokens.
THEOREM SessionStaysSound == WebSpec => []SessionSound
<1>1. WebInit => WebInv
    BY WebInitInv
<1>2. WebInv /\ [WebNext]_webVars => WebInv'
    BY WebStep
<1>3. WebInv => SessionSound
  <2> SUFFICES ASSUME WebInv PROVE SessionSound
      OBVIOUS
  <2>1. Cardinality(refreshes) <= 1
    <3>1. CASE refreshes = {}
        BY <3>1, FS_EmptySet
    <3>2. ASSUME NEW r \in refreshes PROVE Cardinality(refreshes) <= 1
      <4>1. refreshes = {r}
          BY DEF WebInv, WebRefreshes
      <4> QED
          BY <4>1, FS_Singleton
    <3> QED
        BY <3>1, <3>2
  <2>2. SessionCoherent
      BY DEF WebInv, SessionInv, SessionCoherent
  <2> QED
      BY <2>1, <2>2 DEF SessionSound, SingleFlightRefresh
<1> QED
    BY <1>1, <1>2, <1>3, PTL DEF WebSpec

\* What the invariant leaves open of the session's type.
WebRest ==
    /\ revoking \in BOOLEAN
    /\ ended \in {"no", "operator", "refused", "retry"}

LEMMA WebRestStep == ASSUME WebRest, [WebNext]_webVars PROVE WebRest'
<1>1. ASSUME UNCHANGED <<revoking, ended>> PROVE WebRest'
    BY <1>1 DEF WebRest
<1>2. ASSUME NEW why \in {"operator", "refused", "retry"}, Logout(why) PROVE WebRest'
  <2>1. revoking' \in BOOLEAN
      BY <1>2, Zenon DEF Logout
  <2> QED
      BY <1>2, <2>1 DEF Logout, WebRest
<1>3. ASSUME NEW u \in WebUser, CompleteAuthentication(u) PROVE WebRest'
    BY <1>3 DEF CompleteAuthentication, WebRest
<1>4. CASE SignOut
    BY <1>2, <1>4 DEF SignOut
<1>5. CASE RevokeCookie \/ LogoutFails
  <2>1. revoking' \in BOOLEAN
      BY <1>5, Zenon DEF RevokeCookie, LogoutFails
  <2> QED
      BY <1>5, <2>1 DEF RevokeCookie, LogoutFails, WebRest
<1>6. ASSUME NEW n \in fresh, ExpireToken(n) PROVE WebRest'
    BY <1>1, <1>6 DEF ExpireToken
<1>7. ASSUME NEW c \in WebCall,
             \/ SendGuarded(c) \/ FirstAnswer(c)
             \/ \E r \in {"ok", "401", "error"} : AnswerCall(c, r)
      PROVE  WebRest'
    BY <1>1, <1>7 DEF SendGuarded, FirstAnswer, AnswerCall
<1>8. ASSUME NEW c \in WebCall, RetryAnswer(c) PROVE WebRest'
    BY <1>1, <1>2, <1>8 DEF RetryAnswer
<1>9. ASSUME NEW r \in refreshes,
             AnswerRefresh(r) \/ RefreshSucceeds(r) \/ RefreshRefused(r)
      PROVE  WebRest'
    BY <1>1, <1>2, <1>9 DEF AnswerRefresh, RefreshSucceeds, RefreshRefused
<1>10. CASE UNCHANGED webVars
    BY <1>1, <1>10 DEF webVars
<1> QED
    BY <1>3, <1>4, <1>5, <1>6, <1>7, <1>8, <1>9, <1>10 DEF WebNext

\* The session's state has its type: no call is sent with, and no refresh brings back, a
\* token that was never issued.
THEOREM WebTypeCorrect == WebSpec => []WebTypeOK
<1>1. WebInit => WebInv /\ WebRest
  <2> SUFFICES ASSUME WebInit PROVE WebRest
      BY WebInitInv
  <2>1. revoking \in BOOLEAN
      BY Zenon DEF WebInit
  <2> QED
      BY <2>1 DEF WebInit, WebRest
<1>2. WebInv /\ WebRest /\ [WebNext]_webVars => WebInv' /\ WebRest'
    BY WebStep, WebRestStep
<1>3. WebInv /\ WebRest => WebTypeOK
    BY DEF WebInv, WebShape, WebCalls, WebRefreshes, WebRest, WebTypeOK
<1> QED
    BY <1>1, <1>2, <1>3, PTL DEF WebSpec

-----------------------------------------------------------------------------
(* The transactions panel *)

\* The filters let transaction n through.
Fits(n) == ~hides /\ StartInstant(from) <= postedAt[n] /\ postedAt[n] <= EndInstant(to)

\* The ways in which the filters may hide the last one created.
Excused ==
    \/ noticed /\ (hides \/ dirty)
    \/ dirty /\ StartInstant(from) > postedAt[latest]
    \/ shift < 0 /\ EndInstant(to) < postedAt[latest]

\* Since the last creation, the request on the wire asks for what the form shows.
LatestSound ==
    latest # 0 =>
        /\ \A l \in txLoad : l.from = from /\ l.to = to /\ l.hides = hides
        /\ Fits(latest) \/ Excused
        /\ txLoad = {} => latest \in txRows \/ ~Fits(latest)

PanelNumbers ==
    /\ shift \in Int
    /\ txNow \in Nat /\ from \in Nat /\ to \in Nat
    /\ postedAt \in Seq(Nat) /\ latest \in 0..Len(postedAt)
    /\ \A n \in 1..Len(postedAt) : postedAt[n] <= txNow

PanelInv == PanelNumbers /\ LatestSound

LEMMA TickNat == ASSUME NEW m \in Nat PROVE Tick(m) \in Nat
BY TransactionPanelAssumption DEF Tick

\* What the API makes of a bound is an instant, and not an earlier one than the browser's
\* unless the browser's zone is behind.
LEMMA Instants ==
    ASSUME NEW m \in Nat, shift \in Int
    PROVE  /\ StartInstant(m) \in Int /\ EndInstant(m) \in Int /\ StartInstant(DefaultFrom) = 0
           /\ shift >= 0 => Tick(m) <= EndInstant(m)
<1>1. TicksPerMinute \in Nat \ {0}
    BY TransactionPanelAssumption
<1>2. (m + shift) * TicksPerMinute = m * TicksPerMinute + shift * TicksPerMinute
    BY <1>1
<1>3. /\ (m + shift) * TicksPerMinute \in Int /\ m * TicksPerMinute \in Int
      /\ shift * TicksPerMinute \in Int
    BY <1>1
<1>4. shift >= 0 => shift * TicksPerMinute >= 0
    BY <1>1
<1> QED
    BY <1>2, <1>3, <1>4 DEF StartInstant, EndInstant, Tick

\* The default range ends after now: up to the next full minute.
LEMMA DefaultRange ==
    ASSUME PanelNumbers
    PROVE  /\ DefaultFrom \in Nat /\ DefaultTo \in Nat
           /\ Tick(DefaultFrom) = 0 /\ txNow <= Tick(DefaultTo)
<1>1. TicksPerMinute \in Nat \ {0} /\ txNow \in Nat
    BY TransactionPanelAssumption DEF PanelNumbers
<1>2. txNow <= (txNow \div TicksPerMinute + 1) * TicksPerMinute
    BY <1>1
<1>3. txNow \div TicksPerMinute + 1 \in Nat /\ 0 * TicksPerMinute = 0
    BY <1>1
<1> QED
    BY <1>2, <1>3 DEF DefaultFrom, DefaultTo, Tick

\* A step that changes no filter and dispatches nothing else.
LEMMA PanelRest ==
    ASSUME PanelInv, txNow' \in Nat, txNow <= txNow',
           UNCHANGED <<shift, from, to, dirty, hides, postedAt, txRows, noticed>>,
           latest' = latest \/ latest' = 0,
           \/ txLoad' = txLoad
           \/ txLoad' # {} /\ \A l \in txLoad' : l.from = from /\ l.to = to /\ l.hides = hides
    PROVE  PanelInv'
<1>1. PanelNumbers'
    BY DEF PanelInv, PanelNumbers
<1>2. LatestSound'
    BY DEF PanelInv, LatestSound, Fits, Excused, StartInstant, EndInstant
<1> QED
    BY <1>1, <1>2 DEF PanelInv

\* A step that forgets the last one created.
LEMMA PanelForgets ==
    ASSUME PanelInv, latest' = 0, from' \in Nat, to' \in Nat,
           UNCHANGED <<shift, txNow, postedAt>>
    PROVE  PanelInv'
BY DEF PanelInv, PanelNumbers, LatestSound

LEMMA FilterStep ==
    ASSUME PanelInv, UNCHANGED shift,
           \/ \E f \in Bound, t \in Bound : EditRange(f, t)
           \/ EditFilter \/ ClearTxFilters
    PROVE  PanelInv'
<1>1. Bound \subseteq Nat
    BY TransactionPanelAssumption DEF Bound, Blank
<1>2. DefaultFrom \in Nat /\ DefaultTo \in Nat /\ from \in Nat /\ to \in Nat
    BY DefaultRange DEF PanelInv, PanelNumbers
<1>3. latest' = 0 /\ from' \in Nat /\ to' \in Nat /\ UNCHANGED <<txNow, postedAt>>
    BY <1>1, <1>2 DEF EditRange, EditFilter, ClearTxFilters
<1> QED
    BY <1>3, PanelForgets

LEMMA ReloadStep == ASSUME PanelInv, UNCHANGED shift, GuardedReload PROVE PanelInv'
<1>1. CASE RangeEmpty
  <2>1. ~RangeValid
      BY <1>1 DEF RangeEmpty, RangeValid
  <2>2. latest' = 0 /\ from' \in Nat /\ to' \in Nat /\ UNCHANGED <<txNow, postedAt>>
      BY <1>1, <2>1, DefaultRange DEF GuardedReload, PanelInv
  <2> QED
      BY <2>2, PanelForgets
<1>2. CASE ~RangeEmpty
  <2>1. UNCHANGED <<txNow, from, to, dirty, hides, postedAt, txRows, noticed, latest>>
      BY <1>2 DEF GuardedReload
  <2>2. txNow \in Nat /\ txNow <= txNow'
      BY <2>1 DEF PanelInv, PanelNumbers
  <2>3. CASE ~RangeValid
      BY <1>2, <2>1, <2>2, <2>3, PanelRest DEF GuardedReload
  <2>4. CASE RangeValid
    <3>1. PICK l : l = [from |-> from, to |-> to, hides |-> hides]
        OBVIOUS
    <3>2. l.from = from /\ l.to = to
        BY <3>1
    <3>3. l.hides = hides
        BY <3>1, Zenon
    <3>4. txLoad' = {l}
        BY <1>2, <2>4, <3>1 DEF GuardedReload, Dispatch
    <3> QED
        BY <2>1, <2>2, <3>2, <3>3, <3>4, PanelRest
  <2> QED
      BY <2>3, <2>4
<1> QED
    BY <1>1, <1>2

LEMMA LoadAnswersStep ==
    ASSUME PanelInv, UNCHANGED shift, NEW l \in txLoad, NEW ok \in BOOLEAN, LoadAnswers(l, ok)
    PROVE  PanelInv'
<1>1. UNCHANGED <<txNow, from, to, dirty, hides, postedAt, noticed>> /\ txLoad' = txLoad \ {l}
    BY DEF LoadAnswers
<1>2. CASE ~ok
  <2>1. latest' = 0
      BY <1>2 DEF LoadAnswers
  <2> QED
      BY <1>1, <2>1, PanelForgets DEF PanelInv, PanelNumbers
<1>3. CASE ok
  <2>1. /\ latest' = latest
        /\ txRows' = {n \in DOMAIN postedAt : /\ ~l.hides
                                              /\ StartInstant(l.from) <= postedAt[n]
                                              /\ postedAt[n] <= EndInstant(l.to)}
      BY <1>3 DEF LoadAnswers
  <2>2. PanelNumbers'
      BY <1>1, <2>1 DEF PanelInv, PanelNumbers
  <2>3. ASSUME latest # 0, Fits(latest) PROVE latest \in txRows'
    <3>1. l.from = from /\ l.to = to /\ l.hides = hides
        BY <2>3 DEF PanelInv, LatestSound
    <3>2. latest \in DOMAIN postedAt
        BY <2>3 DEF PanelInv, PanelNumbers
    <3> QED
        BY <2>1, <2>3, <3>1, <3>2 DEF Fits
  <2>4. LatestSound'
      BY <1>1, <2>1, <2>3 DEF PanelInv, LatestSound, Fits, Excused, StartInstant, EndInstant
  <2> QED
      BY <2>2, <2>4 DEF PanelInv
<1> QED
    BY <1>2, <1>3

LEMMA PostedStep == ASSUME PanelInv, UNCHANGED shift, Posted PROVE PanelInv'
<1>1. /\ postedAt' = Append(postedAt, txNow)
      /\ UNCHANGED <<txNow, from, to, dirty, hides, txLoad, txRows, noticed, latest>>
    BY DEF Posted
<1>2. /\ postedAt \in Seq(Nat) /\ txNow \in Nat /\ latest \in 0..Len(postedAt)
      /\ \A n \in 1..Len(postedAt) : postedAt[n] <= txNow
    BY DEF PanelInv, PanelNumbers
<1>3. /\ postedAt' \in Seq(Nat) /\ Len(postedAt') = Len(postedAt) + 1
      /\ \A n \in 1..Len(postedAt) : postedAt'[n] = postedAt[n]
      /\ postedAt'[Len(postedAt) + 1] = txNow
    BY <1>1, <1>2
<1>4. PanelNumbers'
    BY <1>1, <1>2, <1>3 DEF PanelInv, PanelNumbers
<1>5. latest # 0 => postedAt'[latest] = postedAt[latest]
    BY <1>2, <1>3
<1>6. LatestSound'
    BY <1>1, <1>5 DEF PanelInv, LatestSound, Fits, Excused, StartInstant, EndInstant
<1> QED
    BY <1>4, <1>6 DEF PanelInv

LEMMA CreatedStep == ASSUME PanelInv, UNCHANGED shift, Created PROVE PanelInv'
<1>0. /\ shift \in Int
      /\ postedAt \in Seq(Nat) /\ txNow \in Nat /\ from \in Nat /\ to \in Nat
      /\ \A n \in 1..Len(postedAt) : postedAt[n] <= txNow
    BY DEF PanelInv, PanelNumbers
<1>1. PICK f, t : /\ f = IF KeepsRange THEN from ELSE DefaultFrom
                  /\ t = IF KeepsRange THEN to ELSE DefaultTo
    OBVIOUS
<1>2. PICK l : l = [from |-> f, to |-> t, hides |-> hides]
    OBVIOUS
<1>3. l.from = f /\ l.to = t
    BY <1>2
<1>4. l.hides = hides
    BY <1>2, Zenon
<1>5. /\ from' = f /\ to' = t /\ txLoad' = {l} /\ latest' = Len(postedAt)
      /\ UNCHANGED <<txNow, dirty, hides, postedAt, txRows>>
    BY <1>1, <1>2 DEF Created, Dispatch
<1>6. noticed' <=> Hidden(f, t)
    BY <1>1, Zenon DEF Created, Hidden
<1>7. f \in Nat /\ t \in Nat
    BY <1>0, <1>1, DefaultRange DEF PanelInv
<1>8. PanelNumbers'
    BY <1>0, <1>5, <1>7 DEF PanelNumbers
<1>9. ASSUME latest' # 0
      PROVE  \/ /\ ~hides /\ StartInstant(f) <= postedAt[latest']
                /\ postedAt[latest'] <= EndInstant(t)
             \/ noticed' /\ (hides \/ dirty)
             \/ dirty /\ StartInstant(f) > postedAt[latest']
             \/ shift < 0 /\ EndInstant(t) < postedAt[latest']
  <2>1. postedAt[latest'] \in Nat /\ postedAt[latest'] <= txNow
      BY <1>0, <1>5, <1>9
  <2>2. /\ StartInstant(f) \in Int /\ EndInstant(t) \in Int /\ StartInstant(DefaultFrom) = 0
        /\ shift >= 0 => Tick(t) <= EndInstant(t)
        /\ Tick(f) \in Nat /\ Tick(t) \in Nat
      BY <1>0, <1>7, Instants, TickNat
  <2>3. CASE hides
      BY <1>6, <2>3 DEF Hidden
  <2>4. CASE ~hides /\ KeepsRange
    <3>1. dirty
        BY <2>4 DEF KeepsRange
    <3>2. Tick(t) < postedAt[latest'] => noticed'
        BY <1>0, <1>6, <2>1, <2>2 DEF Hidden
    <3> QED
        BY <1>0, <2>1, <2>2, <2>4, <3>1, <3>2
  <2>5. CASE ~hides /\ ~KeepsRange
    <3>1. StartInstant(f) = 0 /\ txNow <= Tick(t)
        BY <1>1, <2>2, <2>5, DefaultRange DEF PanelInv
    <3> QED
        BY <1>0, <2>1, <2>2, <2>5, <3>1
  <2> QED
      BY <2>3, <2>4, <2>5
<1>10. LatestSound'
    BY <1>3, <1>4, <1>5, <1>9 DEF LatestSound, Fits, Excused, StartInstant, EndInstant
<1> QED
    BY <1>8, <1>10 DEF PanelInv

\* On the transactions panel, once the reload after a creation is answered, the new
\* transaction is listed, or filters the operator set hide it and the operator was told
\* (unless the range typed starts after it), for any clock, range and number of postings.
\* In a browser whose zone is behind the API's the range may end too early for the API.
THEOREM NewRowsAreShown == PanelSpec => []NewRowShown
<1>1. PanelInit => PanelInv
    BY TransactionPanelAssumption DEF PanelInit, PanelInv, PanelNumbers, LatestSound, DefaultFrom
<1>2. PanelInv /\ [PanelNext]_panelVars => PanelInv'
  <2> SUFFICES ASSUME PanelInv, [PanelNext]_panelVars PROVE PanelInv'
      OBVIOUS
  <2>0. UNCHANGED shift
      BY DEF PanelNext, panelVars
  <2>1. ASSUME UNCHANGED panelVars \/ CreateTransaction \/ CreateFails \/ PanelTick
        PROVE  PanelInv'
    <3>1. /\ txNow' \in Nat /\ txNow <= txNow'
          /\ UNCHANGED <<from, to, dirty, hides, postedAt, txLoad, txRows, noticed, latest>>
        BY <2>1 DEF panelVars, CreateTransaction, CreateFails, PanelTick, PanelInv, PanelNumbers
    <3> QED
        BY <2>0, <3>1, PanelRest
  <2> QED
      BY <2>0, <2>1, FilterStep, ReloadStep, LoadAnswersStep, PostedStep, CreatedStep DEF PanelNext
<1>3. PanelInv => NewRowShown
  <2> SUFFICES ASSUME PanelInv, latest # 0, txLoad = {}
               PROVE  \/ latest \in txRows
                      \/ noticed /\ (hides \/ dirty)
                      \/ dirty /\ StartInstant(from) > postedAt[latest]
                      \/ shift < 0 /\ EndInstant(to) < postedAt[latest]
      BY DEF NewRowShown
  <2> QED
      BY DEF PanelInv, LatestSound, Excused
<1> QED
    BY <1>1, <1>2, <1>3, PTL DEF PanelSpec

\* The panel's type, with the request on the wire in a form that a step keeps.
PanelFlags == dirty \in BOOLEAN /\ hides \in BOOLEAN /\ edited \in BOOLEAN /\ noticed \in BOOLEAN
PanelForm ==
    /\ from \in Bound /\ to \in Bound
    /\ txLoad \subseteq TxLoad /\ \A l, k \in txLoad : l = k
PanelRows ==
    /\ shift \in ZoneShift
    /\ txNow \in 0..Tick(MinuteBound)
    /\ posting \in {"none", "sent", "ok"}
    /\ postedAt \in Seq(0..Tick(MinuteBound)) /\ Len(postedAt) <= PostBound
    /\ txRows \subseteq DOMAIN postedAt
    /\ latest \in 0..Len(postedAt)

\* The default range stays on the clock: its end is at most a minute past the last one.
LEMMA DefaultsBound ==
    ASSUME PanelRows
    PROVE  DefaultFrom \in Bound /\ DefaultTo \in Bound
<1>1. /\ TicksPerMinute \in Nat \ {0} /\ MinuteBound \in Nat
      /\ txNow \in Nat /\ txNow <= MinuteBound * TicksPerMinute
    BY TransactionPanelAssumption DEF PanelRows, Tick
<1>2. PICK q : q = txNow \div TicksPerMinute
    OBVIOUS
<1>3. q \in Nat /\ q * TicksPerMinute <= txNow
    BY <1>1, <1>2
<1>4. q <= MinuteBound
  <2> SUFFICES ASSUME q >= MinuteBound + 1 PROVE FALSE
      BY <1>1, <1>3
  <2>1. PICK d \in Nat : q = MinuteBound + 1 + d
    <3>1. q - (MinuteBound + 1) \in Nat /\ q = MinuteBound + 1 + (q - (MinuteBound + 1))
        BY <1>1, <1>3
    <3> QED
        BY <3>1
  <2>2. q * TicksPerMinute = MinuteBound * TicksPerMinute + TicksPerMinute + d * TicksPerMinute
      BY <1>1, <1>3, <2>1
  <2>3. d * TicksPerMinute \in Nat /\ MinuteBound * TicksPerMinute \in Nat
      BY <1>1, <2>1
  <2> QED
      BY <1>1, <1>3, <2>2, <2>3
<1> QED
    BY <1>1, <1>2, <1>3, <1>4 DEF DefaultFrom, DefaultTo, Bound, Blank

LEMMA PanelFlagsStep ==
    ASSUME PanelFlags, [PanelNext]_panelVars PROVE PanelFlags'
<1>1. ASSUME NEW f, NEW t, EditRange(f, t) PROVE PanelFlags'
  <2>1. dirty' \in BOOLEAN /\ edited' \in BOOLEAN
      BY <1>1, Zenon DEF EditRange
  <2> QED
      BY <1>1, <2>1 DEF EditRange, PanelFlags
<1>2. CASE EditFilter
  <2>1. hides' \in BOOLEAN /\ edited' \in BOOLEAN
      BY <1>2, Zenon DEF EditFilter
  <2> QED
      BY <1>2, <2>1 DEF EditFilter, PanelFlags
<1>3. CASE GuardedReload
  <2>1. edited' \in BOOLEAN
      BY <1>3, Zenon DEF GuardedReload
  <2> QED
      BY <1>3, <2>1 DEF GuardedReload, PanelFlags
<1>4. CASE ClearTxFilters
  <2>1. dirty' \in BOOLEAN /\ hides' \in BOOLEAN
      BY <1>4, Zenon DEF ClearTxFilters
  <2> QED
      BY <1>4, <2>1 DEF ClearTxFilters, PanelFlags
<1>5. CASE Created
  <2>1. noticed' \in BOOLEAN
    <3>1. PICK f, t : noticed' = (hides \/ Tick(f) > txNow \/ Tick(t) < txNow)
        BY <1>5 DEF Created, Hidden
    <3> QED
        BY <3>1, Zenon
  <2> QED
      BY <1>5, <2>1 DEF Created, PanelFlags
<1>6. CASE UNCHANGED <<dirty, hides, edited, noticed>>
    BY <1>6 DEF PanelFlags
<1> QED
    BY <1>1, <1>2, <1>3, <1>4, <1>5, <1>6 DEF PanelNext, panelVars, LoadAnswers,
       CreateTransaction, Posted, CreateFails, PanelTick

LEMMA PanelFormStep ==
    ASSUME PanelFlags, PanelForm, PanelRows, [PanelNext]_panelVars PROVE PanelForm'
<1>0. DefaultFrom \in Bound /\ DefaultTo \in Bound
    BY DefaultsBound
<1>1. ASSUME NEW f \in Bound, NEW t \in Bound, NEW b \in BOOLEAN,
             txLoad' = {[from |-> f, to |-> t, hides |-> b]},
             from' \in Bound, to' \in Bound
      PROVE  PanelForm'
  <2>1. [from |-> f, to |-> t, hides |-> b] \in TxLoad
      BY DEF TxLoad
  <2> QED
      BY <1>1, <2>1 DEF PanelForm
<1>2. ASSUME txLoad' \subseteq txLoad, from' \in Bound, to' \in Bound
      PROVE  PanelForm'
    BY <1>2 DEF PanelForm
<1>3. hides \in BOOLEAN /\ from \in Bound /\ to \in Bound
    BY DEF PanelFlags, PanelForm
<1>4. ASSUME NEW f \in Bound, NEW t \in Bound, EditRange(f, t) PROVE PanelForm'
    BY <1>2, <1>4 DEF EditRange
<1>5. CASE GuardedReload
  <2>1. CASE RangeEmpty
    <3>1. /\ txLoad' = {[from |-> DefaultFrom, to |-> DefaultTo, hides |-> hides]}
          /\ from' \in Bound /\ to' \in Bound
        BY <1>0, <1>3, <1>5, <2>1 DEF GuardedReload, Dispatch, RangeEmpty, RangeValid
    <3> QED
        BY <1>0, <1>1, <1>3, <3>1
  <2>2. CASE RangeValid
    <3>1. /\ txLoad' = {[from |-> from, to |-> to, hides |-> hides]}
          /\ from' \in Bound /\ to' \in Bound
        BY <1>3, <1>5, <2>2 DEF GuardedReload, Dispatch, RangeEmpty, RangeValid
    <3> QED
        BY <1>1, <1>3, <3>1
  <2>3. CASE ~RangeEmpty /\ ~RangeValid
      BY <1>2, <1>3, <1>5, <2>3 DEF GuardedReload
  <2> QED
      BY <2>1, <2>2, <2>3
<1>6. CASE ClearTxFilters
    BY <1>0, <1>1, <1>6 DEF ClearTxFilters
<1>7. ASSUME NEW l \in txLoad, NEW ok \in BOOLEAN, LoadAnswers(l, ok) PROVE PanelForm'
    BY <1>2, <1>3, <1>7 DEF LoadAnswers
<1>8. CASE Created
  <2>1. PICK f, t : /\ f = IF KeepsRange THEN from ELSE DefaultFrom
                    /\ t = IF KeepsRange THEN to ELSE DefaultTo
      OBVIOUS
  <2>2. f \in Bound /\ t \in Bound
      BY <1>0, <1>3, <2>1
  <2>3. from' = f /\ to' = t /\ txLoad' = {[from |-> f, to |-> t, hides |-> hides]}
      BY <1>8, <2>1 DEF Created, Dispatch
  <2> QED
      BY <1>1, <1>3, <2>2, <2>3
<1>9. CASE UNCHANGED <<from, to, txLoad>>
    BY <1>2, <1>3, <1>9
<1> QED
    BY <1>4, <1>5, <1>6, <1>7, <1>8, <1>9 DEF PanelNext, panelVars, EditFilter,
       CreateTransaction, Posted, CreateFails, PanelTick

LEMMA PanelRowsStep ==
    ASSUME PanelRows, [PanelNext]_panelVars PROVE PanelRows'
<1>0. UNCHANGED shift
    BY DEF PanelNext, panelVars
<1>1. ASSUME UNCHANGED <<txNow, postedAt>>, posting' \in {posting, "none", "sent"},
             txRows' \subseteq DOMAIN postedAt, latest' \in {0, latest, Len(postedAt)}
      PROVE  PanelRows'
    BY <1>0, <1>1 DEF PanelRows
<1>2. txRows \subseteq DOMAIN postedAt
    BY DEF PanelRows
<1>3. CASE Posted
  <2>1. /\ postedAt \in Seq(0..Tick(MinuteBound)) /\ txNow \in 0..Tick(MinuteBound)
        /\ Len(postedAt) < PostBound
      BY <1>3 DEF Posted, PanelRows
  <2>2. postedAt' = Append(postedAt, txNow)
      BY <1>3 DEF Posted
  <2>3. /\ postedAt' \in Seq(0..Tick(MinuteBound)) /\ Len(postedAt') = Len(postedAt) + 1
        /\ DOMAIN postedAt \subseteq DOMAIN postedAt' /\ Len(postedAt) \in Nat
      BY <2>1, <2>2
  <2>4. Len(postedAt') <= PostBound
      BY <2>1, <2>3, TransactionPanelAssumption
  <2> QED
      BY <1>0, <1>2, <1>3, <2>3, <2>4 DEF Posted, PanelRows
<1>4. CASE PanelTick
  <2>1. Tick(MinuteBound) \in Nat
      BY TickNat, TransactionPanelAssumption
  <2>2. txNow' \in 0..Tick(MinuteBound)
      BY <1>4, <2>1 DEF PanelTick, PanelRows
  <2> QED
      BY <1>0, <1>4, <2>2 DEF PanelTick, PanelRows
<1>5. ASSUME NEW l \in txLoad, NEW ok \in BOOLEAN, LoadAnswers(l, ok) PROVE PanelRows'
    BY <1>1, <1>2, <1>5 DEF LoadAnswers
<1>6. ASSUME NEW f, NEW t, EditRange(f, t) PROVE PanelRows'
    BY <1>1, <1>2, <1>6 DEF EditRange
<1>7. CASE EditFilter \/ GuardedReload \/ ClearTxFilters
    BY <1>1, <1>2, <1>7 DEF EditFilter, GuardedReload, ClearTxFilters
<1>8. CASE CreateTransaction \/ CreateFails \/ Created \/ UNCHANGED panelVars
    BY <1>1, <1>2, <1>8 DEF CreateTransaction, CreateFails, Created, panelVars
<1> QED
    BY <1>3, <1>4, <1>5, <1>6, <1>7, <1>8 DEF PanelNext

\* The panel's state has its type: every range it asks for is on the clock, at most one
\* list request is waited for, and rows are of transactions that were posted.
THEOREM PanelTypeCorrect == PanelSpec => []PanelTypeOK
<1>1. PanelInit => PanelFlags /\ PanelForm /\ PanelRows
  <2> SUFFICES ASSUME PanelInit PROVE PanelFlags /\ PanelForm /\ PanelRows
      OBVIOUS
  <2>1. PanelFlags
      BY Zenon DEF PanelInit, PanelFlags
  <2>2. Tick(MinuteBound) \in Nat /\ MinuteBound \in Nat /\ PostBound \in Nat
      BY TickNat, TransactionPanelAssumption
  <2>3. PanelRows
      BY <2>2 DEF PanelInit, PanelRows
  <2>4. [from |-> DefaultFrom, to |-> 1, hides |-> FALSE] \in TxLoad
      BY <2>2 DEF TxLoad, Bound, Blank, DefaultFrom
  <2>5. from \in Bound /\ to \in Bound
      BY <2>2 DEF PanelInit, Bound, Blank, DefaultFrom
  <2>6. PanelForm
      BY <2>4, <2>5 DEF PanelInit, PanelForm
  <2> QED
      BY <2>1, <2>3, <2>6
<1>2. PanelFlags /\ PanelForm /\ PanelRows /\ [PanelNext]_panelVars =>
          PanelFlags' /\ PanelForm' /\ PanelRows'
    BY PanelFlagsStep, PanelFormStep, PanelRowsStep
<1>3. PanelFlags /\ PanelForm /\ PanelRows => PanelTypeOK
  <2> SUFFICES ASSUME PanelFlags, PanelForm, PanelRows PROVE PanelTypeOK
      OBVIOUS
  <2>1. Cardinality(txLoad) <= 1
    <3>1. CASE txLoad = {}
        BY <3>1, FS_EmptySet
    <3>2. ASSUME NEW l \in txLoad PROVE Cardinality(txLoad) <= 1
      <4>1. txLoad = {l}
          BY DEF PanelForm
      <4> QED
          BY <4>1, FS_Singleton
    <3> QED
        BY <3>1, <3>2
  <2> QED
      BY <2>1 DEF PanelFlags, PanelForm, PanelRows, PanelTypeOK
<1> QED
    BY <1>1, <1>2, <1>3, PTL DEF PanelSpec

-----------------------------------------------------------------------------
(* The notifications page of the web application *)

Distinct(s) == \A i, k \in DOMAIN s : s[i] = s[k] => i = k

\* The inductive invariant of the page: what is on the wire is distinct too, and a page
\* after the first is asked for by an append.
FeedInv ==
    /\ FeedTypeOK
    /\ Distinct(items)
    /\ \A r \in wire : Distinct(r.data) /\ r.page >= 1 /\ (r.kind = "more" => r.page >= 2)

\* OldestFirst lists every place once.
LEMMA OldestFirstListing ==
    ASSUME NEW S, S \subseteq Nat, IsFiniteSet(S)
    PROVE  OldestFirst(S) \in Seq(S) /\ Distinct(OldestFirst(S))
<1>1. PICK c, s, t : c = Cardinality(S) /\ s = NewestFirst(S) /\ t = OldestFirst(S)
    OBVIOUS
<1>2. c \in Nat /\ s \in Seq(S) /\ Len(s) = c /\ \A i, k \in 1..c : s[i] = s[k] => i = k
    BY <1>1, NewestFirstListing
<1>3. t = [i \in 1..c |-> s[c + 1 - i]]
    BY <1>1 DEF OldestFirst
<1>4. \A i \in 1..c : c + 1 - i \in 1..c /\ s[c + 1 - i] \in S
    BY <1>2
<1>5. t \in [1..c -> S] /\ DOMAIN t = 1..c
    BY <1>3, <1>4
<1>6. t \in Seq(S)
    BY <1>2, <1>5
<1>7. Distinct(t)
  <2> SUFFICES ASSUME NEW i \in 1..c, NEW k \in 1..c, t[i] = t[k] PROVE i = k
      BY <1>5 DEF Distinct
  <2>1. s[c + 1 - i] = s[c + 1 - k]
      BY <1>3
  <2>2. c + 1 - i = c + 1 - k
      BY <1>2, <1>4, <2>1
  <2> QED
      BY <1>2, <2>2
<1> QED
    BY <1>1, <1>6, <1>7

\* Lists without a common row.
LEMMA DistinctJoin ==
    ASSUME NEW T, NEW s \in Seq(T), NEW t \in Seq(T), Distinct(s), Distinct(t),
           \A i \in DOMAIN s, k \in DOMAIN t : s[i] # t[k]
    PROVE  s \o t \in Seq(T) /\ Distinct(s \o t)
<1>1. PICK c, m, n : c = s \o t /\ m = Len(s) /\ n = Len(t)
    OBVIOUS
<1>2. /\ m \in Nat /\ n \in Nat /\ c \in Seq(T) /\ DOMAIN c = 1..(m + n)
      /\ DOMAIN s = 1..m /\ DOMAIN t = 1..n
    BY <1>1
<1>3. \A i \in 1..(m + n) : c[i] = IF i <= m THEN s[i] ELSE t[i - m]
    BY <1>1
<1>4. \A i \in 1..(m + n) : IF i <= m THEN i \in 1..m ELSE i - m \in 1..n
    BY <1>2
<1>5. Distinct(c)
  <2> SUFFICES ASSUME NEW i \in 1..(m + n), NEW k \in 1..(m + n), c[i] = c[k] PROVE i = k
      BY <1>2 DEF Distinct
  <2>1. CASE i <= m /\ k <= m
      BY <1>2, <1>3, <1>4, <2>1 DEF Distinct
  <2>2. CASE ~(i <= m) /\ ~(k <= m)
    <3>1. t[i - m] = t[k - m] /\ i - m \in DOMAIN t /\ k - m \in DOMAIN t
        BY <1>2, <1>3, <1>4, <2>2
    <3>2. i - m = k - m
        BY <3>1 DEF Distinct
    <3> QED
        BY <1>2, <3>2
  <2>3. CASE i <= m /\ ~(k <= m)
      BY <1>2, <1>3, <1>4, <2>3
  <2>4. CASE ~(i <= m) /\ k <= m
      BY <1>2, <1>3, <1>4, <2>4
  <2> QED
      BY <2>1, <2>2, <2>3, <2>4
<1> QED
    BY <1>1, <1>2, <1>5

\* A page of a list.
LEMMA DistinctPart ==
    ASSUME NEW T, NEW s \in Seq(T), Distinct(s), NEW m \in Nat \ {0}, NEW n \in Nat, n <= Len(s)
    PROVE  SubSeq(s, m, n) \in Seq(T) /\ Distinct(SubSeq(s, m, n))
<1>1. CASE n < m
  <2>1. SubSeq(s, m, n) = << >>
      BY <1>1, SubSeqEmpty
  <2> QED
      BY <2>1 DEF Distinct
<1>2. CASE m <= n
  <2>1. PICK c : c = SubSeq(s, m, n)
      OBVIOUS
  <2>2. /\ c \in Seq(T) /\ DOMAIN c = 1..(n - m + 1)
        /\ \A i \in 1..(n - m + 1) : c[i] = s[m + i - 1] /\ m + i - 1 \in DOMAIN s
      BY <1>2, <2>1
  <2>3. Distinct(c)
    <3> SUFFICES ASSUME NEW i \in 1..(n - m + 1), NEW k \in 1..(n - m + 1), c[i] = c[k]
                 PROVE  i = k
        BY <2>2 DEF Distinct
    <3>1. m + i - 1 = m + k - 1
        BY <2>2 DEF Distinct
    <3> QED
        BY <3>1
  <2> QED
      BY <2>1, <2>2, <2>3
<1> QED
    BY <1>1, <1>2

\* The whole list has every row once.
LEMMA ListedSound ==
    ASSUME FeedTypeOK, NEW f \in BOOLEAN
    PROVE  /\ Listed(f) \in Seq(1..FeedBound) /\ Distinct(Listed(f))
           /\ Len(Listed(f)) \in 0..FeedBound
<1>1. PICK U, R : U = feedUnread /\ R = (1..feedRows) \ feedUnread
    OBVIOUS
<1>2. feedRows \in Nat /\ feedRows <= FeedBound /\ FeedBound \in Nat /\ U \in SUBSET (1..feedRows)
    BY <1>1, FeedAssumption DEF FeedTypeOK
<1>3. /\ IsFiniteSet(1..feedRows) /\ Cardinality(1..feedRows) = feedRows
      /\ IsFiniteSet(U) /\ IsFiniteSet(R)
  <2>1. IsFiniteSet(1..feedRows) /\ Cardinality(1..feedRows) = feedRows
      BY <1>2, FS_Interval
  <2> QED
      BY <1>1, <1>2, <2>1, FS_Subset
<1>4. Cardinality(R) = feedRows - Cardinality(U)
  <2>1. R = (1..feedRows) \ U /\ (1..feedRows) \cap U = U
      BY <1>1, <1>2
  <2>2. Cardinality((1..feedRows) \ U) = Cardinality(1..feedRows) - Cardinality((1..feedRows) \cap U)
      BY <1>3, FS_Difference
  <2> QED
      BY <1>3, <2>1, <2>2
<1>5. PICK a, b : a = NewestFirst(U) /\ b = NewestFirst(R)
    OBVIOUS
<1>6. a \in Seq(U) /\ Len(a) = Cardinality(U) /\ Cardinality(U) \in Nat /\ Distinct(a)
  <2>1. U \subseteq Nat
      BY <1>2
  <2>2. /\ a \in Seq(U) /\ Len(a) = Cardinality(U) /\ Cardinality(U) \in Nat
        /\ \A i, k \in 1..Cardinality(U) : a[i] = a[k] => i = k
      BY <1>3, <1>5, <2>1, NewestFirstListing
  <2> QED
      BY <2>2 DEF Distinct
<1>7. b \in Seq(R) /\ Len(b) = Cardinality(R) /\ Cardinality(R) \in Nat /\ Distinct(b)
  <2>1. R \subseteq Nat
      BY <1>1, <1>2
  <2>2. /\ b \in Seq(R) /\ Len(b) = Cardinality(R) /\ Cardinality(R) \in Nat
        /\ \A i, k \in 1..Cardinality(R) : b[i] = b[k] => i = k
      BY <1>3, <1>5, <2>1, NewestFirstListing
  <2> QED
      BY <2>2 DEF Distinct
<1>8. a \in Seq(1..FeedBound) /\ b \in Seq(1..FeedBound)
  <2>1. U \subseteq 1..FeedBound /\ R \subseteq 1..FeedBound
      BY <1>1, <1>2
  <2>2. a \in Seq(1..FeedBound)
    <3>1. a \in Seq(U)
        BY <1>6
    <3> QED
        BY <2>1, <3>1, SeqMonotonic
  <2>3. b \in Seq(1..FeedBound)
    <3>1. b \in Seq(R)
        BY <1>7
    <3> QED
        BY <2>1, <3>1, SeqMonotonic
  <2> QED
      BY <2>2, <2>3
<1>9. CASE f
  <2>1. Listed(f) = a
    <3>1. Listed(f) = a \o << >>
        BY <1>1, <1>5, <1>9 DEF Listed
    <3> QED
        BY <1>8, <3>1
  <2>2. Cardinality(U) <= feedRows
      BY <1>2, <1>4, <1>6, <1>7
  <2> QED
      BY <1>2, <1>6, <1>8, <2>1, <2>2
<1>10. CASE ~f
  <2>1. Listed(f) = a \o b
      BY <1>1, <1>5, <1>10 DEF Listed
  <2>2. \A i \in DOMAIN a, k \in DOMAIN b : a[i] # b[k]
    <3>1. \A i \in DOMAIN a : a[i] \in U
        BY <1>6
    <3>2. \A k \in DOMAIN b : b[k] \in R
        BY <1>7
    <3> QED
        BY <1>1, <3>1, <3>2
  <2>3. a \o b \in Seq(1..FeedBound) /\ Distinct(a \o b)
      BY <1>6, <1>7, <1>8, <2>2, DistinctJoin
  <2>4. Len(a \o b) = feedRows
      BY <1>2, <1>4, <1>6, <1>7, <1>8
  <2> QED
      BY <1>2, <2>1, <2>3, <2>4
<1> QED
    BY <1>9, <1>10

\* A page of it has none twice.
LEMMA PageOfSound ==
    ASSUME FeedTypeOK, NEW f \in BOOLEAN, NEW p \in Nat, p >= 1
    PROVE  PageOf(f, p) \in Seq(1..FeedBound) /\ Distinct(PageOf(f, p))
<1>1. PICK s, m, n : /\ s = Listed(f) /\ m = (p - 1) * FeedPage + 1
                     /\ n = IF p * FeedPage < Len(s) THEN p * FeedPage ELSE Len(s)
    OBVIOUS
<1>2. s \in Seq(1..FeedBound) /\ Distinct(s)
    BY <1>1, ListedSound
<1>3. (p - 1) * FeedPage \in Nat /\ p * FeedPage \in Nat
  <2>1. FeedPage \in Nat /\ p - 1 \in Nat
      BY FeedAssumption
  <2> QED
      BY <2>1
<1>4. m \in Nat \ {0} /\ n \in Nat /\ n <= Len(s)
    BY <1>1, <1>2, <1>3
<1>5. PageOf(f, p) = SubSeq(s, m, n)
    BY <1>1 DEF PageOf
<1> QED
    BY <1>2, <1>4, <1>5, DistinctPart

\* The rows added have none twice and none that is on screen.
LEMMA NewOnesSound ==
    ASSUME NEW T, NEW data \in Seq(T), Distinct(data)
    PROVE  /\ NewOnes(data) \in Seq(T) /\ Distinct(NewOnes(data))
           /\ \A i \in DOMAIN NewOnes(data) : ~InFeed(NewOnes(data)[i])
<1>1. PICK S, o, d : /\ S = {i \in DOMAIN data : ~InFeed(data[i])}
                     /\ o = OldestFirst(S) /\ d = NewOnes(data)
    OBVIOUS
<1>2. d = [i \in DOMAIN o |-> data[o[i]]]
    BY <1>1 DEF NewOnes
<1>3. S \subseteq Nat /\ IsFiniteSet(S)
  <2>1. DOMAIN data = 1..Len(data) /\ Len(data) \in Nat
      OBVIOUS
  <2>2. IsFiniteSet(1..Len(data))
      BY <2>1, FS_Interval
  <2>3. S \in SUBSET (1..Len(data))
      BY <1>1, <2>1
  <2>4. IsFiniteSet(S)
      BY <2>2, <2>3, FS_Subset
  <2> QED
      BY <2>1, <2>3, <2>4
<1>4. o \in Seq(S) /\ Distinct(o)
    BY <1>1, <1>3, OldestFirstListing
<1>5. \A i \in DOMAIN o : o[i] \in DOMAIN data /\ ~InFeed(data[o[i]])
    BY <1>1, <1>4
<1>6. DOMAIN o = 1..Len(o) /\ Len(o) \in Nat /\ DOMAIN d = DOMAIN o
    BY <1>2, <1>4
<1>7. d \in [1..Len(o) -> T]
    BY <1>2, <1>5, <1>6
<1>8. d \in Seq(T)
    BY <1>6, <1>7
<1>9. Distinct(d)
  <2> SUFFICES ASSUME NEW i \in DOMAIN o, NEW k \in DOMAIN o, d[i] = d[k] PROVE i = k
      BY <1>6 DEF Distinct
  <2>1. data[o[i]] = data[o[k]]
      BY <1>2
  <2>2. o[i] = o[k]
      BY <1>5, <2>1 DEF Distinct
  <2> QED
      BY <1>4, <2>2 DEF Distinct
<1>10. \A i \in DOMAIN d : ~InFeed(d[i])
    BY <1>2, <1>5, <1>6
<1> QED
    BY <1>1, <1>8, <1>9, <1>10

\* An answer, and an error that comes instead.
LEMMA AnswerStep == ASSUME FeedInv, NEW r \in wire, AnswerRequest(r) PROVE FeedInv'
<1>1. PICK d, n : d = PageOf(r.unreadOnly, r.page) /\ n = Len(Listed(r.unreadOnly))
    OBVIOUS
<1>2. /\ r \in Request /\ Distinct(r.data) /\ r.page >= 1 /\ (r.kind = "more" => r.page >= 2)
      /\ r.unreadOnly \in BOOLEAN /\ r.page \in Nat
    BY DEF FeedInv, FeedTypeOK, Request
<1>3. d \in Seq(1..FeedBound) /\ Distinct(d) /\ n \in 0..FeedBound
    BY <1>1, <1>2, ListedSound, PageOfSound DEF FeedInv
<1>4. PICK g : /\ wire' = (wire \ {r}) \cup {g}
               /\ g = [r EXCEPT !.at = "ok", !.data = d, !.total = n] \/ g = [r EXCEPT !.at = "error"]
    BY <1>1 DEF AnswerRequest
<1>5. /\ g \in Request /\ g.page = r.page /\ g.kind = r.kind
      /\ g.data = d \/ g.data = r.data
    BY <1>2, <1>3, <1>4 DEF Request
<1>6. Distinct(g.data) /\ g.page >= 1 /\ (g.kind = "more" => g.page >= 2)
    BY <1>2, <1>3, <1>5
<1>7. UNCHANGED <<unreadOnly, items, total, page, errored, loading, feedRows, feedUnread>>
    BY DEF AnswerRequest
<1> QED
    BY <1>4, <1>5, <1>6, <1>7 DEF FeedInv, FeedTypeOK, Distinct

\* The answer replaces, extends or heads the list.
LEMMA ApplyAnswerStep == ASSUME FeedInv, NEW r \in wire, ApplyAnswer(r) PROVE FeedInv'
<1>1. PICK d : d = NewOnes(r.data)
    OBVIOUS
<1>2. /\ r \in Request /\ r.data \in Seq(1..FeedBound) /\ Distinct(r.data)
      /\ r.total \in 0..FeedBound /\ r.kind \in {"load", "more", "top"}
      /\ items \in Seq(1..FeedBound) /\ Distinct(items)
    BY DEF FeedInv, FeedTypeOK, Request
<1>3. d \in Seq(1..FeedBound) /\ Distinct(d) /\ \A i \in DOMAIN d : ~InFeed(d[i])
  <2>1. r.data \in Seq(1..FeedBound) /\ Distinct(r.data)
      BY <1>2
  <2> QED
      BY <1>1, <2>1, NewOnesSound
<1>4. \A i \in DOMAIN d, k \in DOMAIN items : d[i] # items[k]
    BY <1>3 DEF InFeed
<1>5. items \o d \in Seq(1..FeedBound) /\ Distinct(items \o d)
    BY <1>2, <1>3, <1>4, DistinctJoin
<1>6. d \o items \in Seq(1..FeedBound) /\ Distinct(d \o items)
    BY <1>2, <1>3, <1>4, DistinctJoin
<1>7. /\ wire' = wire \ {r} /\ total' = r.total
      /\ items' = r.data \/ items' = items \o d \/ items' = d \o items
      /\ UNCHANGED <<unreadOnly, page, errored, feedRows, feedUnread>>
    BY <1>1, <1>2 DEF ApplyAnswer
<1>8. loading' \in BOOLEAN
  <2>1. loading' = (loading /\ r.kind # "load")
      BY DEF ApplyAnswer
  <2> QED
      BY <2>1, Zenon
<1>9. items' \in Seq(1..FeedBound) /\ Distinct(items')
    BY <1>2, <1>5, <1>6, <1>7
<1> QED
    BY <1>2, <1>7, <1>8, <1>9 DEF FeedInv, FeedTypeOK

\* A failed append rolls the page back, and not below the first.
LEMMA ApplyErrorStep == ASSUME FeedInv, NEW r \in wire, ApplyError(r) PROVE FeedInv'
<1>1. r \in Request /\ r.page \in Nat /\ (r.kind = "more" => r.page >= 2) /\ page \in Nat \ {0}
    BY DEF FeedInv, FeedTypeOK, Request
<1>2. page' \in Nat \ {0}
  <2>1. page' = IF r.kind = "more" THEN r.page - 1 ELSE page
      BY DEF ApplyError, RollBack
  <2> QED
      BY <1>1, <2>1
<1>3. wire' = wire \ {r} /\ UNCHANGED <<unreadOnly, items, total, feedRows, feedUnread>>
    BY DEF ApplyError
<1>4. loading' \in BOOLEAN /\ errored' \in BOOLEAN
  <2>1. loading' = (loading /\ r.kind # "load") /\ errored' = (errored \/ r.kind = "load")
      BY DEF ApplyError
  <2> QED
      BY <2>1, Zenon
<1> QED
    BY <1>2, <1>3, <1>4 DEF FeedInv, FeedTypeOK, Distinct

\* A request is sent.
LEMMA AskStep ==
    ASSUME FeedInv, NEW kind \in {"load", "more", "top"}, NEW f \in BOOLEAN, NEW p \in Nat,
           p >= 1, kind = "more" => p >= 2, Ask(kind, f, p),
           unreadOnly' \in BOOLEAN, errored' \in BOOLEAN, loading' \in BOOLEAN,
           page' \in Nat \ {0}, UNCHANGED <<items, total, feedRows, feedUnread>>
    PROVE  FeedInv'
<1>1. PICK g : g = [kind |-> kind, unreadOnly |-> f, page |-> p, at |-> "sent",
                    data |-> << >>, total |-> 0]
    OBVIOUS
<1>2. g \in Request
    BY <1>1, FeedAssumption DEF Request
<1>3. Distinct(g.data) /\ g.page = p /\ g.kind = kind
    BY <1>1 DEF Distinct
<1>4. wire' = wire \cup {g}
    BY <1>1 DEF Ask
<1> QED
    BY <1>2, <1>3, <1>4 DEF FeedInv, FeedTypeOK, Distinct

LEMMA FeedStep == ASSUME FeedInv, [FeedNext]_feedVars PROVE FeedInv'
<1>1. CASE UNCHANGED feedVars
    BY <1>1 DEF FeedInv, FeedTypeOK, Distinct, feedVars
<1>2. ASSUME NEW f \in BOOLEAN, FeedLoad(f) PROVE FeedInv'
  <2>1. /\ unreadOnly' = f /\ page' = 1 /\ errored' = FALSE /\ loading' = TRUE
        /\ Ask("load", f, 1) /\ UNCHANGED <<items, total, feedRows, feedUnread>>
      BY <1>2 DEF FeedLoad
  <2>2. unreadOnly' \in BOOLEAN /\ errored' \in BOOLEAN /\ loading' \in BOOLEAN
      BY <2>1, Zenon
  <2>3. page' \in Nat \ {0}
      BY <2>1
  <2> QED
      BY <2>1, <2>2, <2>3, AskStep
<1>3. ASSUME LoadMore PROVE FeedInv'
  <2>1. page \in Nat \ {0} /\ page + 1 \in Nat /\ page + 1 >= 2 /\ unreadOnly \in BOOLEAN
      BY DEF FeedInv, FeedTypeOK
  <2>2. /\ Ask("more", unreadOnly, page + 1) /\ page' = page + 1
        /\ UNCHANGED <<unreadOnly, items, total, errored, loading, feedRows, feedUnread>>
      BY <1>3 DEF LoadMore
  <2>3. unreadOnly' \in BOOLEAN /\ errored' \in BOOLEAN /\ loading' \in BOOLEAN
      BY <2>2 DEF FeedInv, FeedTypeOK
  <2> QED
      BY <2>1, <2>2, <2>3, AskStep
<1>4. ASSUME RefreshTop PROVE FeedInv'
  <2>1. /\ Ask("top", unreadOnly, 1)
        /\ UNCHANGED <<unreadOnly, items, total, page, errored, loading, feedRows, feedUnread>>
      BY <1>4 DEF RefreshTop
  <2>2. /\ unreadOnly' \in BOOLEAN /\ errored' \in BOOLEAN /\ loading' \in BOOLEAN
        /\ unreadOnly \in BOOLEAN /\ page' \in Nat \ {0}
      BY <2>1 DEF FeedInv, FeedTypeOK
  <2> QED
      BY <2>1, <2>2, AskStep
<1>5. ASSUME NotificationCreated PROVE FeedInv'
  <2>1. /\ feedRows < FeedBound /\ feedRows' = feedRows + 1
        /\ feedUnread' = feedUnread \cup {feedRows + 1}
        /\ UNCHANGED <<unreadOnly, items, total, page, errored, loading, wire>>
      BY <1>5 DEF NotificationCreated
  <2>2. feedRows' \in 0..FeedBound /\ feedUnread' \subseteq 1..feedRows'
      BY <2>1, FeedAssumption DEF FeedInv, FeedTypeOK
  <2> QED
      BY <2>1, <2>2 DEF FeedInv, FeedTypeOK, Distinct
<1>6. ASSUME NEW S, RowsRead(S) PROVE FeedInv'
    BY <1>6 DEF RowsRead, FeedInv, FeedTypeOK, Distinct
<1> QED
    BY <1>1, <1>2, <1>3, <1>4, <1>5, <1>6, AnswerStep, ApplyAnswerStep, ApplyErrorStep DEF FeedNext

\* No row is on screen twice, though requests are answered and applied in any order
\* while rows arrive and are read (NotificationsComponent load, loadMore, refreshTop),
\* for any page size and number of requests; the state is well typed.
THEOREM FeedRowsDistinct == FeedSpec => [](FeedTypeOK /\ ItemsDistinct)
<1>1. FeedInit => FeedInv
  <2> SUFFICES ASSUME FeedInit PROVE FeedInv
      OBVIOUS
  <2>1. PICK g : g = [kind |-> "load", unreadOnly |-> FALSE, page |-> 1, at |-> "sent",
                      data |-> << >>, total |-> 0]
      OBVIOUS
  <2>2. g \in Request /\ Distinct(g.data) /\ g.page = 1 /\ g.kind = "load"
      BY <2>1, FeedAssumption DEF Request, Distinct
  <2>3. wire = {g} /\ items = << >>
      BY <2>1 DEF FeedInit
  <2>4. feedRows \in 0..FeedBound /\ feedUnread = 1..feedRows /\ total = 0 /\ page = 1
      BY DEF FeedInit
  <2>5. unreadOnly \in BOOLEAN /\ errored \in BOOLEAN /\ loading \in BOOLEAN
      BY DEF FeedInit
  <2>6. FeedTypeOK
    <3>1. items \in Seq(1..FeedBound) /\ total \in 0..FeedBound /\ page \in Nat \ {0}
        BY <2>3, <2>4, FeedAssumption
    <3>2. wire \subseteq Request /\ feedUnread \subseteq 1..feedRows
        BY <2>2, <2>3, <2>4
    <3> QED
        BY <2>4, <2>5, <3>1, <3>2 DEF FeedTypeOK
  <2> QED
      BY <2>2, <2>3, <2>6 DEF FeedInv, Distinct
<1>2. FeedInv => FeedTypeOK /\ ItemsDistinct
    BY DEF FeedInv, Distinct, ItemsDistinct
<1> QED
    BY <1>1, <1>2, FeedStep, PTL DEF FeedSpec

-----------------------------------------------------------------------------
(* The sum of the parts *)

\* Every behaviour of the sum is one of each part, in which it acts or rests: what is
\* proved of a part holds of the sum, and so of what TLC explores.
THEOREM ScreensRunComponents ==
    ScreensSpec => /\ WebSpec /\ ForgotSpec /\ ListSpec /\ PanelSpec /\ FeedSpec
                   /\ RiskSpec /\ DetailSpec /\ SettingsSpec /\ DeskSpec /\ FormSpec
<1>1. ScreensInit => /\ WebInit /\ ForgotInit /\ ListInit /\ PanelInit /\ FeedInit
                     /\ RiskInit /\ DetailInit /\ SettingsInit /\ DeskInit /\ FormInit
    BY DEF ScreensInit
<1>2. ASSUME [ScreensNext]_screensVars
      PROVE  /\ [WebNext]_webVars /\ [ForgotNext]_forgotVars /\ [ListNext]_listVars
             /\ [PanelNext]_panelVars /\ [FeedNext]_feedVars /\ [RiskNext]_riskVars
             /\ [DetailNext]_detailVars /\ [SettingsNext]_settingsVars
             /\ [DeskNext]_deskVars /\ [FormNext]_formVars
  <2>1. CASE UNCHANGED screensVars
      BY <2>1 DEF screensVars
  <2>2. CASE ScreensNext
      BY <2>2 DEF ScreensNext, Only
  <2> QED
      BY <1>2, <2>1, <2>2
<1> QED
    BY <1>1, <1>2, PTL
    DEF ScreensSpec, WebSpec, ForgotSpec, ListSpec, PanelSpec, FeedSpec, RiskSpec, DetailSpec,
        SettingsSpec, DeskSpec, FormSpec

\* Every part is well typed, the one that acts and those that rest.
THEOREM ScreensTypeCorrect == ScreensSpec => []ScreensTypeOK
<1>1. ASSUME WebTypeOK, ForgotTypeOK, ListTypeOK, PanelTypeOK, FeedTypeOK, RiskTypeOK,
             DetailTypeOK, SettingsTypeOK, DeskTypeOK, FormTypeOK
      PROVE  ScreensTypeOK
    BY <1>1 DEF ScreensTypeOK
<1>2. (ForgotTypeOK /\ PollOnlyWhileWaiting => ForgotTypeOK)
      /\ (FeedTypeOK /\ ItemsDistinct => FeedTypeOK)
    OBVIOUS
<1> QED
    BY <1>1, <1>2, ScreensRunComponents, WebTypeCorrect, PollsOnlyWhileWaiting, ListTypeCorrect,
       PanelTypeCorrect, FeedRowsDistinct, RiskTypeCorrect, DetailTypeCorrect,
       SettingsTypeCorrect, DeskTypeCorrect, FormTypeCorrect, PTL
=============================================================================
