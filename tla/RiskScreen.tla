----------------------------- MODULE RiskScreen -----------------------------
(***************************************************************************)
(* The on-chain risk screen of one customer: screening an address, the     *)
(* decision recorded from it, the optional wallet signature.  The screen   *)
(* is kept when the route goes from one customer to another.               *)
(***************************************************************************)
EXTENDS Naturals, FiniteSets

CONSTANTS
    RiskCustomer,  \* customers
    RiskAddress,   \* valid addresses
    Wallet,        \* accounts of the operator's wallet
    Null           \* a null signal

ASSUME RiskAssumption == Null \notin RiskCustomer \cup RiskAddress \cup Wallet

VARIABLES
    route,            \* the customer id in the URL
    onScreen,         \* customer(): the one loaded, or Null
    screenedAddress,  \* screenedAddress(), or Null
    assessment,       \* what assessment() and simSignals() are of, or Null
    screening,        \* the screening on the wire, or Null
    recording,        \* the decision on the wire: at most one
    operatorWallet,   \* operator(): the connected account, or Null
    signing,          \* requests to sign the wallet has not answered
    signature,        \* what signature() attests, or Null
    rerouted          \* observer: the route changed since the last screening

riskVars == <<route, onScreen, screenedAddress, assessment, screening, recording,
              operatorWallet, signing, signature, rerouted>>

-----------------------------------------------------------------------------
Screening == [of : RiskCustomer, address : RiskAddress]
Decision == [of : RiskCustomer, address : RiskAddress, signals : Screening, rerouted : BOOLEAN]
Signature == [by : Wallet, address : RiskAddress]

RiskTypeOK ==
    /\ route \in RiskCustomer
    /\ onScreen \in RiskCustomer \cup {Null}
    /\ screenedAddress \in RiskAddress \cup {Null}
    /\ assessment \in Screening \cup {Null} /\ screening \in Screening \cup {Null}
    /\ recording \subseteq Decision /\ Cardinality(recording) <= 1
    /\ operatorWallet \in Wallet \cup {Null}
    /\ signing \subseteq Signature /\ signature \in Signature \cup {Null}
    /\ rerouted \in BOOLEAN

RiskInit ==
    /\ route \in RiskCustomer
    /\ onScreen = Null /\ screenedAddress = Null
    /\ assessment = Null /\ screening = Null
    /\ recording = {}
    /\ operatorWallet = Null /\ signing = {} /\ signature = Null
    /\ rerouted = FALSE

-----------------------------------------------------------------------------
\* paramMap emits; switchMap drops a load of the customer before.
Reroute(c) ==
    /\ c # route
    /\ route' = c
    /\ rerouted' = TRUE
    /\ UNCHANGED <<onScreen, screenedAddress, assessment, screening, recording,
                   operatorWallet, signing, signature>>

\* getById answers for the route's customer; a failure leaves the one before.
CustomerLoaded ==
    /\ onScreen # route
    /\ onScreen' = route
    /\ UNCHANGED <<route, screenedAddress, assessment, screening, recording,
                   operatorWallet, signing, signature, rerouted>>

\* screen() with an invalid address.
ScreenInvalid ==
    /\ screening = Null
    /\ assessment' = Null
    /\ UNCHANGED <<route, onScreen, screenedAddress, screening, recording,
                   operatorWallet, signing, signature, rerouted>>

\* Mutant: the assessment of the address before stays while the next one is read.
KeepAssessment == assessment

\* screen() clears what it will replace.
ClearedAssessment == Null

\* screen(): the button is disabled while a screening is on the wire.
Screen(a) ==
    /\ screening = Null
    /\ onScreen # Null
    /\ screenedAddress' = a
    /\ assessment' = ClearedAssessment
    /\ screening' = [of |-> onScreen, address |-> a]
    /\ rerouted' = (route # onScreen)
    /\ UNCHANGED <<route, onScreen, recording, operatorWallet, signing, signature>>

\* screenRisk answers; failed chain reads do not fail the screening.
ScreenAnswers(ok) ==
    /\ screening # Null
    /\ assessment' = IF ok THEN screening ELSE Null
    /\ screening' = Null
    /\ UNCHANGED <<route, onScreen, screenedAddress, recording, operatorWallet, signing, signature, rerouted>>

\* record(): for the customer and the address on screen, with the signals shown.
Record ==
    /\ onScreen # Null
    /\ assessment # Null
    /\ screenedAddress # Null
    /\ recording = {}
    /\ recording' = {[of |-> onScreen, address |-> screenedAddress, signals |-> assessment,
                     rerouted |-> rerouted]}
    /\ UNCHANGED <<route, onScreen, screenedAddress, assessment, screening,
                   operatorWallet, signing, signature, rerouted>>

RecordAnswers ==
    /\ recording # {}
    /\ recording' = {}
    /\ UNCHANGED <<route, onScreen, screenedAddress, assessment, screening,
                   operatorWallet, signing, signature, rerouted>>

-----------------------------------------------------------------------------
\* connect(), or the wallet reports another account.
UseWallet(w) ==
    /\ operatorWallet' = w
    /\ UNCHANGED <<route, onScreen, screenedAddress, assessment, screening, recording,
                   signing, signature, rerouted>>

\* disconnect(), or the wallet reports no account.
DropWallet ==
    /\ operatorWallet' = Null
    /\ signature' = Null
    /\ UNCHANGED <<route, onScreen, screenedAddress, assessment, screening, recording,
                   signing, rerouted>>

\* signAudit: the wallet is asked to sign for the address on screen.
SignAudit ==
    /\ operatorWallet # Null
    /\ screenedAddress # Null
    /\ signing' = signing \cup {[by |-> operatorWallet, address |-> screenedAddress]}
    /\ UNCHANGED <<route, onScreen, screenedAddress, assessment, screening, recording,
                   operatorWallet, signature, rerouted>>

\* The wallet signs, or the operator declines; the screen may have moved on.
SignAnswers(s, ok) ==
    /\ signing' = signing \ {s}
    /\ signature' = IF ok THEN s ELSE signature
    /\ UNCHANGED <<route, onScreen, screenedAddress, assessment, screening, recording,
                   operatorWallet, rerouted>>

RiskNext ==
    \/ \E c \in RiskCustomer : Reroute(c)
    \/ CustomerLoaded
    \/ ScreenInvalid
    \/ \E a \in RiskAddress : Screen(a)
    \/ \E ok \in BOOLEAN : ScreenAnswers(ok)
    \/ Record \/ RecordAnswers
    \/ \E w \in Wallet : UseWallet(w)
    \/ DropWallet \/ SignAudit
    \/ \E s \in signing, ok \in BOOLEAN : SignAnswers(s, ok)

RiskSpec == RiskInit /\ [][RiskNext]_riskVars

-----------------------------------------------------------------------------
\* A recorded decision carries the signals of a screening of the same address, also
\* while a further screening is on the wire, and of the same customer unless the route
\* changed in between.
DecisionMatchesScreening ==
    \A d \in recording : /\ d.signals.address = d.address
                         /\ d.signals.of = d.of \/ d.rerouted
=============================================================================
