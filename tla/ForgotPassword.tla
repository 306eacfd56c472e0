--------------------------- MODULE ForgotPassword ---------------------------
(***************************************************************************)
(* The forgot-password screen: a wizard of four steps with the             *)
(* administrator overlay on step 2, one submission at a time, a status     *)
(* poll and the timer that repeats it.  The operator may leave the screen  *)
(* at any moment; requests on the wire are then still answered.            *)
(***************************************************************************)
EXTENDS Naturals

VARIABLES
    alive,       \* the component exists
    step,        \* 1 identify, 2 verify, 3 new password, 4 done
    adminFlow,   \* overlay on step 2
    expired,     \* the "start over" panel covers the wizard
    submitting,  \* the submission on the wire, or "none"
    checking,    \* a status poll is on the wire
    pollTimer    \* the interval timer runs

forgotVars == <<alive, step, adminFlow, expired, submitting, checking, pollTimer>>

ForgotTypeOK ==
    /\ alive \in BOOLEAN
    /\ step \in 1..4
    /\ adminFlow \in {"none", "form", "waiting", "denied"}
    /\ expired \in BOOLEAN
    /\ submitting \in {"none", "initiate", "verifyCode", "verify", "createResetRequest"}
    /\ checking \in BOOLEAN
    /\ pollTimer \in BOOLEAN

ForgotInit ==
    /\ alive = TRUE
    /\ step = 1
    /\ adminFlow = "none"
    /\ expired = FALSE
    /\ submitting = "none"
    /\ checking = FALSE
    /\ pollTimer = FALSE

-----------------------------------------------------------------------------
\* The form on screen, which offers the call it submits.
Offered ==
    IF expired THEN "none"
    ELSE CASE step = 1                           -> "initiate"
           [] step = 2 /\ adminFlow = "none"     -> "verifyCode"
           [] step = 2 /\ adminFlow = "form"     -> "createResetRequest"
           [] step = 3                           -> "verify"
           [] OTHER                              -> "none"

\* submitEmail, submitCode, submitPassword, submitAdminRequest.
Submit ==
    /\ alive
    /\ submitting = "none"
    /\ Offered # "none"
    /\ submitting' = Offered
    /\ UNCHANGED <<alive, step, adminFlow, expired, checking, pollTimer>>

\* The answer is the one asked for; startPolling on entering the waiting state.
SubmitSucceeds ==
    /\ submitting # "none"
    /\ submitting' = "none"
    /\ IF submitting = "createResetRequest"
       THEN adminFlow' = "waiting" /\ pollTimer' = TRUE /\ UNCHANGED step
       ELSE step' = step + 1 /\ UNCHANGED <<adminFlow, pollTimer>>
    /\ UNCHANGED <<alive, expired, checking>>

\* applyResetError: a lost challenge opens the panel, a factor missing or wrong
\* returns to step 2, any other failure leaves the wizard where it is.
SubmitFails ==
    /\ submitting # "none"
    /\ submitting' = "none"
    /\ \/ UNCHANGED <<step, expired>>
       \/ /\ submitting \in {"verifyCode", "verify"}
          /\ expired' = TRUE
          /\ UNCHANGED step
       \/ /\ submitting \in {"verifyCode", "verify"}
          /\ step' = 2
          /\ UNCHANGED expired
    /\ UNCHANGED <<alive, adminFlow, checking, pollTimer>>

Back ==
    /\ alive /\ ~expired
    /\ submitting = "none"
    /\ \/ /\ step = 2 /\ adminFlow = "form"
          /\ adminFlow' = "none"
          /\ UNCHANGED step
       \/ /\ step \in 2..3 /\ adminFlow = "none"
          /\ step' = step - 1
          /\ UNCHANGED adminFlow
    /\ UNCHANGED <<alive, expired, submitting, checking, pollTimer>>

OpenAdminRequest ==
    /\ alive
    /\ submitting = "none"
    /\ Offered = "verifyCode"
    /\ adminFlow' = "form"
    /\ UNCHANGED <<alive, step, expired, submitting, checking, pollTimer>>

\* checkStatus, by the timer or by the "check now" button.
CheckStatus ==
    /\ \/ pollTimer
       \/ alive /\ ~expired /\ step = 2 /\ adminFlow = "waiting"
    /\ ~checking
    /\ checking' = TRUE
    /\ UNCHANGED <<alive, step, adminFlow, expired, submitting, pollTimer>>

\* Mutant: a final answer leaves the timer running.
KeepPolling(status) == UNCHANGED pollTimer

\* stopPolling on every answer but "pending".
StopPolling(status) == pollTimer' = (pollTimer /\ status = "pending")

\* applyRequestStatus.
ApplyRequestStatus(status) ==
    /\ checking
    /\ checking' = FALSE
    /\ StopPolling(status)
    /\ adminFlow' = CASE status = "approved" -> "none"
                      [] status = "denied"   -> "denied"
                      [] status = "expired"  -> "form"
                      [] status = "pending"  -> adminFlow
    /\ step' = IF status = "approved" THEN 3 ELSE step
    /\ UNCHANGED <<alive, expired, submitting>>

\* The poll itself failed: an inline message, and the timer polls again.
CheckFails ==
    /\ checking
    /\ checking' = FALSE
    /\ UNCHANGED <<alive, step, adminFlow, expired, submitting, pollTimer>>

StartOver ==
    /\ alive
    /\ expired \/ (step = 2 /\ adminFlow = "denied")
    /\ step' = 1
    /\ adminFlow' = "none"
    /\ expired' = FALSE
    /\ pollTimer' = FALSE
    /\ UNCHANGED <<alive, submitting, checking>>

\* onDestroy: the timer is cleared; no request is cancelled.
LeaveScreen ==
    /\ alive
    /\ alive' = FALSE
    /\ pollTimer' = FALSE
    /\ UNCHANGED <<step, adminFlow, expired, submitting, checking>>

ForgotNext ==
    \/ Submit \/ SubmitSucceeds \/ SubmitFails
    \/ Back \/ OpenAdminRequest \/ StartOver
    \/ CheckStatus \/ CheckFails
    \/ \E status \in {"approved", "denied", "expired", "pending"} : ApplyRequestStatus(status)
    \/ LeaveScreen

ForgotSpec == ForgotInit /\ [][ForgotNext]_forgotVars

-----------------------------------------------------------------------------
\* While the screen is open the timer runs exactly in the waiting state, and a poll is
\* only ever answered in the state it was sent for, so that a late answer never moves
\* an operator who went on to something else.
PollOnlyWhileWaiting ==
    alive => /\ pollTimer = (adminFlow = "waiting")
             /\ checking => adminFlow = "waiting" /\ step = 2 /\ ~expired
=============================================================================
