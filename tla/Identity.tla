------------------------------ MODULE Identity ------------------------------
(***************************************************************************)
(* The components that decide who an operator is and what it may do,       *)
(* Login, Access, Mfa and PasswordReset, and the ids of the audit log.     *)
(* They share no variable and every property speaks of one of them, so a   *)
(* behaviour in which one acts and the others rest in their initial state  *)
(* shows all there is to see of it; the sum has the behaviours of each.    *)
(***************************************************************************)
EXTENDS Login, Access, Mfa, PasswordReset, AuditChain

VARIABLE acting  \* the component that acts

IdentityInit ==
    /\ acting \in {"login", "access", "mfa", "reset", "ids"}
    /\ LoginInit /\ AccessInit /\ MfaInit /\ ResetInit /\ Init

Only(part) ==
    /\ acting = part /\ UNCHANGED acting
    /\ part # "login" => UNCHANGED loginVars
    /\ part # "access" => UNCHANGED accessVars
    /\ part # "mfa" => UNCHANGED mfaVars
    /\ part # "reset" => UNCHANGED resetVars
    /\ part # "ids" => UNCHANGED vars

IdentityNext ==
    \/ Only("login") /\ LoginNext
    \/ Only("access") /\ AccessNext
    \/ Only("mfa") /\ MfaNext
    \/ Only("reset") /\ ResetNext
    \/ Only("ids") /\ Next

identityVars == <<acting, loginVars, accessVars, mfaVars, resetVars, vars>>

IdentitySpec == IdentityInit /\ [][IdentityNext]_identityVars

\* The type invariant of the component that acts: among others no challenge counts
\* attempts beyond its limit.
IdentityTypeOK ==
    /\ acting = "login" => LoginTypeOK
    /\ acting = "access" => AccessTypeOK
    /\ acting = "mfa" => MfaTypeOK
    /\ acting = "reset" => ResetTypeOK
    /\ acting = "ids" => TypeOK
=============================================================================
