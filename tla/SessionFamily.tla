--------------------------- MODULE SessionFamily ---------------------------
(***************************************************************************)
(* What the refresh-token table promises about session families: a family  *)
(* is opened once with a token nobody has seen, while it is live exactly   *)
(* one token refreshes it, a refresh swaps that token for a new one, and a *)
(* family that has ended never comes back.                                 *)
(***************************************************************************)
CONSTANTS Family, Token

VARIABLES
    current,    \* family -> the tokens that refresh it
    opened,     \* the families that have been opened
    issued      \* every token ever handed out

familyVars == <<current, opened, issued>>

Live(s) == \E u \in Token : current[s] = {u}

FamilyInit ==
    /\ current = [s \in Family |-> {}]
    /\ opened = {}
    /\ issued = {}

Open(s, t) ==
    /\ s \notin opened
    /\ t \notin issued
    /\ current' = [current EXCEPT ![s] = {t}]
    /\ opened' = opened \cup {s}
    /\ issued' = issued \cup {t}

Swap(s, t) ==
    /\ Live(s)
    /\ t \notin issued
    /\ current' = [current EXCEPT ![s] = {t}]
    /\ issued' = issued \cup {t}
    /\ UNCHANGED opened

End(S) ==
    /\ \A s \in S : Live(s)
    /\ current' = [s \in Family |-> IF s \in S THEN {} ELSE current[s]]
    /\ UNCHANGED <<opened, issued>>

FamilyNext ==
    \/ \E s \in Family, t \in Token : Open(s, t) \/ Swap(s, t)
    \/ \E S \in SUBSET Family : End(S)

FamilySpec == FamilyInit /\ [][FamilyNext]_familyVars
=============================================================================
