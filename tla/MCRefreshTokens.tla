-------------------------- MODULE MCRefreshTokens --------------------------
(***************************************************************************)
(* Instances of RefreshTokens for TLC.                                     *)
(***************************************************************************)
EXTENDS RefreshTokens, TLC

\* Tokens and requests are interchangeable, and so are users and families.
Symmetry ==
    Permutations(Token) \cup Permutations(Request)
        \cup Permutations(User) \cup Permutations(Family)
=============================================================================
