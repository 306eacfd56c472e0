---------------------------- MODULE MCIdentity ----------------------------
(***************************************************************************)
(* An instance of Identity for TLC.                                        *)
(***************************************************************************)
EXTENDS Identity, MCAccess, MCAuditChain

\* Requests are interchangeable.
IdentitySymmetry == Permutations(LoginRequest)
=============================================================================
