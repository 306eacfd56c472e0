------------------------------ MODULE MCAccess ------------------------------
(***************************************************************************)
(* An instance of Access: two administrators with the two administration   *)
(* permissions.                                                            *)
(***************************************************************************)
EXTENDS Access

TwoAdmins == {<<"u1", "admin">>, <<"u2", "admin">>}
AdminGrants == {<<"admin", "mg">>, <<"admin", "mu">>}
=============================================================================
