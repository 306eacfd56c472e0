------------------------------ MODULE MCOffice ------------------------------
(***************************************************************************)
(* An instance of the back office for TLC.                                 *)
(***************************************************************************)
EXTENDS BackOffice, MCAuditChain

Edit(email, kyc, status) == [email |-> email, kyc |-> kyc, status |-> status]

\* A new address with a review and a re-opening, a decision with a closing: of two of
\* them that overlap, the later one can find the customer closed by the other.
Edits == {Edit("a", "IN_REVIEW", "ACTIVE"), Edit(Keep, "REJECTED", "CLOSED")}

\* Two connections in the pool of each instance.
Pools == [p \in PruneCall |-> {<<p, 1>>, <<p, 2>>}]

\* Requests and ids are interchangeable, and so is what has their names here: instances
\* and their scheduler runs, recipients and operators.
OfficeSymmetry ==
    Permutations(OfficeCall) \cup Permutations(Customer) \cup Permutations(NationalId)
=============================================================================
