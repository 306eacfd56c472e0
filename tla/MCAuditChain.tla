---------------------------- MODULE MCAuditChain ----------------------------
(***************************************************************************)
(* Instances of AuditChain for TLC.                                        *)
(***************************************************************************)
EXTENDS AuditChain, TLC

CONSTANTS p1, p2

\* Every transaction in one process.
OneProcess == [w \in Writer |-> p1]

\* One transaction runs in the second process, the others in the first.
TwoProcesses ==
    LET other == CHOOSE w \in Writer : TRUE
    IN  [w \in Writer |-> IF w = other THEN p2 ELSE p1]

Symmetry == Permutations(Writer)
=============================================================================
