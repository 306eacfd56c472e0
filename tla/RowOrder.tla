------------------------------ MODULE RowOrder ------------------------------
(***************************************************************************)
(* The order of a listing.  A row's number is its creation order, and the  *)
(* place of a row is given by how many newer ones there are.               *)
(***************************************************************************)
EXTENDS Integers, FiniteSets

Newer(S, n) == {m \in S : m > n}

\* ORDER BY created_at DESC.
NewestFirst(S) ==
    [i \in 1..Cardinality(S) |-> CHOOSE n \in S : Cardinality(Newer(S, n)) = i - 1]

\* The same rows the other way round.
OldestFirst(S) == [i \in 1..Cardinality(S) |-> NewestFirst(S)[Cardinality(S) + 1 - i]]
=============================================================================
