--------------------------- MODULE RowOrderProofs ---------------------------
(***************************************************************************)
(* Proofs about the order of listings, for any finite set of rows.         *)
(***************************************************************************)
EXTENDS RowOrder, Sequences, TLAPS, FiniteSetTheorems, FunctionTheorems

\* Rows have distinct ranks, so that every place is taken by one row.
LEMMA RankDrops ==
    ASSUME NEW S, S \subseteq Nat, IsFiniteSet(S), NEW m \in S, NEW n \in S, m < n
    PROVE  Cardinality(Newer(S, n)) < Cardinality(Newer(S, m))
<1>1. Newer(S, n) \in SUBSET Newer(S, m) /\ n \in Newer(S, m) /\ n \notin Newer(S, n)
  <2>1. m \in Nat /\ n \in Nat /\ ~(n > n)
      OBVIOUS
  <2>2. \A k \in S : k > n => k > m
      BY <2>1
  <2> QED
      BY <2>1, <2>2 DEF Newer
<1>2. IsFiniteSet(Newer(S, m))
    BY FS_Subset DEF Newer
<1>3. IsFiniteSet(Newer(S, n)) /\ Cardinality(Newer(S, n)) <= Cardinality(Newer(S, m))
    BY <1>1, <1>2, FS_Subset
<1>4. Cardinality(Newer(S, n)) # Cardinality(Newer(S, m))
    BY <1>1, <1>2, FS_Subset
<1>5. Cardinality(Newer(S, n)) \in Nat /\ Cardinality(Newer(S, m)) \in Nat
    BY <1>2, <1>3, FS_CardinalityType
<1> QED
    BY <1>3, <1>4, <1>5

LEMMA RankBound ==
    ASSUME NEW S, S \subseteq Nat, IsFiniteSet(S), NEW n \in S
    PROVE  Cardinality(Newer(S, n)) \in 0..(Cardinality(S) - 1)
<1>1. Newer(S, n) \in SUBSET S /\ n \notin Newer(S, n)
    BY DEF Newer
<1>2. IsFiniteSet(Newer(S, n)) /\ Cardinality(Newer(S, n)) <= Cardinality(S)
    BY <1>1, FS_Subset
<1>3. Cardinality(Newer(S, n)) # Cardinality(S)
    BY <1>1, FS_Subset
<1>4. Cardinality(Newer(S, n)) \in Nat /\ Cardinality(S) \in Nat
    BY <1>2, FS_CardinalityType
<1> QED
    BY <1>2, <1>3, <1>4

LEMMA RankTaken ==
    ASSUME NEW S, S \subseteq Nat, IsFiniteSet(S), NEW i \in 0..(Cardinality(S) - 1)
    PROVE  \E n \in S : Cardinality(Newer(S, n)) = i
<1>1. PICK f : f = [n \in S |-> Cardinality(Newer(S, n))]
    OBVIOUS
<1>2. PICK T : T = 0..(Cardinality(S) - 1)
    OBVIOUS
<1>3. Cardinality(S) \in Nat
    BY FS_CardinalityType
<1>4. IsFiniteSet(T) /\ Cardinality(T) = Cardinality(S)
    BY <1>2, <1>3, FS_Interval
<1>5. f \in [S -> T]
    BY <1>1, <1>2, RankBound
<1>6. ASSUME NEW m \in S, NEW n \in S, m # n PROVE f[m] # f[n]
  <2>1. m \in Nat /\ n \in Nat /\ f[m] \in Nat /\ f[n] \in Nat
      BY <1>2, <1>5
  <2>4. f[m] = Cardinality(Newer(S, m)) /\ f[n] = Cardinality(Newer(S, n))
      BY <1>1
  <2>2. CASE m < n
    <3>1. Cardinality(Newer(S, n)) < Cardinality(Newer(S, m))
        BY <2>2, RankDrops
    <3> QED
        BY <2>1, <2>4, <3>1
  <2>3. CASE n < m
    <3>1. Cardinality(Newer(S, m)) < Cardinality(Newer(S, n))
        BY <2>3, RankDrops
    <3> QED
        BY <2>1, <2>4, <3>1
  <2> QED
      BY <1>6, <2>1, <2>2, <2>3
<1>7. f \in Injection(S, T)
    BY <1>5, <1>6 DEF Injection, IsInjective
<1>8. f \in Surjection(S, T)
    BY <1>4, <1>7, FS_Injection
<1>9. \E n \in S : f[n] = i
    BY <1>2, <1>8 DEF Surjection
<1> QED
    BY <1>1, <1>9

\* A listing has every row once.
LEMMA NewestFirstListing ==
    ASSUME NEW S, S \subseteq Nat, IsFiniteSet(S)
    PROVE  /\ NewestFirst(S) \in Seq(S) /\ Len(NewestFirst(S)) = Cardinality(S)
           /\ Cardinality(S) \in Nat
           /\ \A i, k \in 1..Cardinality(S) : NewestFirst(S)[i] = NewestFirst(S)[k] => i = k
<1>1. PICK c \in Nat : c = Cardinality(S)
    BY FS_CardinalityType
<1>2. PICK s : s = NewestFirst(S)
    OBVIOUS
<1>3. s = [i \in 1..c |-> CHOOSE n \in S : Cardinality(Newer(S, n)) = i - 1]
    BY <1>1, <1>2 DEF NewestFirst
<1>4. ASSUME NEW i \in 1..c PROVE s[i] \in S /\ Cardinality(Newer(S, s[i])) = i - 1
  <2>1. i - 1 \in 0..(c - 1) /\ c = Cardinality(S)
      BY <1>1
  <2>2. \E n \in S : Cardinality(Newer(S, n)) = i - 1
      BY <2>1, RankTaken
  <2>3. s[i] = CHOOSE n \in S : Cardinality(Newer(S, n)) = i - 1
      BY <1>3
  <2> QED
      BY <2>2, <2>3
<1>5. s \in [1..c -> S]
    BY <1>3, <1>4
<1>6. s \in Seq(S) /\ Len(s) = c
    BY <1>1, <1>5
<1>7. \A i, k \in 1..c : s[i] = s[k] => i = k
    BY <1>4
<1> QED
    BY <1>1, <1>2, <1>6, <1>7
=============================================================================
