---------------------------- MODULE LedgerProofs ----------------------------
(***************************************************************************)
(* The promise of Ledger.tla for every set of keys, wallets and balances:  *)
(* one key posts at most once, a transaction is reversed at most once, and *)
(* no customer wallet is overdrawn.                                        *)
(***************************************************************************)
EXTENDS Ledger, TLAPS, SequenceTheorems, WellFoundedInduction, FiniteSetTheorems

-----------------------------------------------------------------------------
\* Every nonempty set of naturals has a least element.
LEMMA LeastNat ==
  ASSUME NEW T, T \subseteq Nat, T # {}
  PROVE  \E m \in T : \A n \in T : m <= n
<1> DEFINE R == OpToRel(<, Nat)
<1>1. IsWellFoundedOn(R, Nat)
  BY NatLessThanWellFounded
<1>2. ASSUME NEW x \in Nat, NEW y \in Nat
      PROVE  <<y, x>> \in R <=> y < x
  BY DEF OpToRel
<1> HIDE DEF R
<1>3. PICK x \in T : \A y \in T : ~(<<y, x>> \in R)
  BY <1>1, WFMin
<1>4. ASSUME NEW y \in T
      PROVE  x <= y
  <2>1. x \in Nat /\ y \in Nat
    OBVIOUS
  <2>2. ~(y < x)
    BY <2>1, <1>2, <1>3
  <2> QED
    BY <2>1, <2>2
<1> QED
  BY <1>4

\* A nonempty set of naturals with an upper bound has a greatest element.
LEMMA GreatestNat ==
  ASSUME NEW T, T \subseteq Nat, T # {}, NEW b \in Nat, \A n \in T : n <= b
  PROVE  \E m \in T : \A n \in T : m >= n
<1> DEFINE U == {b - n : n \in T}
<1>0. \A n \in T : b - n \in Nat
  OBVIOUS
<1>1. U \subseteq Nat /\ U # {}
  BY <1>0
<1>2. PICK u \in U : \A v \in U : u <= v
  <2> HIDE DEF U
  <2> QED
    BY <1>1, LeastNat
<1>3. PICK m \in T : u = b - m
  OBVIOUS
<1>4. ASSUME NEW n \in T
      PROVE  m >= n
  <2>1. b - n \in U
    OBVIOUS
  <2>2. b - m <= b - n
    BY <2>1, <1>2, <1>3
  <2> QED
    BY <2>2
<1> QED
  BY <1>4

\* The next entry number of a wallet is a positive natural, at most one more
\* than the number of transactions.
LEMMA NextEntrySeqBound ==
  ASSUME LedgerTypeOK, SeqsBounded, NEW w
  PROVE  NextEntrySeq(w) \in Nat /\ NextEntrySeq(w) <= Len(txs) + 1
<1> DEFINE T == EntrySeqs(w) \cup {0}
<1>1. Len(txs) \in Nat /\ DOMAIN txs = 1 .. Len(txs)
  BY DEF LedgerTypeOK
<1>2. \A i \in DOMAIN txs : txs[i].debitSeq \in Nat /\ txs[i].creditSeq \in Nat
  <2>1. \A i \in DOMAIN txs : txs[i] \in TxRow
    BY <1>1, ElementOfSeq DEF LedgerTypeOK
  <2> QED
    BY <2>1 DEF TxRow
<1>3. T \subseteq Nat /\ T # {} /\ \A n \in T : n <= Len(txs)
  BY <1>1, <1>2 DEF SeqsBounded, EntrySeqs
<1>4. \E m \in T : \A n \in T : m >= n
  <2> HIDE DEF T
  <2> QED
    BY <1>1, <1>3, GreatestNat
<1> DEFINE top == Greatest(T)
<1>5. top \in T
  <2> HIDE DEF T
  <2> QED
    BY <1>4 DEF Greatest
<1>6. NextEntrySeq(w) = top + 1
  BY DEF NextEntrySeq
<1>7. top \in Nat /\ top <= Len(txs)
  <2> HIDE DEF T
  <2> QED
    BY <1>3, <1>5
<1> HIDE DEF top
<1> QED
  BY <1>1, <1>6, <1>7

-----------------------------------------------------------------------------
NewRow(k, pl, dseq, cseq) ==
  [key |-> k, kind |-> pl.kind, debit |-> pl.debit, credit |-> pl.credit,
   amount |-> pl.amount, currency |-> pl.currency,
   reversalOf |-> pl.reversalOf, status |-> "POSTED",
   debitSeq |-> dseq, creditSeq |-> cseq]

Marked(i, t) ==
  IF i = t THEN [txs[i] EXCEPT !.status = "REVERSED"] ELSE txs[i]

\* What the rows a posting writes look like: the old ones, one of them possibly
\* marked REVERSED, and a new last one.
LEMMA RecordFacts ==
  ASSUME LedgerTypeOK,
         NEW k \in Key, NEW pl \in Plan, pl.debit \in Wallet, pl.credit \in Wallet,
         NEW d \in Nat, NEW c \in Nat, Record(k, pl, d, c)
  PROVE  /\ txs' \in Seq(TxRow)
         /\ Len(txs) \in Nat
         /\ Len(txs') = Len(txs) + 1
         /\ DOMAIN txs = 1 .. Len(txs)
         /\ DOMAIN txs' = 1 .. (Len(txs) + 1)
         /\ \A i \in 1 .. Len(txs) : txs[i] \in TxRow /\ txs'[i] = Marked(i, pl.reversalOf)
         /\ txs'[Len(txs) + 1] = NewRow(k, pl, d, c)
<1> DEFINE old == [i \in DOMAIN txs |-> Marked(i, pl.reversalOf)]
<1>1. txs \in Seq(TxRow) /\ Len(txs) \in Nat /\ DOMAIN txs = 1 .. Len(txs)
  BY LenProperties DEF LedgerTypeOK
<1>2. \A i \in DOMAIN txs : txs[i] \in TxRow
  BY <1>1, ElementOfSeq
<1>3. \A i \in DOMAIN txs : Marked(i, pl.reversalOf) \in TxRow
  BY <1>2 DEF Marked, TxRow
<1>4. old \in [1 .. Len(txs) -> TxRow]
  BY <1>1, <1>3
<1>5. old \in Seq(TxRow) /\ Len(old) = Len(txs) /\ \A i \in 1 .. Len(txs) : old[i] = Marked(i, pl.reversalOf)
  <2>1. \A i \in 1 .. Len(txs) : old[i] = Marked(i, pl.reversalOf)
    BY <1>1
  <2> HIDE DEF old
  <2> QED
    BY <1>1, <1>4, <2>1
<1>6. NewRow(k, pl, d, c) \in TxRow
  BY DEF NewRow, TxRow, Plan
<1>7. txs' = Append(old, NewRow(k, pl, d, c))
  BY DEF Record, NewRow, Marked
<1> HIDE DEF old
<1>8. /\ txs' \in Seq(TxRow)
      /\ Len(txs') = Len(old) + 1
      /\ \A i \in 1 .. Len(old) : txs'[i] = old[i]
      /\ txs'[Len(old) + 1] = NewRow(k, pl, d, c)
  BY <1>5, <1>6, <1>7, AppendProperties
<1>9. DOMAIN txs' = 1 .. Len(txs')
  BY <1>8, LenProperties
<1> QED
  BY <1>1, <1>2, <1>5, <1>8, <1>9

\* The old rows keep everything but, for the reversed one, the status.
LEMMA RecordFields ==
  ASSUME LedgerTypeOK,
         NEW k \in Key, NEW pl \in Plan, pl.debit \in Wallet, pl.credit \in Wallet,
         NEW d \in Nat, NEW c \in Nat, Record(k, pl, d, c)
  PROVE  \A i \in 1 .. Len(txs) :
           /\ txs'[i].key = txs[i].key /\ txs'[i].kind = txs[i].kind
           /\ txs'[i].reversalOf = txs[i].reversalOf
           /\ txs'[i].debit = txs[i].debit /\ txs'[i].credit = txs[i].credit
           /\ txs'[i].amount = txs[i].amount /\ txs'[i].currency = txs[i].currency
           /\ txs'[i].debitSeq = txs[i].debitSeq /\ txs'[i].creditSeq = txs[i].creditSeq
           /\ txs'[i].status = IF i = pl.reversalOf THEN "REVERSED" ELSE txs[i].status
<1> SUFFICES ASSUME NEW i \in 1 .. Len(txs)
             PROVE  /\ txs'[i].key = txs[i].key /\ txs'[i].kind = txs[i].kind
                    /\ txs'[i].reversalOf = txs[i].reversalOf
                    /\ txs'[i].debit = txs[i].debit /\ txs'[i].credit = txs[i].credit
                    /\ txs'[i].amount = txs[i].amount /\ txs'[i].currency = txs[i].currency
                    /\ txs'[i].debitSeq = txs[i].debitSeq
                    /\ txs'[i].creditSeq = txs[i].creditSeq
                    /\ txs'[i].status =
                         IF i = pl.reversalOf THEN "REVERSED" ELSE txs[i].status
  OBVIOUS
<1>1. txs[i] \in TxRow /\ txs'[i] = Marked(i, pl.reversalOf)
  BY RecordFacts
<1>2. CASE i = pl.reversalOf
  <2>1. txs'[i] = [txs[i] EXCEPT !.status = "REVERSED"]
    BY <1>1, <1>2 DEF Marked
  <2> QED
    BY <1>1, <1>2, <2>1 DEF TxRow
<1>3. CASE i # pl.reversalOf
  BY <1>1, <1>3 DEF Marked
<1> QED
  BY <1>2, <1>3

\* A candidate plan is a plan, and its entry numbers are in range.
LEMMA CandidateIsPlan ==
  ASSUME LedgerTypeOK, NEW pl \in CandidatePlan
  PROVE  pl \in Plan /\ pl.debit \in Wallet /\ pl.credit \in Wallet
<1>1. Len(txs) \in Nat
  BY DEF LedgerTypeOK
<1>2. Wallet \subseteq Nat /\ MaxMinor \in Nat
  BY LedgerAssumption
<1>3. 1 .. (2 * MaxMinor) \subseteq Nat \ {0} /\ 0 .. Len(txs) \subseteq Nat
  BY <1>1, <1>2
<1> QED
  BY <1>2, <1>3 DEF CandidatePlan, Plan

-----------------------------------------------------------------------------
\* The parts of the inductive invariant that speak of the rows.
LEMMA RowsStep ==
  ASSUME LedgerInv, NEW k \in Key, NEW pl \in Plan,
         pl.debit \in Wallet, pl.credit \in Wallet, WellFormed(pl),
         KeyUnused(k), pl.reversalOf # NoTx => NotReversed(pl.reversalOf),
         NEW d \in Nat, NEW c \in Nat, d <= Len(txs) + 1, c <= Len(txs) + 1,
         Record(k, pl, d, c)
  PROVE  /\ txs' \in Seq(TxRow)
         /\ SeqsBounded'
         /\ OncePerKey'
         /\ ReverseOnce'
         /\ ReversalMirrors'
<1> DEFINE n == Len(txs)
<1>1. /\ txs' \in Seq(TxRow)
      /\ n \in Nat
      /\ Len(txs') = n + 1
      /\ DOMAIN txs = 1 .. n
      /\ DOMAIN txs' = 1 .. (n + 1)
      /\ \A i \in 1 .. n : txs[i] \in TxRow /\ txs'[i] = Marked(i, pl.reversalOf)
      /\ txs'[n + 1] = NewRow(k, pl, d, c)
  BY RecordFacts DEF LedgerInv
<1>2. \A i \in 1 .. n :
        /\ txs'[i].key = txs[i].key
        /\ txs'[i].reversalOf = txs[i].reversalOf
        /\ txs'[i].debit = txs[i].debit /\ txs'[i].credit = txs[i].credit
        /\ txs'[i].amount = txs[i].amount /\ txs'[i].currency = txs[i].currency
        /\ txs'[i].debitSeq = txs[i].debitSeq /\ txs'[i].creditSeq = txs[i].creditSeq
        /\ txs'[i].status = IF i = pl.reversalOf THEN "REVERSED" ELSE txs[i].status
  BY RecordFields DEF LedgerInv
<1>3. /\ txs'[n + 1].key = k
      /\ txs'[n + 1].reversalOf = pl.reversalOf
      /\ txs'[n + 1].status = "POSTED"
      /\ txs'[n + 1].debitSeq = d /\ txs'[n + 1].creditSeq = c
      /\ txs'[n + 1].debit = pl.debit /\ txs'[n + 1].credit = pl.credit
      /\ txs'[n + 1].amount = pl.amount /\ txs'[n + 1].currency = pl.currency
  BY <1>1 DEF NewRow
<1>4. pl.reversalOf \in 0 .. n
  BY <1>1 DEF WellFormed, Reversible, NoTx
<1>5. SeqsBounded'
  <2>1. \A i \in 1 .. n : /\ txs[i].debitSeq \in Nat /\ txs[i].creditSeq \in Nat
                          /\ txs[i].debitSeq <= n /\ txs[i].creditSeq <= n
    BY <1>1 DEF LedgerInv, SeqsBounded, TxRow
  <2> QED
    BY <1>1, <1>2, <1>3, <2>1 DEF SeqsBounded
<1>6. OncePerKey'
  BY <1>1, <1>2, <1>3 DEF LedgerInv, OncePerKey, KeyUnused
<1>7. ReverseOnce'
  <2>1. \A i, j \in 1 .. (n + 1) :
          txs'[i].reversalOf = txs'[j].reversalOf /\ txs'[i].reversalOf # NoTx => i = j
    <3> SUFFICES ASSUME NEW i \in 1 .. (n + 1), NEW j \in 1 .. (n + 1),
                        txs'[i].reversalOf = txs'[j].reversalOf, txs'[i].reversalOf # NoTx
                 PROVE  i = j
      OBVIOUS
    <3>1. CASE i \in 1 .. n /\ j \in 1 .. n
      <4>1. txs[i].reversalOf = txs[j].reversalOf /\ txs[i].reversalOf # NoTx
        BY <3>1, <1>2
      <4>2. i \in DOMAIN txs /\ j \in DOMAIN txs
        BY <3>1, <1>1
      <4> QED
        BY <4>1, <4>2, <1>1 DEF LedgerInv, ReverseOnce
    <3>2. CASE i = n + 1 /\ j \in 1 .. n
      BY <3>2, <1>1, <1>2, <1>3 DEF NotReversed
    <3>3. CASE i \in 1 .. n /\ j = n + 1
      BY <3>3, <1>1, <1>2, <1>3 DEF NotReversed
    <3> QED
      BY <1>1, <3>1, <3>2, <3>3
  <2>2. \A i \in 1 .. (n + 1) : txs'[i].reversalOf \in 0 .. (i - 1)
    BY <1>1, <1>2, <1>3, <1>4 DEF LedgerInv, ReverseOnce
  <2>3. ASSUME NEW t \in 1 .. n
        PROVE  txs'[t].status = "REVERSED" <=> \E i \in 1 .. (n + 1) : txs'[i].reversalOf = t
    <3>1. CASE t = pl.reversalOf
      BY <3>1, <1>1, <1>2, <1>3
    <3>2. CASE t # pl.reversalOf
      <4>1. txs[t].status = "REVERSED" <=> \E i \in 1 .. n : txs[i].reversalOf = t
        BY <1>1 DEF LedgerInv, ReverseOnce
      <4> QED
        BY <3>2, <4>1, <1>1, <1>2, <1>3
    <3> QED
      BY <3>1, <3>2
  <2>4. txs'[n + 1].status = "REVERSED"
          <=> \E i \in 1 .. (n + 1) : txs'[i].reversalOf = n + 1
    BY <1>1, <1>3, <2>2
  <2>5. \A t \in 1 .. (n + 1) :
          txs'[t].status = "REVERSED" <=> \E i \in 1 .. (n + 1) : txs'[i].reversalOf = t
    BY <1>1, <2>3, <2>4
  <2> QED
    BY <1>1, <2>1, <2>2, <2>5 DEF ReverseOnce
<1>8. ReversalMirrors'
  <2>1. ASSUME NEW i \in 1 .. n, txs[i].reversalOf # NoTx
        PROVE  LET o == txs'[txs'[i].reversalOf] IN
                 /\ txs'[i].debit = o.credit /\ txs'[i].credit = o.debit
                 /\ txs'[i].amount = o.amount /\ txs'[i].currency = o.currency
    <3>1. txs[i].reversalOf \in 1 .. n
      BY <1>1, <2>1 DEF LedgerInv, ReverseOnce, NoTx
    <3> QED
      BY <1>1, <1>2, <2>1, <3>1 DEF LedgerInv, ReversalMirrors
  <2>2. ASSUME pl.reversalOf # NoTx
        PROVE  LET o == txs'[pl.reversalOf] IN
                 /\ pl.debit = o.credit /\ pl.credit = o.debit
                 /\ pl.amount = o.amount /\ pl.currency = o.currency
    <3>1. pl.reversalOf \in 1 .. n
      BY <1>4, <2>2 DEF NoTx
    <3>2. pl = Mirror(pl.reversalOf)
      BY <2>2 DEF WellFormed
    <3> QED
      BY <1>2, <3>1, <3>2 DEF Mirror
  <2> QED
    BY <1>1, <1>2, <1>3, <2>1, <2>2 DEF ReversalMirrors
<1> QED
  BY <1>1, <1>5, <1>6, <1>7, <1>8

\* The balances: they stay in range, and only a covered debit touches a customer.
LEMMA BalanceStep ==
  ASSUME LedgerInv, NEW pl \in Plan, WellFormed(pl),
         pl.debit \in Wallet, pl.credit \in Wallet, pl.debit # pl.credit,
         SufficientBalance(pl), InRange(pl), ApplyBalanceDeltas(pl)
  PROVE  avail' \in [Wallet -> Minor] /\ NoOverdraft'
<1>1. MaxMinor \in Nat /\ pl.amount \in Nat \ {0}
  BY LedgerAssumption DEF Plan
<1>2. avail \in [Wallet -> Minor] /\ \A w \in Wallet : avail[w] \in Int
  BY <1>1 DEF LedgerInv, LedgerTypeOK, Minor
<1>3. \A w \in Wallet :
        avail'[w] = IF w = pl.debit THEN avail[w] - pl.amount
                    ELSE IF w = pl.credit THEN avail[w] + pl.amount
                    ELSE avail[w]
  BY <1>2 DEF ApplyBalanceDeltas
<1>4. \A w \in Wallet : avail'[w] \in Minor
  BY <1>1, <1>2, <1>3 DEF InRange, Minor
<1>5. avail' \in [Wallet -> Minor]
  <2>1. DOMAIN avail' = Wallet /\ avail' = [w \in Wallet |-> avail'[w]]
    BY <1>2 DEF ApplyBalanceDeltas
  <2> QED
    BY <1>4, <2>1
<1>6. ASSUME NEW w \in Customer
      PROVE  avail'[w] >= 0
  <2>1. w \in Wallet /\ avail[w] >= 0
    BY DEF Customer, LedgerInv, NoOverdraft
  <2>2. w = pl.debit => avail[w] >= pl.amount
    BY DEF WellFormed, SufficientBalance
  <2> QED
    BY <1>1, <1>2, <1>3, <2>1, <2>2
<1> QED
  BY <1>5, <1>6 DEF NoOverdraft

\* A movement preserves the inductive invariant.
LEMMA PostOnceInv ==
  ASSUME LedgerInv, NEW k \in Key, NEW pl \in CandidatePlan, PostOnce(k, pl)
  PROVE  LedgerInv'
<1>1. pl \in Plan /\ pl.debit \in Wallet /\ pl.credit \in Wallet
  BY CandidateIsPlan DEF LedgerInv
<1> DEFINE d == NextEntrySeq(pl.debit)
           c == NextEntrySeq(pl.credit)
<1>2. d \in Nat /\ d <= Len(txs) + 1 /\ c \in Nat /\ c <= Len(txs) + 1
  BY NextEntrySeqBound DEF LedgerInv
<1>3. Record(k, pl, d, c)
  BY DEF PostOnce
<1> HIDE DEF d, c
<1>4. txs' \in Seq(TxRow) /\ SeqsBounded' /\ OncePerKey' /\ ReverseOnce' /\ ReversalMirrors'
  BY <1>1, <1>2, <1>3, RowsStep DEF PostOnce
<1>5. avail' \in [Wallet -> Minor] /\ NoOverdraft'
  BY <1>1, BalanceStep DEF PostOnce
<1> QED
  BY <1>4, <1>5 DEF LedgerInv, LedgerTypeOK

\* The promise, for every instance: one movement per Idempotency-Key, one
\* reversal per transaction, no customer overdraft, exact reversals.
THEOREM LedgerSafe == LedgerSpec => []LedgerInv
<1>1. LedgerInit => LedgerInv
  <2> SUFFICES ASSUME LedgerInit PROVE LedgerInv
    OBVIOUS
  <2>1. txs = <<>> /\ avail = Opening /\ DOMAIN txs = {} /\ txs \in Seq(TxRow)
    BY DEF LedgerInit
  <2>2. avail \in [Wallet -> Minor] /\ NoOverdraft
    BY <2>1, LedgerAssumption DEF NoOverdraft
  <2> QED
    BY <2>1, <2>2 DEF LedgerInv, LedgerTypeOK, SeqsBounded, OncePerKey, ReverseOnce, ReversalMirrors
<1>2. LedgerInv /\ [LedgerNext]_ledgerVars => LedgerInv'
  <2> SUFFICES ASSUME LedgerInv, [LedgerNext]_ledgerVars PROVE LedgerInv'
    OBVIOUS
  <2>1. CASE LedgerNext
    BY <2>1, PostOnceInv DEF LedgerNext
  <2>2. CASE UNCHANGED ledgerVars
    BY <2>2 DEF ledgerVars, LedgerInv, LedgerTypeOK, SeqsBounded, OncePerKey, ReverseOnce,
                ReversalMirrors, NoOverdraft
  <2> QED
    BY <2>1, <2>2
<1> QED
  BY <1>1, <1>2, PTL DEF LedgerSpec

-----------------------------------------------------------------------------
(* The books: entry numbers without duplicate or gap, and balances that      *)
(* follow from the entries.                                                  *)

\* The transactions with an entry for wallet w, and the number of that entry.
Mine(w) == {i \in DOMAIN txs : w \in {txs[i].debit, txs[i].credit}}
SeqOf(i, w) == IF txs[i].debit = w THEN txs[i].debitSeq ELSE txs[i].creditSeq
UpTo(i, w) == {j \in Mine(w) : j <= i}

TwoLegs == \A i \in DOMAIN txs : txs[i].debit # txs[i].credit

\* f[m] is what the first m transactions moved into wallet w.
NetOf(f, w) ==
  f = [m \in 0 .. Len(txs) |-> IF m = 0 THEN 0 ELSE f[m - 1] + Movement(m, w)]

Derivable ==
  \A w \in Wallet : \E f \in [0 .. Len(txs) -> Int] :
    NetOf(f, w) /\ avail[w] = Opening[w] + f[Len(txs)]

\* The wallets' entries are finite in number.
LEMMA MineFinite ==
  ASSUME LedgerTypeOK, NEW w
  PROVE  /\ IsFiniteSet(Mine(w)) /\ Cardinality(Mine(w)) \in Nat
         /\ \A i : IsFiniteSet(UpTo(i, w)) /\ Cardinality(UpTo(i, w)) \in Nat
                   /\ Cardinality(UpTo(i, w)) <= Cardinality(Mine(w))
<1>1. Len(txs) \in Nat /\ DOMAIN txs = 1 .. Len(txs)
  BY LenProperties DEF LedgerTypeOK
<1>2. IsFiniteSet(1 .. Len(txs)) /\ Mine(w) \in SUBSET (1 .. Len(txs))
  <2>1. 1 \in Int /\ Len(txs) \in Int
    BY <1>1
  <2>2. IsFiniteSet(1 .. Len(txs))
    BY <2>1, FS_Interval
  <2> QED
    BY <1>1, <2>2 DEF Mine
<1>3. IsFiniteSet(Mine(w)) /\ Cardinality(Mine(w)) \in Nat
  BY <1>2, FS_Subset, FS_CardinalityType
<1>4. ASSUME NEW i PROVE /\ IsFiniteSet(UpTo(i, w)) /\ Cardinality(UpTo(i, w)) \in Nat
                         /\ Cardinality(UpTo(i, w)) <= Cardinality(Mine(w))
  <2>1. UpTo(i, w) \in SUBSET Mine(w)
    BY DEF UpTo
  <2> QED
    BY <1>3, <2>1, FS_Subset, FS_CardinalityType
<1> QED
  BY <1>3, <1>4

\* SELECT COALESCE(MAX(entry_seq), 0) + 1 is one more than the number of entries.
LEMMA NextIsCount ==
  ASSUME LedgerTypeOK, TwoLegs, EntrySeqsInOrder, NEW w \in Wallet
  PROVE  NextEntrySeq(w) = Cardinality(Mine(w)) + 1
<1> DEFINE T == EntrySeqs(w) \cup {0}
           c == Cardinality(Mine(w))
<1>1. Len(txs) \in Nat /\ DOMAIN txs = 1 .. Len(txs) /\ Mine(w) \subseteq 1 .. Len(txs)
  BY LenProperties DEF LedgerTypeOK, Mine
<1>2. \A i \in Mine(w) : SeqOf(i, w) = Cardinality(UpTo(i, w))
  BY DEF EntrySeqsInOrder, Mine, SeqOf, UpTo
<1>3. EntrySeqs(w) = {SeqOf(i, w) : i \in Mine(w)}
  BY DEF EntrySeqs, Mine, SeqOf, TwoLegs
<1>4. c \in Nat /\ \A i \in Mine(w) : SeqOf(i, w) \in Nat /\ SeqOf(i, w) <= c
  BY <1>2, MineFinite
<1>5. c \in T
  <2>1. CASE Mine(w) = {}
    BY <2>1, FS_EmptySet
  <2>2. CASE Mine(w) # {}
    <3>1. PICK i \in Mine(w) : \A j \in Mine(w) : i >= j
      <4>1. Mine(w) \subseteq Nat /\ \A j \in Mine(w) : j <= Len(txs)
        BY <1>1
      <4> QED
        BY <1>1, <2>2, <4>1, GreatestNat
    <3>2. UpTo(i, w) = Mine(w)
      <4>1. \A j \in Mine(w) : j <= i
        BY <1>1, <3>1
      <4> QED
        BY <4>1 DEF UpTo
    <3> QED
      BY <1>2, <1>3, <3>2
  <2> QED
    BY <2>1, <2>2
<1>6. \A m \in T : m \in Nat /\ m <= c
  BY <1>3, <1>4
<1>7. Greatest(T) = c
  <2> HIDE DEF T, c
  <2>1. \A n \in T : c >= n
    BY <1>4, <1>6
  <2>2. Greatest(T) \in T /\ \A n \in T : Greatest(T) >= n
    BY <1>5, <2>1 DEF Greatest
  <2>3. PICK g \in T : g = Greatest(T)
    BY <2>2
  <2>4. g \in Nat /\ g <= c /\ g >= c
    BY <1>5, <1>6, <2>2, <2>3
  <2> QED
    BY <1>4, <2>3, <2>4
<1> QED
  BY <1>7 DEF NextEntrySeq

\* A movement numbers its two entries next in line.
LEMMA SeqsStep ==
  ASSUME LedgerInv, TwoLegs, EntrySeqsInOrder, NEW k \in Key, NEW pl \in Plan,
         pl.debit \in Wallet, pl.credit \in Wallet, pl.debit # pl.credit,
         Record(k, pl, NextEntrySeq(pl.debit), NextEntrySeq(pl.credit))
  PROVE  TwoLegs' /\ EntrySeqsInOrder'
<1> DEFINE n == Len(txs)
           d == NextEntrySeq(pl.debit)
           c == NextEntrySeq(pl.credit)
<1>0. LedgerTypeOK /\ d \in Nat /\ c \in Nat
  BY NextEntrySeqBound DEF LedgerInv
<1>1. /\ n \in Nat /\ DOMAIN txs = 1 .. n /\ DOMAIN txs' = 1 .. (n + 1)
      /\ txs'[n + 1] = NewRow(k, pl, d, c)
  <2> HIDE DEF d, c
  <2>1. Record(k, pl, d, c)
    BY DEF d, c
  <2> QED
    BY <1>0, <2>1, RecordFacts
<1>2. \A i \in 1 .. n :
        /\ txs'[i].debit = txs[i].debit /\ txs'[i].credit = txs[i].credit
        /\ txs'[i].debitSeq = txs[i].debitSeq /\ txs'[i].creditSeq = txs[i].creditSeq
  <2> HIDE DEF d, c
  <2>1. Record(k, pl, d, c)
    BY DEF d, c
  <2> QED
    BY <1>0, <2>1, RecordFields
<1>3. /\ txs'[n + 1].debit = pl.debit /\ txs'[n + 1].credit = pl.credit
      /\ txs'[n + 1].debitSeq = d /\ txs'[n + 1].creditSeq = c
  BY <1>1 DEF NewRow
<1> HIDE DEF n, d, c
<1>4. TwoLegs'
  BY <1>1, <1>2, <1>3 DEF TwoLegs
<1>5. ASSUME NEW w \in Wallet, NEW i \in Mine(w)'
      PROVE  SeqOf(i, w)' = Cardinality(UpTo(i, w)')
  <2>1. /\ Mine(w) \subseteq 1 .. n
        /\ \A j \in 1 .. n : j \in Mine(w)' <=> j \in Mine(w)
        /\ n + 1 \in Mine(w)' <=> w \in {pl.debit, pl.credit}
        /\ Mine(w)' \subseteq 1 .. (n + 1)
    BY <1>1, <1>2, <1>3 DEF Mine
  <2>2. CASE i \in 1 .. n
    <3>1. i \in Mine(w) /\ SeqOf(i, w)' = SeqOf(i, w)
      BY <1>2, <2>1, <2>2 DEF SeqOf
    <3>2. UpTo(i, w)' = UpTo(i, w)
      <4>1. \A j \in Mine(w)' : j <= i => j \in 1 .. n
        BY <1>1, <2>1, <2>2
      <4> QED
        BY <2>1, <4>1 DEF UpTo
    <3>3. SeqOf(i, w) = Cardinality(UpTo(i, w))
      BY <3>1 DEF EntrySeqsInOrder, Mine, SeqOf, UpTo
    <3> QED
      BY <3>1, <3>2, <3>3
  <2>3. CASE i = n + 1
    <3>1. w \in {pl.debit, pl.credit}
      BY <2>1, <2>3
    <3>2. SeqOf(i, w)' = NextEntrySeq(w)
      BY <1>3, <2>3, <3>1 DEF SeqOf, d, c
    <3>3. UpTo(i, w)' = Mine(w) \cup {n + 1}
      <4>1. \A j \in 1 .. (n + 1) : j <= n + 1
        BY <1>1
      <4>2. UpTo(i, w)' = Mine(w)'
        BY <2>1, <2>3, <4>1 DEF UpTo
      <4>3. Mine(w)' = Mine(w) \cup {n + 1}
        BY <1>1, <2>1, <3>1
      <4> QED
        BY <4>2, <4>3
    <3>4. n + 1 \notin Mine(w) /\ IsFiniteSet(Mine(w))
      BY <1>0, <1>1, <2>1, MineFinite
    <3>5. Cardinality(Mine(w) \cup {n + 1}) = Cardinality(Mine(w)) + 1
      BY <3>4, FS_AddElement
    <3> QED
      BY <1>0, <3>2, <3>3, <3>5, NextIsCount
  <2> QED
    BY <1>1, <2>1, <2>2, <2>3
<1>6. EntrySeqsInOrder'
  BY <1>5 DEF EntrySeqsInOrder, Mine, SeqOf, UpTo
<1> QED
  BY <1>4, <1>6

\* A ledger has one way to be summed up.
LEMMA NetUnique ==
  ASSUME LedgerTypeOK, NEW w, NEW f, NEW g, NetOf(f, w), NetOf(g, w)
  PROVE  f = g
<1> DEFINE n == Len(txs)
           D == {m \in 0 .. n : f[m] # g[m]}
<1>1. n \in Nat
  BY LenProperties DEF LedgerTypeOK
<1>2. /\ \A m \in 0 .. n : f[m] = IF m = 0 THEN 0 ELSE f[m - 1] + Movement(m, w)
      /\ \A m \in 0 .. n : g[m] = IF m = 0 THEN 0 ELSE g[m - 1] + Movement(m, w)
  BY DEF NetOf
<1>3. f = [m \in 0 .. n |-> f[m]] /\ g = [m \in 0 .. n |-> g[m]]
  BY DEF NetOf
<1>4. D = {}
  <2> SUFFICES ASSUME D # {} PROVE FALSE
    OBVIOUS
  <2>1. D \subseteq Nat
    BY <1>1
  <2>2. PICK m \in D : \A j \in D : m <= j
    <3> HIDE DEF D
    <3> QED
      BY <2>1, LeastNat
  <2>3. m \in 0 .. n /\ f[m] # g[m]
    OBVIOUS
  <2>4. CASE m = 0
    BY <1>2, <2>3, <2>4
  <2>5. CASE m # 0
    <3>1. m - 1 \in 0 .. n /\ ~(m <= m - 1)
      BY <1>1, <2>3, <2>5
    <3>2. m - 1 \notin D
      BY <2>2, <3>1
    <3>3. f[m - 1] = g[m - 1]
      BY <3>1, <3>2
    <3> QED
      BY <1>2, <2>3, <2>5, <3>3
  <2> QED
    BY <2>4, <2>5
<1>5. \A m \in 0 .. n : f[m] = g[m]
  BY <1>4
<1> HIDE DEF n, D
<1> QED
  BY <1>3, <1>5

\* Derivable balances reconcile.
LEMMA DerivableReconciles ==
  ASSUME LedgerTypeOK, Derivable
  PROVE  BalanceReconciles
<1> SUFFICES ASSUME NEW w \in Wallet
             PROVE  avail[w] = Opening[w] + (CHOOSE f : NetOf(f, w))[Len(txs)]
  BY DEF BalanceReconciles, NetOf
<1>1. PICK f \in [0 .. Len(txs) -> Int] : NetOf(f, w) /\ avail[w] = Opening[w] + f[Len(txs)]
  BY DEF Derivable
<1>2. NetOf((CHOOSE g : NetOf(g, w)), w)
  BY <1>1
<1>3. (CHOOSE g : NetOf(g, w)) = f
  BY <1>1, <1>2, NetUnique
<1> QED
  BY <1>1, <1>3

\* A movement adds its amount to the balance and to the sum of the entries.
LEMMA DerivableStep ==
  ASSUME LedgerInv, Derivable, NEW k \in Key, NEW pl \in Plan, NEW d \in Nat, NEW c \in Nat,
         pl.debit \in Wallet, pl.credit \in Wallet, pl.debit # pl.credit,
         Record(k, pl, d, c), ApplyBalanceDeltas(pl)
  PROVE  Derivable'
<1> PICK n : n = Len(txs)
  OBVIOUS
<1>0. LedgerTypeOK /\ avail \in [Wallet -> Minor] /\ MaxMinor \in Nat /\ pl.amount \in Nat
  BY LedgerAssumption DEF LedgerInv, LedgerTypeOK, Plan
<1>1. /\ n \in Nat /\ Len(txs') = n + 1 /\ txs'[n + 1] = NewRow(k, pl, d, c)
      /\ \A i \in 1 .. n : txs[i] \in TxRow
  BY <1>0, RecordFacts
<1>2. \A i \in 1 .. n : /\ txs'[i].debit = txs[i].debit /\ txs'[i].credit = txs[i].credit
                        /\ txs'[i].amount = txs[i].amount
  BY <1>0, RecordFields
<1>3. /\ txs'[n + 1].debit = pl.debit /\ txs'[n + 1].credit = pl.credit
      /\ txs'[n + 1].amount = pl.amount
  BY <1>1 DEF NewRow
<1> SUFFICES ASSUME NEW w \in Wallet
             PROVE  \E g \in [0 .. Len(txs') -> Int] :
                      NetOf(g, w)' /\ avail'[w] = Opening[w] + g[Len(txs')]
  BY DEF Derivable
<1>4. PICK f \in [0 .. n -> Int] : NetOf(f, w) /\ avail[w] = Opening[w] + f[n]
  BY DEF Derivable
<1>5. \A i \in 1 .. n : Movement(i, w)' = Movement(i, w)
  BY <1>2 DEF Movement
<1> DEFINE last == CASE pl.credit = w -> pl.amount [] pl.debit = w -> -pl.amount [] OTHER -> 0
<1>6. Movement(n + 1, w)' = last /\ last \in Int
  BY <1>0, <1>3 DEF Movement
<1>7. avail'[w] = avail[w] + last /\ avail[w] \in Int
  BY <1>0 DEF ApplyBalanceDeltas, Minor
<1> DEFINE g == [m \in 0 .. (n + 1) |-> IF m = n + 1 THEN f[n] + last ELSE f[m]]
<1> HIDE DEF last
<1>8. g \in [0 .. (n + 1) -> Int] /\ g[n + 1] = f[n] + last /\ f[n] \in Int
  BY <1>1, <1>4, <1>6
<1>9. \A m \in 0 .. n : f[m] = IF m = 0 THEN 0 ELSE f[m - 1] + Movement(m, w)
  BY <1>4 DEF NetOf
<1>10. ASSUME NEW m \in 0 .. (n + 1)
       PROVE  g[m] = IF m = 0 THEN 0 ELSE g[m - 1] + Movement(m, w)'
  <2>1. CASE m = 0
    BY <1>1, <1>9, <2>1
  <2>2. CASE m \in 1 .. n
    <3>1. g[m] = f[m] /\ g[m - 1] = f[m - 1]
      BY <1>1, <2>2
    <3>2. f[m] = f[m - 1] + Movement(m, w)
      BY <1>1, <1>9, <2>2
    <3> QED
      BY <1>5, <2>2, <3>1, <3>2
  <2>3. CASE m = n + 1
    <3>1. g[m - 1] = f[n] /\ m # 0
      BY <1>1, <2>3
    <3> QED
      BY <1>6, <1>8, <2>3, <3>1
  <2> QED
    BY <1>1, <2>1, <2>2, <2>3
<1>11. NetOf(g, w)'
  <2> DEFINE h == [m \in 0 .. (n + 1) |->
                     IF m = 0 THEN 0 ELSE g[m - 1] + Movement(m, w)']
  <2>1. \A m \in 0 .. (n + 1) : g[m] = h[m]
    BY <1>10
  <2>2. DOMAIN g = 0 .. (n + 1) /\ DOMAIN h = 0 .. (n + 1)
    OBVIOUS
  <2>3. g = h
    BY <2>1, <2>2
  <2> HIDE DEF g
  <2> QED
    BY <1>1, <2>3 DEF NetOf
<1>12. avail'[w] = Opening[w] + g[n + 1]
  <2>1. Opening[w] \in Int
    BY <1>0, LedgerAssumption DEF Minor
  <2> HIDE DEF g
  <2> QED
    BY <1>4, <1>6, <1>7, <1>8, <2>1
<1> HIDE DEF g
<1> QED
  BY <1>1, <1>8, <1>11, <1>12

\* The books balance after every movement: each wallet's balance is its opening
\* balance plus its entries, and the entries are numbered without duplicate or
\* gap, for any wallets and any history.
THEOREM BooksAlwaysBalance == LedgerSpec => []BooksBalance
<1>1. LedgerInit => TwoLegs /\ EntrySeqsInOrder /\ Derivable
  <2> SUFFICES ASSUME LedgerInit PROVE TwoLegs /\ EntrySeqsInOrder /\ Derivable
    OBVIOUS
  <2>1. txs = <<>> /\ DOMAIN txs = {} /\ Len(txs) = 0 /\ avail = Opening
    BY DEF LedgerInit
  <2>2. TwoLegs /\ EntrySeqsInOrder
    BY <2>1 DEF TwoLegs, EntrySeqsInOrder
  <2>3. ASSUME NEW w \in Wallet
        PROVE  \E f \in [0 .. Len(txs) -> Int] :
                 NetOf(f, w) /\ avail[w] = Opening[w] + f[Len(txs)]
    <3> DEFINE f == [m \in 0 .. 0 |-> 0]
    <3>1. f \in [0 .. Len(txs) -> Int] /\ f[Len(txs)] = 0
      BY <2>1
    <3>2. NetOf(f, w)
      <4> DEFINE h == [m \in 0 .. 0 |-> IF m = 0 THEN 0 ELSE f[m - 1] + Movement(m, w)]
      <4>1. \A m \in 0 .. 0 : f[m] = h[m]
        OBVIOUS
      <4>2. f = h
        BY <4>1
      <4> HIDE DEF f
      <4> QED
        BY <2>1, <4>2 DEF NetOf
    <3>3. Opening[w] \in Int
      BY LedgerAssumption DEF Minor
    <3> HIDE DEF f
    <3> QED
      BY <2>1, <3>1, <3>2, <3>3
  <2> QED
    BY <2>2, <2>3 DEF Derivable
<1>2. ASSUME LedgerInv, TwoLegs, EntrySeqsInOrder, Derivable, [LedgerNext]_ledgerVars
      PROVE  (TwoLegs /\ EntrySeqsInOrder /\ Derivable)'
  <2>1. CASE LedgerNext
    <3>1. PICK k \in Key, pl \in CandidatePlan : PostOnce(k, pl)
      BY <2>1 DEF LedgerNext
    <3>2. LedgerTypeOK /\ pl \in Plan /\ pl.debit \in Wallet /\ pl.credit \in Wallet
      BY <1>2, CandidateIsPlan DEF LedgerInv
    <3>3. NextEntrySeq(pl.debit) \in Nat /\ NextEntrySeq(pl.credit) \in Nat
      BY <1>2, NextEntrySeqBound DEF LedgerInv
    <3>4. /\ pl.debit # pl.credit /\ ApplyBalanceDeltas(pl)
          /\ Record(k, pl, NextEntrySeq(pl.debit), NextEntrySeq(pl.credit))
      BY <3>1 DEF PostOnce
    <3>5. TwoLegs' /\ EntrySeqsInOrder'
      BY <1>2, <3>2, <3>4, SeqsStep
    <3>6. Derivable'
      BY <1>2, <3>2, <3>3, <3>4, DerivableStep
    <3> QED
      BY <3>5, <3>6
  <2>2. CASE UNCHANGED ledgerVars
    BY <1>2, <2>2 DEF ledgerVars, TwoLegs, EntrySeqsInOrder, Derivable, NetOf, Movement
  <2> QED
    BY <1>2, <2>1, <2>2
<1>3. LedgerInv /\ EntrySeqsInOrder /\ Derivable => BooksBalance
  BY DerivableReconciles DEF LedgerInv, BooksBalance
<1> QED
  BY <1>1, <1>2, <1>3, LedgerSafe, PTL DEF LedgerSpec
=============================================================================
