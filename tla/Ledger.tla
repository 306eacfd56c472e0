------------------------------- MODULE Ledger -------------------------------
(***************************************************************************)
(* What the posting service of Api/src/modules/transactions promises: a    *)
(* double-entry ledger in which every movement is one atomic step.  The    *)
(* state is the committed content of two tables,                           *)
(*                                                                         *)
(*   txs    the rows of `transactions` in commit order, each with its two  *)
(*          `ledger_entries` (one DEBIT, one CREDIT, same amount), and     *)
(*   avail  `wallet_balances.available_balance_minor`; `balance_minor`     *)
(*          moves by the same deltas, so one variable stands for both.     *)
(*                                                                         *)
(* LedgerPosting.tla models how post() reaches this promise with           *)
(* idempotency keys, row locks, retries and crashes.                       *)
(***************************************************************************)
EXTENDS Integers, Sequences, FiniteSets

CONSTANTS
  Key,        \* values of the Idempotency-Key header
  Currency,   \* ISO codes
  Wallet,     \* the rows of `wallets`; ids are numbers because post() sorts them
  CurrencyOf, \* wallets.currency
  Clearing,   \* the CLEARING system wallet of a currency, or NoWallet
  Revenue,    \* the REVENUE system wallet of a currency, or NoWallet
  Opening,    \* the balances at the start of the modelled history
  MaxMinor    \* the largest value of a BIGINT money column

NoWallet == 0
NoTx == 0

Kind == {"TRANSFER", "DEPOSIT", "WITHDRAWAL", "FEE", "REVERSAL"}

\* wallets.is_system: integrity.sql couples the flag to a CLEARING/REVENUE purpose.
System == {w \in Wallet : \E c \in Currency : w \in {Clearing[c], Revenue[c]}}
Customer == Wallet \ System

Minor == -MaxMinor .. MaxMinor

ASSUME LedgerAssumption ==
  /\ Wallet \subseteq Nat \ {NoWallet}
  /\ MaxMinor \in Nat
  /\ CurrencyOf \in [Wallet -> Currency]
  /\ Clearing \in [Currency -> Wallet \cup {NoWallet}]
  /\ Revenue \in [Currency -> Wallet \cup {NoWallet}]
  /\ Opening \in [Wallet -> Minor]
  /\ \A w \in Customer : Opening[w] >= 0

-----------------------------------------------------------------------------
\* A posting plan: its one DEBIT and one CREDIT leg, whether the debit is
\* balance checked, and the transaction it reverses (NoTx: not a reversal).
Plan == [kind : Kind, debit : Nat, credit : Nat, amount : Nat \ {0},
         currency : Currency, checked : BOOLEAN, reversalOf : Nat]

\* A committed `transactions` row and the entry_seq of its two entries.
TxRow == [key : Key, kind : Kind, debit : Wallet, credit : Wallet,
          amount : Nat \ {0}, currency : Currency, reversalOf : Nat,
          status : {"POSTED", "REVERSED"}, debitSeq : Nat, creditSeq : Nat]

VARIABLES txs, avail
ledgerVars == <<txs, avail>>

\* The entry_seq values already written for a wallet.
EntrySeqs(w) ==
  {txs[i].debitSeq : i \in {j \in DOMAIN txs : txs[j].debit = w}}
    \cup {txs[i].creditSeq : i \in {j \in DOMAIN txs : txs[j].credit = w}}

Greatest(S) == CHOOSE m \in S : \A n \in S : m >= n

\* SELECT COALESCE(MAX(entry_seq), 0) + 1
NextEntrySeq(w) == Greatest(EntrySeqs(w) \cup {0}) + 1

\* Mutant: transactions.idempotency_key without its UNIQUE constraint.
NoUniqueKey(k) == TRUE

KeyUnused(k) == \A i \in DOMAIN txs : txs[i].key # k
NotReversed(t) == \A i \in DOMAIN txs : txs[i].reversalOf # t

\* Existence and single-currency validation of the locked wallets.
WalletsValid(pl) ==
  /\ {pl.debit, pl.credit} \subseteq Wallet
  /\ \A w \in {pl.debit, pl.credit} : CurrencyOf[w] = pl.currency

\* A balance-checked debit of a customer wallet must be covered.
SufficientBalance(pl) ==
  pl.checked /\ pl.debit \in Customer => avail[pl.debit] >= pl.amount

\* Balance columns are BIGINT: an update outside the range is an error.
InRange(pl) ==
  /\ avail[pl.debit] - pl.amount >= -MaxMinor
  /\ avail[pl.credit] + pl.amount <= MaxMinor

\* Mutant: a reversal claws back without a balance check.
MirrorUnchecked(t) ==
  [kind |-> "REVERSAL", debit |-> txs[t].credit, credit |-> txs[t].debit,
   amount |-> txs[t].amount, currency |-> txs[t].currency,
   checked |-> FALSE, reversalOf |-> t]

\* The mirrored plan of a reversal of transaction t.
Mirror(t) ==
  [kind |-> "REVERSAL", debit |-> txs[t].credit, credit |-> txs[t].debit,
   amount |-> txs[t].amount, currency |-> txs[t].currency,
   checked |-> TRUE, reversalOf |-> t]

Reversible(t) == t \in DOMAIN txs /\ txs[t].status = "POSTED"

\* Only a debit of a system wallet goes unchecked (the external leg of a DEPOSIT).
WellFormed(pl) ==
  /\ pl \in Plan
  /\ pl.checked \/ pl.debit \notin Customer
  /\ pl.reversalOf # NoTx => Reversible(pl.reversalOf) /\ pl = Mirror(pl.reversalOf)

\* Mutant: the original of a reversal is never marked REVERSED.
RecordUnmarked(k, pl, dseq, cseq) ==
  txs' = Append(txs, [key |-> k, kind |-> pl.kind, debit |-> pl.debit, credit |-> pl.credit,
                      amount |-> pl.amount, currency |-> pl.currency,
                      reversalOf |-> pl.reversalOf, status |-> "POSTED",
                      debitSeq |-> dseq, creditSeq |-> cseq])

\* The rows a posting writes: its own, and REVERSED on the transaction it reverses.
Record(k, pl, dseq, cseq) ==
  txs' = Append([i \in DOMAIN txs |->
                   IF i = pl.reversalOf THEN [txs[i] EXCEPT !.status = "REVERSED"]
                                        ELSE txs[i]],
                [key |-> k, kind |-> pl.kind, debit |-> pl.debit, credit |-> pl.credit,
                 amount |-> pl.amount, currency |-> pl.currency,
                 reversalOf |-> pl.reversalOf, status |-> "POSTED",
                 debitSeq |-> dseq, creditSeq |-> cseq])

\* Mutant: the credit is applied, the debit forgotten.
CreditOnly(pl) == avail' = [avail EXCEPT ![pl.credit] = @ + pl.amount]

\* A DEBIT decrements, a CREDIT increments.
ApplyBalanceDeltas(pl) ==
  avail' = [avail EXCEPT ![pl.debit] = @ - pl.amount, ![pl.credit] = @ + pl.amount]

-----------------------------------------------------------------------------
\* One movement of money, complete or not at all.
PostOnce(k, pl) ==
  /\ KeyUnused(k)
  /\ WellFormed(pl)
  /\ WalletsValid(pl)
  /\ pl.debit # pl.credit
  /\ SufficientBalance(pl)
  /\ InRange(pl)
  /\ pl.reversalOf # NoTx => NotReversed(pl.reversalOf)
  /\ Record(k, pl, NextEntrySeq(pl.debit), NextEntrySeq(pl.credit))
  /\ ApplyBalanceDeltas(pl)

\* The plans the present state could admit: existing wallets, an amount the
\* balance columns can hold, a transaction that exists.
CandidatePlan ==
  [kind : Kind, debit : Wallet, credit : Wallet, amount : 1 .. (2 * MaxMinor),
   currency : Currency, checked : BOOLEAN, reversalOf : 0 .. Len(txs)]

LedgerInit == txs = <<>> /\ avail = Opening
LedgerNext == txs' # txs /\ \E k \in Key, pl \in CandidatePlan : PostOnce(k, pl)
LedgerSpec == LedgerInit /\ [][LedgerNext]_ledgerVars

-----------------------------------------------------------------------------
LedgerTypeOK ==
  /\ txs \in Seq(TxRow)
  /\ avail \in [Wallet -> Minor]

\* "A retry can never double-post" (docs/api-reference.md:125): one
\* Idempotency-Key moves money at most once.
OncePerKey == \A i, j \in DOMAIN txs : txs[i].key = txs[j].key => i = j

\* Reverse-once, and the status column tells it: a transaction is REVERSED
\* exactly when one, and only one, later REVERSAL row points at it.
ReverseOnce ==
  /\ \A i, j \in DOMAIN txs :
       txs[i].reversalOf = txs[j].reversalOf /\ txs[i].reversalOf # NoTx => i = j
  /\ \A i \in DOMAIN txs : txs[i].reversalOf \in 0 .. (i - 1)
  /\ \A t \in DOMAIN txs :
       txs[t].status = "REVERSED" <=> \E i \in DOMAIN txs : txs[i].reversalOf = t

\* No posting takes a customer wallet below zero, whatever the interleaving.
NoOverdraft == \A w \in Customer : avail[w] >= 0

\* A reversal undoes exactly the movement it points at: same amount and
\* currency, legs swapped.
ReversalMirrors ==
  \A i \in DOMAIN txs : txs[i].reversalOf # NoTx =>
    LET o == txs[txs[i].reversalOf] IN
      /\ txs[i].debit = o.credit /\ txs[i].credit = o.debit
      /\ txs[i].amount = o.amount /\ txs[i].currency = o.currency

Movement(i, w) ==
  CASE txs[i].credit = w -> txs[i].amount
    [] txs[i].debit = w -> -txs[i].amount
    [] OTHER -> 0

\* "The balance always remains derivable from - and reconcilable against - the
\* append-only ledger" (README.md:160): opening balance plus the wallet's entries.
BalanceReconciles ==
  \A w \in Wallet :
    LET net[n \in 0 .. Len(txs)] == IF n = 0 THEN 0 ELSE net[n - 1] + Movement(n, w)
    IN  avail[w] = Opening[w] + net[Len(txs)]

\* Each wallet's entries are numbered 1, 2, 3, ... in commit order: no
\* duplicate and no gap although MAX + 1 is a read-modify-write.
EntrySeqsInOrder ==
  \A w \in Wallet :
    LET mine == {i \in DOMAIN txs : w \in {txs[i].debit, txs[i].credit}}
        seq(i) == IF txs[i].debit = w THEN txs[i].debitSeq ELSE txs[i].creditSeq
    IN  \A i \in mine : seq(i) = Cardinality({j \in mine : j <= i})

\* The books: balances follow from the entries, and the entries are numbered
\* without duplicate or gap.
BooksBalance == BalanceReconciles /\ EntrySeqsInOrder

-----------------------------------------------------------------------------
\* The entry numbers written so far are bounded by the number of transactions,
\* which is what makes MAX(entry_seq) exist.
SeqsBounded ==
  \A i \in DOMAIN txs : txs[i].debitSeq <= Len(txs) /\ txs[i].creditSeq <= Len(txs)

\* The inductive invariant: reversal status and uniqueness need the types,
\* MAX(entry_seq) needs SeqsBounded.
LedgerInv ==
  /\ LedgerTypeOK
  /\ SeqsBounded
  /\ OncePerKey
  /\ ReverseOnce
  /\ NoOverdraft
  /\ ReversalMirrors

=============================================================================
