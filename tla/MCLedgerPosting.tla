-------------------------- MODULE MCLedgerPosting --------------------------
(***************************************************************************)
(* Small instances of LedgerPosting.  Wallet 1 is the USD clearing wallet, *)
(* 2 and 3 are USD customer wallets, 4 is a EUR customer wallet, 5 the USD *)
(* revenue wallet; EUR has no system wallet and 9 is an id without a row.  *)
(***************************************************************************)
EXTENDS LedgerPosting, TLC

MCCurrency == {"USD", "EUR"}
MCWallet == 1 .. 5
MCCurrencyOf == [w \in MCWallet |-> IF w = 4 THEN "EUR" ELSE "USD"]
MCClearing == [USD |-> 1, EUR |-> 0]
MCRevenue == [USD |-> 5, EUR |-> 0]
MCOpening == <<0, 2, 1, 1, 0>>

Ask(key, kind, source, target, original, amount, currency) ==
  [key |-> key,
   body |-> [kind |-> kind, source |-> source, target |-> target,
             original |-> original, amount |-> amount, currency |-> currency]]

CONSTANTS k1, k2, k3

\* Every kind, and every reason the planner, the loader or the executor refuses one.
EveryKind == {
  Ask(k1, "TRANSFER", 2, 3, 0, 2, "USD"),
  Ask(k1, "DEPOSIT", 0, 2, 0, 2, "USD"),
  Ask(k1, "FEE", 3, 0, 0, 1, "USD"),
  Ask(k2, "WITHDRAWAL", 2, 0, 0, 1, "USD"),
  Ask(k2, "REVERSAL", 0, 0, 1, 2, "USD"),
  Ask(k2, "TRANSFER", 2, 4, 0, 1, "USD"),
  Ask(k3, "REVERSAL", 0, 0, 2, 2, "USD"),
  Ask(k3, "REVERSAL", 0, 0, 1, 1, "USD"),
  Ask(k3, "DEPOSIT", 0, 9, 0, 1, "USD"),
  Ask(k3, "DEPOSIT", 0, 1, 0, 1, "USD"),
  Ask(k3, "DEPOSIT", 0, 4, 0, 1, "EUR"),
  Ask(k3, "TRANSFER", 2, 2, 0, 1, "USD"),
  Ask(k3, "ADJUSTMENT", 2, 3, 0, 1, "USD")}

\* One key first sent with a transfer and then with the reversal of it: once the
\* transfer is posted and its key row lost, reversals wait for the original's lock.
TransferThenReversal == {
  Ask(k1, "TRANSFER", 2, 3, 0, 2, "USD"),
  Ask(k1, "REVERSAL", 0, 0, 1, 2, "USD")}

\* Opposite transfers, a fee, and two reversals of the first movement compete
\* for the same wallets; reversals may be reversed in turn.
Contention == {
  Ask(k1, "TRANSFER", 2, 3, 0, 2, "USD"),
  Ask(k2, "TRANSFER", 3, 2, 0, 1, "USD"),
  Ask(k2, "REVERSAL", 0, 0, 1, 2, "USD"),
  Ask(k3, "FEE", 3, 0, 0, 2, "USD"),
  Ask(k3, "REVERSAL", 0, 0, 1, 2, "USD"),
  Ask(k3, "REVERSAL", 0, 0, 2, 2, "USD")}

\* All of these, for attempts that interleave.
Everything == EveryKind \cup Contention

\* One key, two bodies.
KeyReuse == {
  Ask(k1, "TRANSFER", 2, 3, 0, 2, "USD"),
  Ask(k1, "TRANSFER", 2, 3, 0, 1, "USD")}

\* The service without any fault: only slowness (a row growing stale).
FaultFreeNext ==
  \/ \E p \in Attempt : (\E r \in Request : Receive(p, r)) \/ Serve(p)
  \/ \E key \in Key : StaleElapses(key)
FaultFreeSpec == Init /\ [][FaultFreeNext]_vars

\* No fault and nobody slow: only the interleaving of locks and commits.
SteadySpec ==
  Init /\ [][\E p \in Attempt : (\E r \in Request : Receive(p, r)) \/ Serve(p)]_vars

\* Attempts are interchangeable.
Symmetry == Permutations(Attempt)

=============================================================================
