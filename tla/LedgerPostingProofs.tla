------------------------ MODULE LedgerPostingProofs ------------------------
(***************************************************************************)
(* post() implements the ledger's promise for every number of attempts,    *)
(* keys, wallets and requests: PostingInv is inductive, and under it each  *)
(* step is a movement of Ledger.tla or leaves the ledger alone.            *)
(***************************************************************************)
EXTENDS LedgerPosting, LedgerProofs

\* A step of attempt p leaves every other attempt where it was.
Alone(p) ==
  \A q \in Attempt \ {p} :
    /\ pc'[q] = pc[q] /\ req'[q] = req[q] /\ plan'[q] = plan[q]
    /\ locked'[q] = locked[q] /\ origLock'[q] = origLock[q]
    /\ seqs'[q] = seqs[q] /\ answer'[q] = answer[q]

-----------------------------------------------------------------------------
\* The next entry number depends on the committed rows only.
LEMMA NextEntrySeqStable ==
  ASSUME NEW w, EntrySeqs(w)' = EntrySeqs(w)
  PROVE  NextEntrySeq(w)' = NextEntrySeq(w)
BY DEF NextEntrySeq

\* What an attempt relies on survives the local step of another attempt.
LEMMA OtherAttempt ==
  ASSUME NEW p \in Attempt, NEW q \in Attempt, p # q, Alone(p), AttemptInv(q),
         txs' = txs, avail' = avail
  PROVE  AttemptInv(q)'
<1>1. /\ pc'[q] = pc[q] /\ req'[q] = req[q] /\ plan'[q] = plan[q]
      /\ locked'[q] = locked[q] /\ origLock'[q] = origLock[q] /\ seqs'[q] = seqs[q]
  BY DEF Alone
<1>2. \A w : NextEntrySeq(w)' = NextEntrySeq(w)
  <2> SUFFICES ASSUME NEW w PROVE NextEntrySeq(w)' = NextEntrySeq(w)
    OBVIOUS
  <2>1. EntrySeqs(w)' = EntrySeqs(w)
    BY DEF EntrySeqs
  <2> QED
    BY <2>1, NextEntrySeqStable
<1>3. (pc[q] = "commit" => Ready(q)) => (pc[q] = "commit" => Ready(q))'
  BY <1>1, <1>2 DEF Ready, InRange, KeyUnused, NotReversed, KeyOf
<1>4. WellFormed(plan[q]) => WellFormed(plan[q])'
  BY <1>1 DEF WellFormed, Reversible, Mirror
<1> QED
  BY <1>1, <1>3, <1>4 DEF AttemptInv, BodyOf, WalletsValid, SufficientBalance

\* A step that touches neither table preserves the invariant if it preserves the
\* types, what its own attempt relies on, and exclusion with the others.
LEMMA LocalStep ==
  ASSUME PostingInv, NEW p \in Attempt, Alone(p), txs' = txs, avail' = avail,
         TypeOK', AttemptInv(p)', \A q \in Attempt \ {p} : Exclusive(p, q)'
  PROVE  PostingInv'
<1>1. LedgerInv'
  BY DEF PostingInv, LedgerInv, LedgerTypeOK, SeqsBounded, OncePerKey, ReverseOnce,
         NoOverdraft, ReversalMirrors
<1>2. \A q \in Attempt : AttemptInv(q)'
  BY OtherAttempt DEF PostingInv
<1>3. ASSUME NEW q \in Attempt, NEW r \in Attempt, q # r
      PROVE  Exclusive(q, r)'
  <2>1. CASE q = p
    BY <1>3, <2>1
  <2>2. CASE r = p
    BY <1>3, <2>2 DEF Exclusive
  <2>3. CASE q # p /\ r # p
    <3>1. Exclusive(q, r)
      BY <1>3 DEF PostingInv
    <3> QED
      BY <2>3, <3>1 DEF Exclusive, Alone, KeyOf
  <2> QED
    BY <2>1, <2>2, <2>3
<1> QED
  BY <1>1, <1>2, <1>3 DEF PostingInv

\* Taking no new lock and not reaching the commit keeps exclusion.
LEMMA NoNewLock ==
  ASSUME PostingInv, NEW p \in Attempt, Alone(p),
         locked'[p] \subseteq locked[p], origLock'[p] \in {origLock[p], NoTx},
         pc'[p] # "commit"
  PROVE  \A q \in Attempt \ {p} : Exclusive(p, q)'
<1> SUFFICES ASSUME NEW q \in Attempt \ {p} PROVE Exclusive(p, q)'
  OBVIOUS
<1>1. Exclusive(p, q)
  BY DEF PostingInv
<1> QED
  BY <1>1 DEF Exclusive, Alone

-----------------------------------------------------------------------------
\* An error inside the transaction.
LEMMA RollbackInv ==
  ASSUME PostingInv, NEW p \in Attempt, NEW code \in Code, pc[p] \in InTransaction, Rollback(p, code)
  PROVE  PostingInv'
<1>1. TypeOK /\ AttemptInv(p)
  BY DEF PostingInv
<1>2. Alone(p) /\ txs' = txs /\ avail' = avail
  BY <1>1 DEF Rollback, Goto, DropLocks, TypeOK, Alone
<1>3. TypeOK'
  BY <1>1, <1>2, RequestAssumption DEF Rollback, Goto, DropLocks, TypeOK, LedgerTypeOK, AttemptInv, Step, InTransaction, Code, Error, Created, NoAnswer, KeyRow, KeyOf, BodyOf, NoTx
<1>4. AttemptInv(p)'
  BY <1>1, <1>2 DEF Rollback, Goto, DropLocks, TypeOK, AttemptInv, Step, InTransaction, Working, Holding, KeyOf, BodyOf
<1>5. \A q \in Attempt \ {p} : Exclusive(p, q)'
  <2>1. locked'[p] \subseteq locked[p] /\ origLock'[p] \in {origLock[p], NoTx} /\ pc'[p] # "commit"
    BY <1>1 DEF Rollback, Goto, DropLocks, TypeOK
  <2> QED
    BY <1>2, <2>1, NoNewLock
<1> QED
  BY <1>2, <1>3, <1>4, <1>5, LocalStep

\* A request arrives.
LEMMA ReceiveInv ==
  ASSUME PostingInv, NEW p \in Attempt, NEW r \in Request, Receive(p, r)
  PROVE  PostingInv'
<1>1. TypeOK /\ AttemptInv(p)
  BY DEF PostingInv
<1>2. Alone(p) /\ txs' = txs /\ avail' = avail
  BY <1>1 DEF Receive, Goto, Reply, TypeOK, Alone
<1>3. TypeOK'
  <2>1. LedgerTypeOK'
    BY <1>1, <1>2 DEF TypeOK, LedgerTypeOK
  <2>2. keys' \in [Key -> KeyRow \cup {None}]
    <3>1. keys' = keys
      BY DEF Receive
    <3> QED
      BY <1>1, <3>1 DEF TypeOK
  <2>3. pc' \in [Attempt -> Step]
    <3>1. pc' = [pc EXCEPT ![p] = "find"] \/ pc' = [pc EXCEPT ![p] = "replied"]
      BY DEF Receive, Goto, Reply
    <3> QED
      BY <1>1, <3>1 DEF TypeOK, Step
  <2>4. answer' \in [Attempt -> [code : Code, tx : Nat]]
    <3>1. Error("Rejected") \in [code : Code, tx : Nat]
      BY DEF Error, Code, NoTx
    <3>2. answer' = answer \/ answer' = [answer EXCEPT ![p] = Error("Rejected")]
      BY DEF Receive, Reply
    <3>3. answer \in [Attempt -> [code : Code, tx : Nat]]
      BY <1>1 DEF TypeOK
    <3> QED
      BY <3>1, <3>2, <3>3
  <2>5. /\ req' \in [Attempt -> Request \cup {None}]
        /\ plan' \in [Attempt -> Plan \cup {None}]
        /\ locked' \in [Attempt -> SUBSET Nat]
        /\ origLock' \in [Attempt -> Nat]
        /\ seqs' \in [Attempt -> Nat \X Nat]
    BY <1>1 DEF Receive, Goto, Reply, TypeOK, NoTx
  <2> QED
    BY <2>1, <2>2, <2>3, <2>4, <2>5 DEF TypeOK
<1>4. AttemptInv(p)'
  BY <1>1, <1>2 DEF Receive, Goto, Reply, TypeOK, AttemptInv, Step, InTransaction, Working, Holding, KeyOf, BodyOf
<1>5. \A q \in Attempt \ {p} : Exclusive(p, q)'
  <2>1. locked'[p] \subseteq locked[p] /\ origLock'[p] \in {origLock[p], NoTx} /\ pc'[p] # "commit"
    BY <1>1 DEF Receive, Goto, Reply, TypeOK
  <2> QED
    BY <1>2, <2>1, NoNewLock
<1> QED
  BY <1>2, <1>3, <1>4, <1>5, LocalStep

\* The idempotency lookup.
LEMMA FindKeyInv ==
  ASSUME PostingInv, NEW p \in Attempt, FindKey(p)
  PROVE  PostingInv'
<1>1. TypeOK /\ AttemptInv(p)
  BY DEF PostingInv
<1>2. Alone(p) /\ txs' = txs /\ avail' = avail
  BY <1>1 DEF FindKey, Goto, Reply, ResolveExisting, TypeOK, Alone
<1>3. TypeOK'
  <2>0. pc[p] # "idle" => KeyOf(p) \in Key /\ BodyOf(p) \in Body
    BY <1>1, RequestAssumption DEF AttemptInv, KeyOf, BodyOf
  <2>1. LedgerTypeOK'
    BY <1>1, <1>2 DEF TypeOK, LedgerTypeOK
  <2>2. keys' \in [Key -> KeyRow \cup {None}]
    BY <1>1, <2>0 DEF FindKey, Goto, Reply, ResolveExisting, TypeOK, KeyRow, NoTx
  <2>3. pc' \in [Attempt -> Step]
    BY <1>1 DEF FindKey, Goto, Reply, ResolveExisting, TypeOK, Step, InTransaction
  <2>4. answer' \in [Attempt -> [code : Code, tx : Nat]]
    BY <1>1, <2>0 DEF FindKey, Goto, Reply, ResolveExisting, TypeOK, KeyRow, Code, Error, Created, NoAnswer, NoTx
  <2>5. /\ req' \in [Attempt -> Request \cup {None}]
        /\ plan' \in [Attempt -> Plan \cup {None}]
        /\ locked' \in [Attempt -> SUBSET Nat]
        /\ origLock' \in [Attempt -> Nat]
        /\ seqs' \in [Attempt -> Nat \X Nat]
    BY <1>1 DEF FindKey, Goto, Reply, ResolveExisting, TypeOK, NoTx
  <2> QED
    BY <2>1, <2>2, <2>3, <2>4, <2>5 DEF TypeOK
<1>4. AttemptInv(p)'
  BY <1>1, <1>2 DEF FindKey, Goto, Reply, ResolveExisting, TypeOK, AttemptInv, Step, InTransaction, Working, Holding, KeyOf, BodyOf
<1>5. \A q \in Attempt \ {p} : Exclusive(p, q)'
  <2>1. locked'[p] \subseteq locked[p] /\ origLock'[p] \in {origLock[p], NoTx} /\ pc'[p] # "commit"
    BY <1>1 DEF FindKey, Goto, Reply, ResolveExisting, TypeOK
  <2> QED
    BY <1>2, <2>1, NoNewLock
<1> QED
  BY <1>2, <1>3, <1>4, <1>5, LocalStep

\* Reclaiming a stale key.
LEMMA ReclaimInv ==
  ASSUME PostingInv, NEW p \in Attempt, Reclaim(p)
  PROVE  PostingInv'
<1>1. TypeOK /\ AttemptInv(p)
  BY DEF PostingInv
<1>2. Alone(p) /\ txs' = txs /\ avail' = avail
  BY <1>1 DEF Reclaim, Goto, TypeOK, Alone
<1>3. TypeOK'
  BY <1>1, <1>2, RequestAssumption DEF Reclaim, Goto, TypeOK, LedgerTypeOK, AttemptInv, Step, InTransaction, Code, Error, Created, NoAnswer, KeyRow, KeyOf, BodyOf, NoTx
<1>4. AttemptInv(p)'
  BY <1>1, <1>2 DEF Reclaim, Goto, TypeOK, AttemptInv, Step, InTransaction, Working, Holding, KeyOf, BodyOf
<1>5. \A q \in Attempt \ {p} : Exclusive(p, q)'
  <2>1. locked'[p] \subseteq locked[p] /\ origLock'[p] \in {origLock[p], NoTx} /\ pc'[p] # "commit"
    BY <1>1 DEF Reclaim, Goto, TypeOK
  <2> QED
    BY <1>2, <2>1, NoNewLock
<1> QED
  BY <1>2, <1>3, <1>4, <1>5, LocalStep

\* Claiming the key.
LEMMA CreateKeyInv ==
  ASSUME PostingInv, NEW p \in Attempt, CreateKey(p)
  PROVE  PostingInv'
<1>1. TypeOK /\ AttemptInv(p)
  BY DEF PostingInv
<1>2. Alone(p) /\ txs' = txs /\ avail' = avail
  BY <1>1 DEF CreateKey, Goto, TypeOK, Alone
<1>3. TypeOK'
  <2>0. pc[p] # "idle" => KeyOf(p) \in Key /\ BodyOf(p) \in Body
    BY <1>1, RequestAssumption DEF AttemptInv, KeyOf, BodyOf
  <2>1. LedgerTypeOK'
    BY <1>1, <1>2 DEF TypeOK, LedgerTypeOK
  <2>2. keys' \in [Key -> KeyRow \cup {None}]
    <3> DEFINE row == [state |-> "IN_PROGRESS", fingerprint |-> BodyOf(p),
                       response |-> NoTx, stale |-> FALSE]
    <3>1. row \in KeyRow
      BY <2>0 DEF CreateKey, KeyRow, NoTx
    <3>2. keys' = keys \/ keys' = [keys EXCEPT ![KeyOf(p)] = row]
      BY DEF CreateKey
    <3>3. keys \in [Key -> KeyRow \cup {None}]
      BY <1>1 DEF TypeOK
    <3> HIDE DEF row
    <3> QED
      BY <3>1, <3>2, <3>3
  <2>3. pc' \in [Attempt -> Step]
    BY <1>1 DEF CreateKey, Goto, TypeOK, Step, InTransaction
  <2>4. answer' \in [Attempt -> [code : Code, tx : Nat]]
    BY <1>1, <2>0 DEF CreateKey, Goto, TypeOK, KeyRow, Code, Error, Created, NoAnswer, NoTx
  <2>5. /\ req' \in [Attempt -> Request \cup {None}]
        /\ plan' \in [Attempt -> Plan \cup {None}]
        /\ locked' \in [Attempt -> SUBSET Nat]
        /\ origLock' \in [Attempt -> Nat]
        /\ seqs' \in [Attempt -> Nat \X Nat]
    BY <1>1 DEF CreateKey, Goto, TypeOK, NoTx
  <2> QED
    BY <2>1, <2>2, <2>3, <2>4, <2>5 DEF TypeOK
<1>4. AttemptInv(p)'
  BY <1>1, <1>2 DEF CreateKey, Goto, TypeOK, AttemptInv, Step, InTransaction, Working, Holding, KeyOf, BodyOf
<1>5. \A q \in Attempt \ {p} : Exclusive(p, q)'
  <2>1. locked'[p] \subseteq locked[p] /\ origLock'[p] \in {origLock[p], NoTx} /\ pc'[p] # "commit"
    BY <1>1 DEF CreateKey, Goto, TypeOK
  <2> QED
    BY <1>2, <2>1, NoNewLock
<1> QED
  BY <1>2, <1>3, <1>4, <1>5, LocalStep

\* Resolving a lost claim.
LEMMA RereadKeyInv ==
  ASSUME PostingInv, NEW p \in Attempt, RereadKey(p)
  PROVE  PostingInv'
<1>1. TypeOK /\ AttemptInv(p)
  BY DEF PostingInv
<1>2. Alone(p) /\ txs' = txs /\ avail' = avail
  BY <1>1 DEF RereadKey, Goto, Reply, ResolveExisting, TypeOK, Alone
<1>3. TypeOK'
  BY <1>1, <1>2, RequestAssumption DEF RereadKey, Goto, Reply, ResolveExisting, TypeOK, LedgerTypeOK, AttemptInv, Step, InTransaction, Code, Error, Created, NoAnswer, KeyRow, KeyOf, BodyOf, NoTx
<1>4. AttemptInv(p)'
  BY <1>1, <1>2 DEF RereadKey, Goto, Reply, ResolveExisting, TypeOK, AttemptInv, Step, InTransaction, Working, Holding, KeyOf, BodyOf
<1>5. \A q \in Attempt \ {p} : Exclusive(p, q)'
  <2>1. locked'[p] \subseteq locked[p] /\ origLock'[p] \in {origLock[p], NoTx} /\ pc'[p] # "commit"
    BY <1>1 DEF RereadKey, Goto, Reply, ResolveExisting, TypeOK
  <2> QED
    BY <1>2, <2>1, NoNewLock
<1> QED
  BY <1>2, <1>3, <1>4, <1>5, LocalStep

\* Releasing the key.
LEMMA ReleaseKeyInv ==
  ASSUME PostingInv, NEW p \in Attempt, ReleaseKey(p) \/ ReleaseKeyFails(p)
  PROVE  PostingInv'
<1>1. TypeOK /\ AttemptInv(p)
  BY DEF PostingInv
<1>2. Alone(p) /\ txs' = txs /\ avail' = avail
  BY <1>1 DEF ReleaseKey, ReleaseKeyFails, Goto, TypeOK, Alone
<1>3. TypeOK'
  BY <1>1, <1>2, RequestAssumption DEF ReleaseKey, ReleaseKeyFails, Goto, TypeOK, LedgerTypeOK, AttemptInv, Step, InTransaction, Code, Error, Created, NoAnswer, KeyRow, KeyOf, BodyOf, NoTx
<1>4. AttemptInv(p)'
  BY <1>1, <1>2 DEF ReleaseKey, ReleaseKeyFails, Goto, TypeOK, AttemptInv, Step, InTransaction, Working, Holding, KeyOf, BodyOf
<1>5. \A q \in Attempt \ {p} : Exclusive(p, q)'
  <2>1. locked'[p] \subseteq locked[p] /\ origLock'[p] \in {origLock[p], NoTx} /\ pc'[p] # "commit"
    BY <1>1 DEF ReleaseKey, ReleaseKeyFails, Goto, TypeOK
  <2> QED
    BY <1>2, <2>1, NoNewLock
<1> QED
  BY <1>2, <1>3, <1>4, <1>5, LocalStep

\* The answer leaves, or the process dies.
LEMMA ResetInv ==
  ASSUME PostingInv, NEW p \in Attempt, Deliver(p) \/ Crash(p)
  PROVE  PostingInv'
<1>1. TypeOK /\ AttemptInv(p)
  BY DEF PostingInv
<1>2. Alone(p) /\ txs' = txs /\ avail' = avail
  BY <1>1 DEF Deliver, Crash, Reset, Goto, DropLocks, TypeOK, Alone
<1>3. TypeOK'
  <2>0. pc[p] # "idle" => KeyOf(p) \in Key /\ BodyOf(p) \in Body
    BY <1>1, RequestAssumption DEF AttemptInv, KeyOf, BodyOf
  <2>1. LedgerTypeOK'
    BY <1>1, <1>2 DEF TypeOK, LedgerTypeOK
  <2>2. keys' \in [Key -> KeyRow \cup {None}]
    BY <1>1, <2>0 DEF Deliver, Crash, Reset, Goto, DropLocks, TypeOK, KeyRow, NoTx
  <2>3. pc' \in [Attempt -> Step]
    BY <1>1 DEF Deliver, Crash, Reset, Goto, DropLocks, TypeOK, Step, InTransaction
  <2>4. answer' \in [Attempt -> [code : Code, tx : Nat]]
    BY <1>1, <2>0 DEF Deliver, Crash, Reset, Goto, DropLocks, TypeOK, KeyRow, Code, Error, Created, NoAnswer, NoTx
  <2>5. /\ req' \in [Attempt -> Request \cup {None}]
        /\ plan' \in [Attempt -> Plan \cup {None}]
        /\ locked' \in [Attempt -> SUBSET Nat]
        /\ origLock' \in [Attempt -> Nat]
    <3>1. /\ req' = [req EXCEPT ![p] = None]
          /\ plan' = [plan EXCEPT ![p] = None]
          /\ locked' = [locked EXCEPT ![p] = {}]
          /\ origLock' = [origLock EXCEPT ![p] = NoTx]
      BY DEF Deliver, Crash, Reset, DropLocks
    <3>2. /\ req \in [Attempt -> Request \cup {None}]
          /\ plan \in [Attempt -> Plan \cup {None}]
          /\ locked \in [Attempt -> SUBSET Nat]
          /\ origLock \in [Attempt -> Nat]
      BY <1>1 DEF TypeOK
    <3> QED
      BY <3>1, <3>2 DEF NoTx
  <2>6. seqs' \in [Attempt -> Nat \X Nat]
    <3>1. <<0, 0>> \in Nat \X Nat
      OBVIOUS
    <3>2. seqs' = [seqs EXCEPT ![p] = <<0, 0>>] /\ seqs \in [Attempt -> Nat \X Nat]
      BY <1>1 DEF Deliver, Crash, Reset, TypeOK
    <3> QED
      BY <3>1, <3>2
  <2> QED
    BY <2>1, <2>2, <2>3, <2>4, <2>5, <2>6 DEF TypeOK
<1>4. AttemptInv(p)'
  BY <1>1, <1>2 DEF Deliver, Crash, Reset, Goto, DropLocks, TypeOK, AttemptInv, Step, InTransaction, Working, Holding, KeyOf, BodyOf
<1>5. \A q \in Attempt \ {p} : Exclusive(p, q)'
  <2>1. locked'[p] \subseteq locked[p] /\ origLock'[p] \in {origLock[p], NoTx} /\ pc'[p] # "commit"
    BY <1>1 DEF Deliver, Crash, Reset, Goto, DropLocks, TypeOK
  <2> QED
    BY <1>2, <2>1, NoNewLock
<1> QED
  BY <1>2, <1>3, <1>4, <1>5, LocalStep

\* Time passes: no attempt notices until it reads the row.
LEMMA StaleElapsesInv ==
  ASSUME PostingInv, NEW key \in Key, StaleElapses(key)
  PROVE  PostingInv'
<1>1. UNCHANGED <<txs, avail, pc, req, plan, locked, origLock, seqs, answer>>
  BY DEF StaleElapses, attemptVars
<1>2. TypeOK'
  <2>1. keys' \in [Key -> KeyRow \cup {None}]
    <3>1. keys[key] \in KeyRow
      BY DEF StaleElapses, PostingInv, TypeOK
    <3>2. [keys[key] EXCEPT !.stale = TRUE] \in KeyRow
      BY <3>1 DEF KeyRow
    <3>3. keys' = [keys EXCEPT ![key] = [keys[key] EXCEPT !.stale = TRUE]]
      BY DEF StaleElapses
    <3> QED
      BY <3>2, <3>3 DEF PostingInv, TypeOK
  <2> QED
    BY <1>1, <2>1 DEF PostingInv, TypeOK, LedgerTypeOK
<1>3. LedgerInv'
  BY <1>1 DEF PostingInv, LedgerInv, LedgerTypeOK, SeqsBounded, OncePerKey, ReverseOnce,
              NoOverdraft, ReversalMirrors
<1>4. ASSUME NEW q \in Attempt
      PROVE  AttemptInv(q)'
  <2>1. \A w : NextEntrySeq(w)' = NextEntrySeq(w)
    <3> SUFFICES ASSUME NEW w PROVE NextEntrySeq(w)' = NextEntrySeq(w)
      OBVIOUS
    <3>1. EntrySeqs(w)' = EntrySeqs(w)
      BY <1>1 DEF EntrySeqs
    <3> QED
      BY <3>1, NextEntrySeqStable
  <2>2. AttemptInv(q)
    BY DEF PostingInv
  <2>3. Ready(q) => Ready(q)'
    BY <1>1, <2>1 DEF Ready, InRange, KeyUnused, NotReversed, KeyOf
  <2>4. WellFormed(plan[q]) => WellFormed(plan[q])'
    BY <1>1 DEF WellFormed, Reversible, Mirror
  <2> QED
    BY <1>1, <2>2, <2>3, <2>4 DEF AttemptInv, BodyOf, WalletsValid, SufficientBalance
<1>5. \A q, r \in Attempt : q # r => Exclusive(q, r)'
  BY <1>1 DEF PostingInv, Exclusive, KeyOf
<1> QED
  BY <1>2, <1>3, <1>4, <1>5 DEF PostingInv

-----------------------------------------------------------------------------
\* The plans of planTransfer, planDeposit, planWithdrawal and planFee.
LEMMA PlanOfWellFormed ==
  ASSUME NEW b \in Body, b.kind \in Kind \ {"REVERSAL"}, Plannable(b)
  PROVE  PlanOf(b) \in Plan /\ WellFormed(PlanOf(b)) /\ PlanOf(b).reversalOf = NoTx
<1>2. b.source \in Nat /\ b.target \in Nat /\ b.amount \in Nat \ {0} /\ b.currency \in Currency
  BY DEF Body
<1>1. Clearing[b.currency] \in Nat /\ Revenue[b.currency] \in Nat
  <2>1. Wallet \cup {NoWallet} \subseteq Nat
    BY LedgerAssumption DEF NoWallet
  <2> QED
    BY <1>2, <2>1, LedgerAssumption
<1>3. CASE b.kind = "DEPOSIT"
  <2>1. PlanOf(b) = PlanDeposit(b)
    BY <1>3 DEF PlanOf
  <2>2. PlanOf(b) \in Plan /\ PlanOf(b).reversalOf = NoTx
    BY <1>1, <1>2, <1>3, <2>1 DEF PlanDeposit, MakePlan, Plan, Kind, NoTx
  <2>3. Clearing[b.currency] \in Wallet
    BY <1>2, <2>1, LedgerAssumption DEF Plannable, PlanDeposit, MakePlan
  <2>4. PlanOf(b).debit \notin Customer
    BY <1>2, <2>1, <2>3 DEF PlanDeposit, MakePlan, Customer, System
  <2> QED
    BY <2>2, <2>4 DEF WellFormed
<1>4. CASE b.kind # "DEPOSIT"
  <2>1. PlanOf(b) \in {PlanTransfer(b), PlanWithdrawal(b), PlanFee(b)}
    BY <1>4 DEF PlanOf, Kind
  <2>2. PlanOf(b) \in Plan /\ PlanOf(b).reversalOf = NoTx /\ PlanOf(b).checked
    <3>1. PICK from \in Nat, to \in Nat : PlanOf(b) = MakePlan(b, from, to, TRUE)
      BY <1>1, <1>2, <2>1 DEF PlanTransfer, PlanWithdrawal, PlanFee
    <3>2. MakePlan(b, from, to, TRUE) \in Plan
      BY <1>2 DEF MakePlan, Plan, NoTx
    <3> QED
      BY <3>1, <3>2 DEF MakePlan
  <2> QED
    BY <2>2 DEF WellFormed
<1> QED
  BY <1>3, <1>4

\* Entering the locking phase with a well-formed plan, the original (if any)
\* locked by nobody else.
LEMMA StartLockingInv ==
  ASSUME PostingInv, NEW p \in Attempt, pc[p] = "plan",
         NEW pl \in Plan, WellFormed(pl),
         \A q \in Attempt \ {p} : origLock[q] = pl.reversalOf => origLock[q] = NoTx,
         plan' = [plan EXCEPT ![p] = pl],
         pc' = [pc EXCEPT ![p] = "lock"],
         origLock' = [origLock EXCEPT ![p] = pl.reversalOf],
         UNCHANGED <<txs, avail, keys, req, locked, seqs, answer>>
  PROVE  PostingInv'
<1>1. TypeOK /\ AttemptInv(p)
  BY DEF PostingInv
<1>2. Alone(p)
  BY <1>1 DEF TypeOK, Alone
<1>3. /\ plan'[p] = pl /\ pc'[p] = "lock" /\ origLock'[p] = pl.reversalOf
      /\ locked'[p] = {} /\ req'[p] = req[p]
  BY <1>1 DEF TypeOK, AttemptInv, Holding
<1>4. TypeOK'
  <2>1. pl.reversalOf \in Nat
    BY DEF Plan
  <2> QED
    BY <1>1, <2>1 DEF TypeOK, LedgerTypeOK, Step, InTransaction
<1>5. AttemptInv(p)'
  <2>1. WellFormed(plan[p])'
    BY <1>3 DEF WellFormed, Reversible, Mirror
  <2> QED
    BY <1>1, <1>3, <2>1 DEF AttemptInv, BodyOf, Holding, Working, Step, InTransaction
<1>6. \A q \in Attempt \ {p} : Exclusive(p, q)'
  BY <1>2, <1>3 DEF Exclusive, Alone
<1> QED
  BY <1>2, <1>4, <1>5, <1>6, LocalStep

\* Planning a transfer, deposit, withdrawal or fee.
LEMMA PlanPostingInv ==
  ASSUME PostingInv, NEW p \in Attempt, PlanPosting(p)
  PROVE  PostingInv'
<1>1. TypeOK /\ AttemptInv(p) /\ pc[p] = "plan"
  BY DEF PostingInv, PlanPosting
<1>2. CASE ~Plannable(BodyOf(p))
  BY <1>1, <1>2, RollbackInv DEF PlanPosting, Code, InTransaction
<1>3. CASE Plannable(BodyOf(p))
  <2>1. PICK b \in Body : b = BodyOf(p)
    BY <1>1, RequestAssumption DEF AttemptInv, BodyOf
  <2>2. b.kind \in Kind \ {"REVERSAL"}
    BY <1>1, <2>1 DEF AttemptInv, PlanPosting, Working, Step, InTransaction
  <2>3. PICK pl \in Plan : pl = PlanOf(b) /\ WellFormed(pl) /\ pl.reversalOf = NoTx
    BY <1>3, <2>1, <2>2, PlanOfWellFormed
  <2>4. /\ plan' = [plan EXCEPT ![p] = pl]
        /\ pc' = [pc EXCEPT ![p] = "lock"]
        /\ UNCHANGED <<txs, avail, keys, req, locked, origLock, seqs, answer>>
    BY <1>3, <2>1, <2>3 DEF PlanPosting, Goto
  <2>5. origLock' = [origLock EXCEPT ![p] = pl.reversalOf]
    BY <1>1, <2>3, <2>4 DEF TypeOK, AttemptInv, Holding
  <2> QED
    BY <1>1, <2>3, <2>4, <2>5, StartLockingInv
<1> QED
  BY <1>2, <1>3

\* Planning a reversal: the original is locked, still POSTED, and mirrored.
LEMMA PlanReversalInv ==
  ASSUME PostingInv, NEW p \in Attempt, PlanReversal(p)
  PROVE  PostingInv'
<1>1. TypeOK /\ AttemptInv(p) /\ LedgerInv /\ pc[p] = "plan"
  BY DEF PostingInv, PlanReversal
<1>2. CASE \E code \in Code : Rollback(p, code)
  BY <1>1, <1>2, RollbackInv DEF InTransaction
<1>3. CASE ~(\E code \in Code : Rollback(p, code))
  <2>1. PICK t : t = BodyOf(p).original
    OBVIOUS
  <2>2. /\ t \in DOMAIN txs
        /\ \A q \in Attempt \ {p} : origLock[q] # t
        /\ txs[t].status # "REVERSED"
        /\ plan' = [plan EXCEPT ![p] = Mirror(t)]
        /\ origLock' = [origLock EXCEPT ![p] = t]
        /\ pc' = [pc EXCEPT ![p] = "lock"]
        /\ UNCHANGED <<txs, avail, keys, req, locked, seqs, answer>>
    BY <1>3, <2>1 DEF PlanReversal, OriginalFree, Goto, Code
  <2>3. t \in Nat \ {0} /\ txs[t] \in TxRow
    <3>1. txs \in Seq(TxRow) /\ DOMAIN txs = 1 .. Len(txs) /\ Len(txs) \in Nat
      BY <1>1, LenProperties DEF LedgerInv, LedgerTypeOK
    <3>2. t \in 1 .. Len(txs)
      BY <2>2, <3>1
    <3> QED
      BY <3>1, <3>2, ElementOfSeq
  <2>4. Reversible(t)
    BY <2>2, <2>3 DEF Reversible, TxRow
  <2>5. Mirror(t) \in Plan /\ Mirror(t).reversalOf = t /\ Mirror(t).checked
    <3>1. txs[t].debit \in Nat /\ txs[t].credit \in Nat
      BY <2>3, LedgerAssumption DEF TxRow
    <3> QED
      BY <2>3, <3>1 DEF Mirror, Plan, TxRow, Kind
  <2>6. PICK pl \in Plan : pl = Mirror(t)
    BY <2>5
  <2>7. WellFormed(pl) /\ pl.reversalOf = t
    BY <2>4, <2>5, <2>6 DEF WellFormed
  <2> QED
    BY <1>1, <2>2, <2>6, <2>7, StartLockingInv
<1> QED
  BY <1>2, <1>3

-----------------------------------------------------------------------------
\* Locking the next wallet.
LEMMA LockWalletInv ==
  ASSUME PostingInv, NEW p \in Attempt, LockWallet(p)
  PROVE  PostingInv'
<1>1. TypeOK /\ AttemptInv(p) /\ pc[p] = "lock"
  BY DEF PostingInv, LockWallet
<1>2. Alone(p) /\ txs' = txs /\ avail' = avail /\ plan' = plan /\ origLock' = origLock /\ req' = req
  BY <1>1 DEF LockWallet, Goto, TypeOK, Alone
<1>3. plan[p] \in Plan /\ WellFormed(plan[p])
  BY <1>1 DEF AttemptInv, Holding
<1>4. WellFormed(plan[p])'
  BY <1>2, <1>3 DEF WellFormed, Reversible, Mirror
<1>5. CASE ToLock(p) = {}
  <2>1. pc' = [pc EXCEPT ![p] = "load"] /\ locked' = locked
    BY <1>5 DEF LockWallet, Goto
  <2>2. TypeOK'
    BY <1>1, <2>1 DEF LockWallet, TypeOK, LedgerTypeOK, Step, InTransaction
  <2>3. AttemptInv(p)'
    <3>1. {plan[p].debit, plan[p].credit} \subseteq locked[p]
      BY <1>5 DEF ToLock
    <3> QED
      BY <1>1, <1>2, <1>3, <1>4, <2>1, <3>1
         DEF TypeOK, AttemptInv, BodyOf, Holding, Working, Step, InTransaction
  <2>4. \A q \in Attempt \ {p} : Exclusive(p, q)'
    BY <1>1, <1>2, <2>1, NoNewLock DEF TypeOK
  <2> QED
    BY <1>2, <2>2, <2>3, <2>4, LocalStep
<1>6. CASE ToLock(p) # {}
  <2>1. PICK w : w = NextWallet(p)
    OBVIOUS
  <2>2. /\ WalletFree(p, w)
        /\ locked' = [locked EXCEPT ![p] = locked[p] \cup {w}]
        /\ pc' = pc
    BY <1>6, <2>1 DEF LockWallet
  <2>3. w \in {plan[p].debit, plan[p].credit}
    <3>1. plan[p].debit \in Nat /\ plan[p].credit \in Nat
      BY <1>3 DEF Plan
    <3>2. \E v \in ToLock(p) : \A u \in ToLock(p) : v <= u
      BY <1>6, <3>1, LeastNat DEF ToLock
    <3> QED
      BY <2>1, <3>2 DEF NextWallet, ToLock
  <2>4. TypeOK'
    <3>1. w \in Nat
      BY <1>3, <2>3 DEF Plan
    <3> QED
      BY <1>1, <2>2, <3>1 DEF LockWallet, TypeOK, LedgerTypeOK
  <2>5. AttemptInv(p)'
    BY <1>1, <1>2, <1>3, <1>4, <2>2 DEF TypeOK, AttemptInv, BodyOf, Holding, Working
  <2>6. ASSUME NEW q \in Attempt \ {p}
        PROVE  Exclusive(p, q)'
    <3>1. Exclusive(p, q)
      BY DEF PostingInv
    <3>2. locked'[p] = locked[p] \cup {w} /\ locked'[q] = locked[q]
      BY <1>1, <2>2 DEF TypeOK
    <3>3. w \in Wallet => w \notin locked[q]
      BY <2>2 DEF WalletFree
    <3> QED
      BY <1>1, <1>2, <2>2, <3>1, <3>2, <3>3 DEF Exclusive, KeyOf
  <2> QED
    BY <1>2, <2>4, <2>5, <2>6, LocalStep
<1> QED
  BY <1>5, <1>6

\* Loading the locked wallets and checking them.
LEMMA LoadWalletsInv ==
  ASSUME PostingInv, NEW p \in Attempt, LoadWallets(p)
  PROVE  PostingInv'
<1>1. TypeOK /\ AttemptInv(p) /\ pc[p] = "load"
  BY DEF PostingInv, LoadWallets
<1>2. CASE ~(WalletsValid(plan[p]) /\ SufficientBalance(plan[p]))
  BY <1>1, <1>2, RollbackInv DEF LoadWallets, Code, InTransaction
<1>3. CASE WalletsValid(plan[p]) /\ SufficientBalance(plan[p])
  <2>1. /\ pc' = [pc EXCEPT ![p] = "insert"]
        /\ UNCHANGED <<txs, avail, keys, req, plan, locked, origLock, seqs, answer>>
    BY <1>3 DEF LoadWallets, Goto
  <2>2. Alone(p)
    BY <1>1, <2>1 DEF TypeOK, Alone
  <2>3. TypeOK'
    BY <1>1, <2>1 DEF TypeOK, LedgerTypeOK, Step, InTransaction
  <2>4. AttemptInv(p)'
    <3>1. WellFormed(plan[p]) => WellFormed(plan[p])'
      BY <2>1 DEF WellFormed, Reversible, Mirror
    <3> QED
      BY <1>1, <1>3, <2>1, <3>1
         DEF TypeOK, AttemptInv, BodyOf, Holding, Working, Step, InTransaction,
             WalletsValid, SufficientBalance
  <2>5. \A q \in Attempt \ {p} : Exclusive(p, q)'
    BY <1>1, <2>1, <2>2, NoNewLock DEF TypeOK
  <2> QED
    BY <2>1, <2>2, <2>3, <2>4, <2>5, LocalStep
<1> QED
  BY <1>2, <1>3

\* Inserting the rows: uniqueness is settled against committed and pending rows.
LEMMA InsertRowsInv ==
  ASSUME PostingInv, NEW p \in Attempt, InsertRows(p)
  PROVE  PostingInv'
<1>1. TypeOK /\ AttemptInv(p) /\ LedgerInv /\ pc[p] = "insert" /\ UniqueFree(p)
  BY DEF PostingInv, InsertRows
<1>2. CASE \E code \in Code : Rollback(p, code)
  BY <1>1, <1>2, RollbackInv DEF InTransaction
<1>3. CASE ~(\E code \in Code : Rollback(p, code))
  <2>1. /\ KeyUnused(KeyOf(p))
        /\ plan[p].reversalOf # NoTx => NotReversed(plan[p].reversalOf)
        /\ plan[p].debit # plan[p].credit /\ InRange(plan[p])
        /\ seqs' = [seqs EXCEPT ![p] = <<NextEntrySeq(plan[p].debit), NextEntrySeq(plan[p].credit)>>]
        /\ pc' = [pc EXCEPT ![p] = "commit"]
        /\ UNCHANGED <<txs, avail, keys, req, plan, locked, origLock, answer>>
    BY <1>3 DEF InsertRows, Goto, Code
  <2>2. Alone(p)
    BY <1>1, <2>1 DEF TypeOK, Alone
  <2>3. TypeOK'
    <3>1. NextEntrySeq(plan[p].debit) \in Nat /\ NextEntrySeq(plan[p].credit) \in Nat
      BY <1>1, NextEntrySeqBound DEF LedgerInv
    <3> QED
      BY <1>1, <2>1, <3>1 DEF TypeOK, LedgerTypeOK, Step, InTransaction
  <2>4. AttemptInv(p)'
    <3>1. WellFormed(plan[p]) => WellFormed(plan[p])'
      BY <2>1 DEF WellFormed, Reversible, Mirror
    <3>2. /\ NextEntrySeq(plan[p].debit)' = NextEntrySeq(plan[p].debit)
          /\ NextEntrySeq(plan[p].credit)' = NextEntrySeq(plan[p].credit)
      BY <2>1 DEF NextEntrySeq, EntrySeqs
    <3>3. Ready(p)'
      BY <1>1, <2>1, <3>2 DEF TypeOK, Ready, InRange, KeyUnused, NotReversed, KeyOf
    <3> QED
      BY <1>1, <2>1, <3>1, <3>3
         DEF TypeOK, AttemptInv, BodyOf, Holding, Working, Step, InTransaction,
             WalletsValid, SufficientBalance
  <2>5. ASSUME NEW q \in Attempt \ {p}
        PROVE  Exclusive(p, q)'
    <3>1. Exclusive(p, q)
      BY DEF PostingInv
    <3>2. pc[q] = "commit" => KeyOf(p) # KeyOf(q)
      BY <1>1 DEF UniqueFree
    <3> QED
      BY <1>1, <2>1, <3>1, <3>2 DEF TypeOK, Exclusive, KeyOf
  <2> QED
    BY <2>1, <2>2, <2>3, <2>4, <2>5, LocalStep
<1> QED
  BY <1>2, <1>3

-----------------------------------------------------------------------------
\* The commit is a movement of the abstract ledger: everything checked under the
\* locks still holds.
LEMMA CommitPosts ==
  ASSUME PostingInv, NEW p \in Attempt, pc[p] = "commit", CommitEffect(p)
  PROVE  /\ KeyOf(p) \in Key
         /\ plan[p] \in CandidatePlan
         /\ PostOnce(KeyOf(p), plan[p])
<1>1. TypeOK /\ AttemptInv(p) /\ Ready(p)
  BY DEF PostingInv, AttemptInv
<1>2. KeyOf(p) \in Key
  BY <1>1, RequestAssumption DEF AttemptInv, KeyOf
<1>3. /\ plan[p] \in Plan /\ WellFormed(plan[p])
      /\ WalletsValid(plan[p]) /\ SufficientBalance(plan[p]) /\ InRange(plan[p])
  BY <1>1 DEF AttemptInv, Holding, Ready
<1>4. plan[p] \in CandidatePlan
  <2>1. Len(txs) \in Nat /\ DOMAIN txs = 1 .. Len(txs) /\ avail \in [Wallet -> Minor]
    BY <1>1, LenProperties DEF TypeOK, LedgerTypeOK
  <2>2. plan[p].reversalOf \in 0 .. Len(txs)
    BY <1>3, <2>1 DEF WellFormed, Reversible, NoTx
  <2>3. plan[p].debit \in Wallet /\ plan[p].credit \in Wallet
    BY <1>3 DEF WalletsValid
  <2>4. plan[p].amount \in 1 .. (2 * MaxMinor)
    <3>1. MaxMinor \in Nat /\ avail[plan[p].debit] \in -MaxMinor .. MaxMinor
      BY <2>1, <2>3, LedgerAssumption DEF Minor
    <3>2. plan[p].amount \in Nat \ {0} /\ avail[plan[p].debit] - plan[p].amount >= -MaxMinor
      BY <1>3 DEF Plan, InRange
    <3> QED
      BY <3>1, <3>2
  <2> QED
    BY <1>3, <2>2, <2>3, <2>4 DEF Plan, CandidatePlan
<1>5. /\ Record(KeyOf(p), plan[p], NextEntrySeq(plan[p].debit), NextEntrySeq(plan[p].credit))
      /\ ApplyBalanceDeltas(plan[p])
  BY <1>1 DEF CommitEffect, Ready
<1> QED
  BY <1>1, <1>2, <1>3, <1>4, <1>5 DEF PostOnce, Ready

\* What the commit of p leaves untouched for the other attempts.
LEMMA CommitLeaves ==
  ASSUME PostingInv, NEW p \in Attempt, pc[p] = "commit", CommitEffect(p)
  PROVE  /\ \A w \in Wallet \ locked[p] : avail'[w] = avail[w]
         /\ \A w \in Wallet \ locked[p] : NextEntrySeq(w)' = NextEntrySeq(w)
         /\ \A t \in DOMAIN txs : t \in DOMAIN txs' /\ (t # origLock[p] => txs'[t] = txs[t])
         /\ \A key : KeyUnused(key) /\ key # KeyOf(p) => KeyUnused(key)'
         /\ \A t : NotReversed(t) /\ t # origLock[p] => NotReversed(t)'
<1>1. TypeOK /\ AttemptInv(p) /\ LedgerInv
  BY DEF PostingInv
<1>2. /\ plan[p] \in Plan /\ plan[p].debit \in Wallet /\ plan[p].credit \in Wallet
      /\ origLock[p] = plan[p].reversalOf
      /\ plan[p].debit \in locked[p] /\ plan[p].credit \in locked[p]
  BY <1>1 DEF AttemptInv, Holding, WalletsValid
<1>3. KeyOf(p) \in Key /\ seqs[p][1] \in Nat /\ seqs[p][2] \in Nat
  BY <1>1, RequestAssumption DEF AttemptInv, KeyOf, TypeOK
<1>4. PICK key, pl, d, c : key = KeyOf(p) /\ pl = plan[p] /\ d = seqs[p][1] /\ c = seqs[p][2]
  OBVIOUS
<1> DEFINE n == Len(txs)
<1>5. /\ n \in Nat
      /\ DOMAIN txs = 1 .. n
      /\ DOMAIN txs' = 1 .. (n + 1)
      /\ \A i \in 1 .. n : txs[i] \in TxRow /\ txs'[i] = Marked(i, pl.reversalOf)
      /\ txs'[n + 1] = NewRow(key, pl, d, c)
  <2>1. Record(key, pl, d, c)
    BY <1>4 DEF CommitEffect
  <2> QED
    BY <1>1, <1>2, <1>3, <1>4, <2>1, RecordFacts DEF LedgerInv
<1>6. \A i \in 1 .. n :
        /\ txs'[i].key = txs[i].key /\ txs'[i].reversalOf = txs[i].reversalOf
        /\ txs'[i].debit = txs[i].debit /\ txs'[i].credit = txs[i].credit
        /\ txs'[i].debitSeq = txs[i].debitSeq /\ txs'[i].creditSeq = txs[i].creditSeq
  <2> SUFFICES ASSUME NEW i \in 1 .. n
               PROVE  /\ txs'[i].key = txs[i].key /\ txs'[i].reversalOf = txs[i].reversalOf
                      /\ txs'[i].debit = txs[i].debit /\ txs'[i].credit = txs[i].credit
                      /\ txs'[i].debitSeq = txs[i].debitSeq
                      /\ txs'[i].creditSeq = txs[i].creditSeq
    OBVIOUS
  <2>1. txs[i] \in TxRow /\ txs'[i] = Marked(i, pl.reversalOf)
    BY <1>5
  <2>2. CASE i = pl.reversalOf
    <3>1. txs'[i] = [txs[i] EXCEPT !.status = "REVERSED"]
      BY <2>1, <2>2 DEF Marked
    <3> QED
      BY <2>1, <3>1 DEF TxRow
  <2>3. CASE i # pl.reversalOf
    BY <2>1, <2>3 DEF Marked
  <2> QED
    BY <2>2, <2>3
<1>7. /\ txs'[n + 1].key = key /\ txs'[n + 1].reversalOf = pl.reversalOf
      /\ txs'[n + 1].debit = pl.debit /\ txs'[n + 1].credit = pl.credit
  BY <1>5 DEF NewRow
<1>8. \A w \in Wallet \ locked[p] : avail'[w] = avail[w]
  BY <1>1, <1>2 DEF CommitEffect, ApplyBalanceDeltas, TypeOK, LedgerTypeOK
<1>9. ASSUME NEW w \in Wallet \ locked[p]
      PROVE  NextEntrySeq(w)' = NextEntrySeq(w)
  <2>1. w # pl.debit /\ w # pl.credit
    BY <1>2, <1>4
  <2>2. {j \in DOMAIN txs' : txs'[j].debit = w} = {j \in DOMAIN txs : txs[j].debit = w}
    BY <1>5, <1>6, <1>7, <2>1
  <2>3. {j \in DOMAIN txs' : txs'[j].credit = w} = {j \in DOMAIN txs : txs[j].credit = w}
    BY <1>5, <1>6, <1>7, <2>1
  <2>4. EntrySeqs(w)' = EntrySeqs(w)
    BY <1>5, <1>6, <2>2, <2>3 DEF EntrySeqs
  <2> QED
    BY <2>4, NextEntrySeqStable
<1>10. \A t \in DOMAIN txs : t \in DOMAIN txs' /\ (t # origLock[p] => txs'[t] = txs[t])
  <2> SUFFICES ASSUME NEW t \in DOMAIN txs
               PROVE  t \in DOMAIN txs' /\ (t # origLock[p] => txs'[t] = txs[t])
    OBVIOUS
  <2>1. t \in 1 .. n /\ t \in 1 .. (n + 1)
    BY <1>5
  <2>2. txs'[t] = Marked(t, origLock[p])
    BY <1>2, <1>4, <1>5, <2>1
  <2> QED
    BY <1>5, <2>1, <2>2 DEF Marked
<1>11. \A k : KeyUnused(k) /\ k # KeyOf(p) => KeyUnused(k)'
  BY <1>4, <1>5, <1>6, <1>7 DEF KeyUnused
<1>12. \A t : NotReversed(t) /\ t # origLock[p] => NotReversed(t)'
  BY <1>2, <1>4, <1>5, <1>6, <1>7 DEF NotReversed
<1> QED
  BY <1>8, <1>9, <1>10, <1>11, <1>12

\* Another attempt's reliance survives the commit: it touches only rows p locked.
LEMMA CommitOthers ==
  ASSUME PostingInv, NEW p \in Attempt, pc[p] = "commit", CommitEffect(p), Alone(p),
         NEW q \in Attempt, q # p
  PROVE  AttemptInv(q)'
<1>1. TypeOK /\ AttemptInv(p) /\ AttemptInv(q) /\ Exclusive(p, q)
  BY DEF PostingInv
<1>2. /\ pc'[q] = pc[q] /\ req'[q] = req[q] /\ plan'[q] = plan[q]
      /\ locked'[q] = locked[q] /\ origLock'[q] = origLock[q] /\ seqs'[q] = seqs[q]
  BY DEF Alone
<1>3. ASSUME pc[q] \in Holding
      PROVE  WellFormed(plan[q])'
  <2>1. WellFormed(plan[q]) /\ origLock[q] = plan[q].reversalOf
    BY <1>1, <1>3 DEF AttemptInv
  <2>2. plan[q].reversalOf # NoTx => plan[q].reversalOf # origLock[p]
    BY <1>1, <2>1 DEF Exclusive
  <2> QED
    BY <1>2, <2>1, <2>2, CommitLeaves DEF WellFormed, Reversible, Mirror
<1>4. ASSUME pc[q] \in {"insert", "commit"}
      PROVE  WalletsValid(plan[q])' /\ SufficientBalance(plan[q])'
  <2>1. /\ WalletsValid(plan[q]) /\ SufficientBalance(plan[q])
        /\ plan[q].debit \in Wallet \ locked[p]
    BY <1>1, <1>4 DEF AttemptInv, WalletsValid, Exclusive
  <2>2. avail'[plan[q].debit] = avail[plan[q].debit]
    BY <2>1, CommitLeaves
  <2> QED
    BY <1>2, <2>1, <2>2 DEF WalletsValid, SufficientBalance
<1>5. ASSUME pc[q] = "commit"
      PROVE  Ready(q)'
  <2>1. /\ Ready(q) /\ KeyOf(q) # KeyOf(p)
        /\ plan[q].debit \in Wallet \ locked[p] /\ plan[q].credit \in Wallet \ locked[p]
    BY <1>1, <1>5 DEF AttemptInv, WalletsValid, Exclusive
  <2>2. plan[q].reversalOf # NoTx => plan[q].reversalOf # origLock[p]
    BY <1>1, <1>5 DEF Exclusive, AttemptInv, Holding
  <2>3. InRange(plan[q])'
    BY <1>2, <2>1, CommitLeaves DEF Ready, InRange
  <2>4. KeyUnused(KeyOf(q))'
    <3>1. PICK key : key = KeyOf(q)
      OBVIOUS
    <3>2. KeyUnused(key)'
      BY <2>1, <3>1, CommitLeaves DEF Ready
    <3> QED
      BY <1>2, <3>1, <3>2 DEF KeyUnused, KeyOf
  <2>5. (plan[q].reversalOf # NoTx => NotReversed(plan[q].reversalOf))'
    <3>1. PICK t : t = plan[q].reversalOf
      OBVIOUS
    <3>2. t # NoTx => NotReversed(t)'
      BY <2>1, <2>2, <3>1, CommitLeaves DEF Ready
    <3> QED
      BY <1>2, <3>1, <3>2 DEF NotReversed
  <2>6. (seqs[q] = <<NextEntrySeq(plan[q].debit), NextEntrySeq(plan[q].credit)>>)'
    <3>1. PICK v, w : v = plan[q].debit /\ w = plan[q].credit
      OBVIOUS
    <3>2. NextEntrySeq(v)' = NextEntrySeq(v) /\ NextEntrySeq(w)' = NextEntrySeq(w)
      BY <2>1, <3>1, CommitLeaves
    <3>3. NextEntrySeq(plan[q].debit)' = NextEntrySeq(v)' /\ NextEntrySeq(plan[q].credit)' = NextEntrySeq(w)'
      BY <1>2, <3>1 DEF NextEntrySeq, EntrySeqs
    <3>4. seqs[q] = <<NextEntrySeq(v), NextEntrySeq(w)>>
      BY <2>1, <3>1 DEF Ready
    <3> QED
      BY <1>2, <3>2, <3>3, <3>4
  <2> QED
    BY <1>2, <2>1, <2>3, <2>4, <2>5, <2>6 DEF Ready
<1> QED
  BY <1>1, <1>2, <1>3, <1>4, <1>5 DEF AttemptInv, BodyOf

\* The commit, acknowledged or not, preserves the invariant.
LEMMA CommitInv ==
  ASSUME PostingInv, NEW p \in Attempt, Commit(p) \/ CommitUnacknowledged(p)
  PROVE  PostingInv'
<1>1. TypeOK /\ AttemptInv(p) /\ LedgerInv /\ pc[p] = "commit" /\ CommitEffect(p)
  BY DEF PostingInv, Commit, CommitUnacknowledged
<1>2. /\ pc' \in {[pc EXCEPT ![p] = "replied"], [pc EXCEPT ![p] = "release"]}
      /\ locked' = [locked EXCEPT ![p] = {}] /\ origLock' = [origLock EXCEPT ![p] = NoTx]
      /\ UNCHANGED <<req, plan, seqs>>
      /\ answer' \in {[answer EXCEPT ![p] = Created(Len(txs) + 1)],
                      [answer EXCEPT ![p] = Error("Failed")]}
  BY DEF Commit, CommitUnacknowledged, CommitEffect, DropLocks, Reply, Goto
<1>3. Alone(p)
  BY <1>1, <1>2 DEF TypeOK, Alone
<1>4. PICK key \in Key, pl \in CandidatePlan : key = KeyOf(p) /\ pl = plan[p] /\ PostOnce(key, pl)
  BY <1>1, CommitPosts
<1>5. LedgerInv'
  BY <1>1, <1>4, PostOnceInv
<1>6. Len(txs) \in Nat
  BY <1>1 DEF TypeOK, LedgerTypeOK
<1>7. TypeOK'
  <2>1. keys' \in [Key -> KeyRow \cup {None}]
    <3>1. keys[key] \in KeyRow
      BY <1>1, <1>4 DEF CommitEffect, TypeOK
    <3>2. [keys[key] EXCEPT !.state = "COMPLETED", !.response = Len(txs) + 1] \in KeyRow
      <4>1. PICK m \in Nat : m = Len(txs) + 1
        BY <1>6
      <4>2. [keys[key] EXCEPT !.state = "COMPLETED", !.response = m] \in KeyRow
        BY <3>1 DEF KeyRow
      <4> QED
        BY <4>1, <4>2
    <3>3. keys' = [keys EXCEPT ![key] =
                     [keys[key] EXCEPT !.state = "COMPLETED", !.response = Len(txs) + 1]]
      BY <1>1, <1>4 DEF CommitEffect, TypeOK
    <3> QED
      BY <1>1, <3>2, <3>3 DEF TypeOK
  <2>2. pc' \in [Attempt -> Step] /\ answer' \in [Attempt -> [code : Code, tx : Nat]]
    <3>1. /\ Created(Len(txs) + 1) \in [code : Code, tx : Nat]
          /\ Error("Failed") \in [code : Code, tx : Nat]
      BY <1>6 DEF Code, Created, Error, NoTx
    <3>2. pc' \in [Attempt -> Step]
      BY <1>1, <1>2 DEF TypeOK, Step
    <3>3. PICK a \in [code : Code, tx : Nat] : answer' = [answer EXCEPT ![p] = a]
      BY <1>2, <3>1
    <3>4. answer \in [Attempt -> [code : Code, tx : Nat]]
      BY <1>1 DEF TypeOK
    <3> QED
      BY <3>2, <3>3, <3>4
  <2>3. locked' \in [Attempt -> SUBSET Nat] /\ origLock' \in [Attempt -> Nat]
    BY <1>1, <1>2 DEF TypeOK, NoTx
  <2> QED
    BY <1>1, <1>2, <1>5, <2>1, <2>2, <2>3 DEF TypeOK, LedgerInv
<1>8. AttemptInv(p)'
  BY <1>1, <1>2 DEF TypeOK, AttemptInv, BodyOf, Holding, Working, Step, InTransaction
<1>9. \A q \in Attempt : AttemptInv(q)'
  BY <1>1, <1>3, <1>8, CommitOthers
<1>10. \A q, r \in Attempt : q # r => Exclusive(q, r)'
  <2>1. \A q \in Attempt \ {p} : Exclusive(p, q)'
    BY <1>1, <1>2, <1>3, NoNewLock DEF TypeOK
  <2>2. \A q, r \in Attempt \ {p} : q # r => Exclusive(q, r)'
    BY <1>3 DEF PostingInv, Exclusive, Alone, KeyOf
  <2>3. \A q \in Attempt \ {p} : Exclusive(q, p)'
    BY <2>1 DEF Exclusive
  <2> QED
    BY <2>1, <2>2, <2>3
<1> QED
  BY <1>5, <1>7, <1>9, <1>10 DEF PostingInv

-----------------------------------------------------------------------------
\* Every step of the service or of its environment preserves the invariant.
LEMMA NextInv ==
  ASSUME PostingInv, [Next]_vars
  PROVE  PostingInv'
<1>1. ASSUME NEW p \in Attempt, NEW r \in Request, Receive(p, r) PROVE PostingInv'
  BY <1>1, ReceiveInv
<1>2. ASSUME NEW p \in Attempt, Serve(p) PROVE PostingInv'
  <2>1. CASE FindKey(p) \/ Reclaim(p) \/ CreateKey(p) \/ RereadKey(p)
    BY <2>1, FindKeyInv, ReclaimInv, CreateKeyInv, RereadKeyInv
  <2>2. CASE PlanPosting(p) \/ PlanReversal(p) \/ LockWallet(p)
    BY <2>2, PlanPostingInv, PlanReversalInv, LockWalletInv
  <2>3. CASE LoadWallets(p) \/ InsertRows(p)
    BY <2>3, LoadWalletsInv, InsertRowsInv
  <2>4. CASE Commit(p)
    BY <2>4, CommitInv
  <2>5. CASE CommitFails(p)
    BY <2>5, RollbackInv DEF CommitFails, InTransaction, Code
  <2>6. CASE ReleaseKey(p) \/ Deliver(p)
    BY <2>6, ReleaseKeyInv, ResetInv
  <2> QED
    BY <1>2, <2>1, <2>2, <2>3, <2>4, <2>5, <2>6 DEF Serve
<1>3. ASSUME NEW p \in Attempt, Fault(p) PROVE PostingInv'
  <2>1. CASE CommitUnacknowledged(p)
    BY <2>1, CommitInv
  <2>2. CASE TransactionError(p)
    BY <2>2, RollbackInv DEF TransactionError, Code
  <2>3. CASE ReleaseKeyFails(p) \/ Crash(p)
    BY <2>3, ReleaseKeyInv, ResetInv
  <2> QED
    BY <1>3, <2>1, <2>2, <2>3 DEF Fault
<1>4. ASSUME NEW key \in Key, StaleElapses(key) PROVE PostingInv'
  BY <1>4, StaleElapsesInv
<1>5. CASE UNCHANGED vars
  <2>1. UNCHANGED <<txs, avail, keys, pc, req, plan, locked, origLock, seqs, answer>>
    BY <1>5 DEF vars, attemptVars
  <2>2. TypeOK' /\ LedgerInv'
    BY <2>1 DEF PostingInv, TypeOK, LedgerInv, LedgerTypeOK, SeqsBounded, OncePerKey,
                ReverseOnce, NoOverdraft, ReversalMirrors
  <2>3. ASSUME NEW q \in Attempt
        PROVE  AttemptInv(q)'
    <3>1. AttemptInv(q)
      BY DEF PostingInv
    <3>2. \A w : NextEntrySeq(w)' = NextEntrySeq(w)
      BY <2>1 DEF NextEntrySeq, EntrySeqs
    <3>3. Ready(q) => Ready(q)'
      BY <2>1, <3>2 DEF Ready, InRange, KeyUnused, NotReversed, KeyOf
    <3>4. WellFormed(plan[q]) => WellFormed(plan[q])'
      BY <2>1 DEF WellFormed, Reversible, Mirror
    <3> QED
      BY <2>1, <3>1, <3>3, <3>4 DEF AttemptInv, BodyOf, WalletsValid, SufficientBalance
  <2>4. \A q, r \in Attempt : q # r => Exclusive(q, r)'
    BY <2>1 DEF PostingInv, Exclusive, KeyOf
  <2> QED
    BY <2>2, <2>3, <2>4 DEF PostingInv
<1> QED
  BY <1>1, <1>2, <1>3, <1>4, <1>5 DEF Next

\* The initial state satisfies the invariant.
LEMMA InitInv == Init => PostingInv
<1> SUFFICES ASSUME Init PROVE PostingInv
  OBVIOUS
<1>1. LedgerInv
  <2>1. txs = <<>> /\ avail = Opening /\ DOMAIN txs = {} /\ txs \in Seq(TxRow)
    BY DEF Init, LedgerInit
  <2>2. avail \in [Wallet -> Minor] /\ NoOverdraft
    BY <2>1, LedgerAssumption DEF NoOverdraft
  <2> QED
    BY <2>1, <2>2 DEF LedgerInv, LedgerTypeOK, SeqsBounded, OncePerKey, ReverseOnce, ReversalMirrors
<1>2. TypeOK
  <2>1. <<0, 0>> \in Nat \X Nat /\ NoAnswer \in [code : Code, tx : Nat]
    BY DEF NoAnswer, Code, NoTx
  <2>2. seqs \in [Attempt -> Nat \X Nat] /\ answer \in [Attempt -> [code : Code, tx : Nat]]
    BY <2>1 DEF Init
  <2> QED
    BY <1>1, <2>2 DEF Init, TypeOK, LedgerInv, Step, NoTx
<1>3. \A p \in Attempt : AttemptInv(p)
  BY DEF Init, AttemptInv, Holding, Working
<1>4. \A p, q \in Attempt : p # q => Exclusive(p, q)
  BY DEF Init, Exclusive
<1> QED
  BY <1>1, <1>2, <1>3, <1>4 DEF PostingInv

\* post() keeps its promises for any number of concurrent attempts, retries,
\* crashes and faults: PostingInv always holds.
THEOREM PostingSafe == Spec => []PostingInv
<1>1. Init => PostingInv
  BY InitInv
<1>2. PostingInv /\ [Next]_vars => PostingInv'
  BY NextInv
<1> QED
  BY <1>1, <1>2, PTL DEF Spec

\* Type correctness of the posting service.
THEOREM PostingTypeCorrect == Spec => []TypeOK
BY PostingSafe, PTL DEF PostingInv

\* One Idempotency-Key moves money at most once, whatever is retried, reclaimed,
\* crashed or left unacknowledged.
THEOREM PostsOncePerKey == Spec => []OncePerKey
BY PostingSafe, PTL DEF PostingInv, LedgerInv

\* A transaction is reversed at most once, and REVERSED says exactly that.
THEOREM ReversesOnce == Spec => []ReverseOnce
BY PostingSafe, PTL DEF PostingInv, LedgerInv

\* Concurrent debits never overdraw a customer wallet.
THEOREM NeverOverdraws == Spec => []NoOverdraft
BY PostingSafe, PTL DEF PostingInv, LedgerInv

-----------------------------------------------------------------------------
\* A step that is not a commit leaves the ledger alone.
LEMMA OnlyCommitMoves ==
  ASSUME [Next]_vars
  PROVE  \/ UNCHANGED ledgerVars
         \/ \E p \in Attempt : pc[p] = "commit" /\ CommitEffect(p)
<1>1. ASSUME NEW p \in Attempt, NEW r \in Request, Receive(p, r) PROVE UNCHANGED ledgerVars
  BY <1>1 DEF Receive, ledgerVars
<1>2. ASSUME NEW p \in Attempt, NEW code, Rollback(p, code) PROVE UNCHANGED ledgerVars
  BY <1>2 DEF Rollback, ledgerVars
<1>3. ASSUME NEW p \in Attempt, Serve(p), ~Commit(p) PROVE UNCHANGED ledgerVars
  <2>1. CASE FindKey(p) \/ Reclaim(p) \/ CreateKey(p) \/ RereadKey(p)
    BY <2>1 DEF FindKey, Reclaim, CreateKey, RereadKey, ledgerVars
  <2>2. CASE PlanPosting(p)
    BY <2>2, <1>2 DEF PlanPosting, ledgerVars
  <2>3. CASE PlanReversal(p)
    BY <2>3, <1>2 DEF PlanReversal, ledgerVars
  <2>4. CASE LockWallet(p)
    BY <2>4 DEF LockWallet, ledgerVars
  <2>5. CASE LoadWallets(p)
    BY <2>5, <1>2 DEF LoadWallets, ledgerVars
  <2>6. CASE InsertRows(p)
    BY <2>6, <1>2 DEF InsertRows, ledgerVars
  <2>7. CASE CommitFails(p)
    BY <2>7, <1>2 DEF CommitFails
  <2>8. CASE ReleaseKey(p) \/ Deliver(p)
    BY <2>8 DEF ReleaseKey, Deliver, ledgerVars
  <2> QED
    BY <1>3, <2>1, <2>2, <2>3, <2>4, <2>5, <2>6, <2>7, <2>8 DEF Serve
<1>4. ASSUME NEW p \in Attempt, Fault(p), ~CommitUnacknowledged(p) PROVE UNCHANGED ledgerVars
  BY <1>2, <1>4 DEF Fault, TransactionError, ReleaseKeyFails, Crash, ledgerVars
<1>5. ASSUME NEW key \in Key, StaleElapses(key) PROVE UNCHANGED ledgerVars
  BY <1>5 DEF StaleElapses, ledgerVars
<1>6. ASSUME NEW p \in Attempt, Commit(p) \/ CommitUnacknowledged(p)
      PROVE  pc[p] = "commit" /\ CommitEffect(p)
  BY <1>6 DEF Commit, CommitUnacknowledged
<1>7. CASE UNCHANGED vars
  BY <1>7 DEF vars, ledgerVars
<1> QED
  BY <1>1, <1>3, <1>4, <1>5, <1>6, <1>7 DEF Next

\* A commit appends a row, so it is never a stuttering step of the ledger.
LEMMA CommitIsMovement ==
  ASSUME PostingInv, NEW p \in Attempt, pc[p] = "commit", CommitEffect(p)
  PROVE  LedgerNext
<1>1. PICK key \in Key, pl \in CandidatePlan : PostOnce(key, pl)
  BY CommitPosts
<1>2. LedgerInv
  BY DEF PostingInv
<1>3. pl \in Plan /\ pl.debit \in Wallet /\ pl.credit \in Wallet
  BY <1>2, CandidateIsPlan DEF LedgerInv
<1>4. PICK d \in Nat, c \in Nat : Record(key, pl, d, c)
  BY <1>1, <1>2, NextEntrySeqBound DEF PostOnce, LedgerInv
<1>5. Len(txs') = Len(txs) + 1 /\ Len(txs) \in Nat
  BY <1>2, <1>3, <1>4, RecordFacts DEF LedgerInv
<1>6. txs' # txs
  BY <1>5
<1> QED
  BY <1>1, <1>6 DEF LedgerNext

\* post() implements the abstract ledger: each step is one complete movement or
\* leaves the committed ledger unchanged.
THEOREM PostingImplementsLedger == Spec => LedgerSpec
<1>1. Init => LedgerInit
  BY DEF Init
<1>2. PostingInv /\ [Next]_vars => [LedgerNext]_ledgerVars
  BY OnlyCommitMoves, CommitIsMovement
<1> QED
  BY <1>1, <1>2, PostingSafe, PTL DEF Spec, LedgerSpec

\* The books of the posting service balance, whatever is interleaved, retried or
\* crashed: each balance is the opening one plus the wallet's entries, and
\* MAX(entry_seq) + 1 numbers the entries without duplicate or gap.
THEOREM PostingBooksBalance == Spec => []BooksBalance
BY PostingImplementsLedger, BooksAlwaysBalance, PTL

-----------------------------------------------------------------------------
\* An attempt carries a 201 only once it has answered.
Durable ==
  /\ AnswersAreDurable
  /\ \A p \in Attempt : answer[p].code = "Created" => pc[p] = "replied"

\* Committed rows keep their key.
LEMMA KeysOfRowsKept ==
  ASSUME PostingInv, [Next]_vars
  PROVE  \A t \in DOMAIN txs : t \in DOMAIN txs' /\ txs'[t].key = txs[t].key
<1>1. CASE UNCHANGED ledgerVars
  BY <1>1 DEF ledgerVars
<1>2. ASSUME NEW p \in Attempt, pc[p] = "commit", CommitEffect(p)
      PROVE  \A t \in DOMAIN txs : t \in DOMAIN txs' /\ txs'[t].key = txs[t].key
  <2>1. PICK key \in Key, pl \in CandidatePlan : PostOnce(key, pl)
    BY <1>2, CommitPosts
  <2>2. LedgerInv
    BY DEF PostingInv
  <2>3. pl \in Plan /\ pl.debit \in Wallet /\ pl.credit \in Wallet
    BY <2>2, CandidateIsPlan DEF LedgerInv
  <2>4. PICK d \in Nat, c \in Nat : Record(key, pl, d, c)
    BY <2>1, <2>2, NextEntrySeqBound DEF PostOnce, LedgerInv
  <2>5. /\ Len(txs) \in Nat /\ DOMAIN txs = 1 .. Len(txs) /\ DOMAIN txs' = 1 .. (Len(txs) + 1)
        /\ \A i \in 1 .. Len(txs) : txs[i] \in TxRow /\ txs'[i] = Marked(i, pl.reversalOf)
    BY <2>2, <2>3, <2>4, RecordFacts DEF LedgerInv
  <2> SUFFICES ASSUME NEW t \in DOMAIN txs
               PROVE  t \in DOMAIN txs' /\ txs'[t].key = txs[t].key
    OBVIOUS
  <2>6. t \in 1 .. Len(txs) /\ t \in 1 .. (Len(txs) + 1)
    BY <2>5
  <2>7. txs[t] \in TxRow /\ txs'[t] = Marked(t, pl.reversalOf)
    BY <2>5, <2>6
  <2>8. txs'[t].key = txs[t].key
    BY <2>7 DEF Marked, TxRow
  <2> QED
    BY <2>5, <2>6, <2>8
<1> QED
  BY <1>1, <1>2, OnlyCommitMoves

\* Answers: a step of attempt p that sets no 201 keeps Durable.
LEMMA DurableStep ==
  ASSUME PostingInv, Durable, [Next]_vars, NEW p \in Attempt, Alone(p),
         answer'[p].code = "Created" =>
           /\ pc'[p] = "replied"
           /\ answer'[p].tx \in DOMAIN txs' /\ txs'[answer'[p].tx].key = req'[p].key,
         \A key \in Key : keys'[key] # None /\ keys'[key].state = "COMPLETED" =>
           /\ keys'[key].response \in DOMAIN txs'
           /\ txs'[keys'[key].response].key = key
  PROVE  Durable'
<1>1. ASSUME NEW q \in Attempt, answer'[q].code = "Created"
      PROVE  /\ pc'[q] = "replied"
             /\ answer'[q].tx \in DOMAIN txs' /\ txs'[answer'[q].tx].key = KeyOf(q)'
  <2>1. CASE q = p
    BY <1>1, <2>1 DEF KeyOf
  <2>2. CASE q # p
    <3>1. answer'[q] = answer[q] /\ pc'[q] = pc[q] /\ req'[q] = req[q]
      BY <2>2 DEF Alone
    <3>2. /\ pc[q] = "replied" /\ answer[q].tx \in DOMAIN txs
          /\ txs[answer[q].tx].key = KeyOf(q)
      BY <1>1, <3>1 DEF Durable, AnswersAreDurable
    <3> QED
      BY <3>1, <3>2, KeysOfRowsKept DEF KeyOf
  <2> QED
    BY <2>1, <2>2
<1> QED
  BY <1>1 DEF Durable, AnswersAreDurable

\* A key row that a step keeps, drops or claims afresh stays truthful.
LEMMA QuietDurable ==
  ASSUME PostingInv, Durable, [Next]_vars, NEW p \in Attempt, Alone(p),
         \A key \in Key : \/ keys'[key] = keys[key]
                         \/ keys'[key] = None
                         \/ keys'[key].state = "IN_PROGRESS",
         answer'[p].code = "Created" =>
           /\ pc'[p] = "replied" /\ req'[p] = req[p]
           /\ answer'[p].tx \in DOMAIN txs /\ txs[answer'[p].tx].key = KeyOf(p)
  PROVE  Durable'
<1>1. answer'[p].code = "Created" =>
        /\ pc'[p] = "replied"
        /\ answer'[p].tx \in DOMAIN txs' /\ txs'[answer'[p].tx].key = req'[p].key
  BY KeysOfRowsKept DEF KeyOf
<1>2. ASSUME NEW key \in Key, keys'[key] # None, keys'[key].state = "COMPLETED"
      PROVE  /\ keys'[key].response \in DOMAIN txs'
             /\ txs'[keys'[key].response].key = key
  <2>1. keys'[key] = keys[key]
    BY <1>2
  <2>2. keys[key].response \in DOMAIN txs /\ txs[keys[key].response].key = key
    BY <1>2, <2>1 DEF Durable, AnswersAreDurable
  <2> QED
    BY <2>1, <2>2, KeysOfRowsKept
<1> QED
  BY <1>1, <1>2, DurableStep

\* Replaying a row answers with the transaction it caches.
LEMMA ResolveDurable ==
  ASSUME PostingInv, Durable, NEW p \in Attempt, KeyOf(p) \in Key, keys[KeyOf(p)] # None,
         NEW a, a = ResolveExisting(keys[KeyOf(p)], BodyOf(p)), a.code = "Created"
  PROVE  a.tx \in DOMAIN txs /\ txs[a.tx].key = KeyOf(p)
<1>1. keys[KeyOf(p)].state = "COMPLETED" /\ a = Created(keys[KeyOf(p)].response)
  BY DEF ResolveExisting, Error, Created
<1>2. a.tx = keys[KeyOf(p)].response
  BY <1>1 DEF Created
<1> QED
  BY <1>1, <1>2 DEF Durable, AnswersAreDurable

\* The commit caches and answers with the row it has just written.
LEMMA CommitDurable ==
  ASSUME PostingInv, Durable, [Next]_vars, NEW p \in Attempt,
         Commit(p) \/ CommitUnacknowledged(p)
  PROVE  Durable'
<1>1. TypeOK /\ AttemptInv(p) /\ pc[p] = "commit" /\ CommitEffect(p) /\ LedgerInv
  BY DEF PostingInv, Commit, CommitUnacknowledged
<1>2. PICK n : n = Len(txs) + 1
  OBVIOUS
<1>3. PICK key \in Key, pl \in CandidatePlan : key = KeyOf(p) /\ pl = plan[p]
  BY <1>1, CommitPosts
<1>4. PICK d \in Nat, c \in Nat : Record(key, pl, d, c)
  BY <1>1, <1>3 DEF CommitEffect, TypeOK
<1>5. n \in DOMAIN txs' /\ txs'[n].key = key
  <2>1. pl \in Plan /\ pl.debit \in Wallet /\ pl.credit \in Wallet
    BY <1>1, CandidateIsPlan DEF LedgerInv
  <2>2. /\ Len(txs) \in Nat /\ DOMAIN txs' = 1 .. (Len(txs) + 1)
        /\ txs'[Len(txs) + 1] = NewRow(key, pl, d, c)
    BY <1>1, <1>4, <2>1, RecordFacts DEF LedgerInv
  <2> QED
    BY <1>2, <2>2 DEF NewRow
<1>6. Alone(p) /\ req' = req
  BY <1>1 DEF Commit, CommitUnacknowledged, CommitEffect, DropLocks, Reply, Goto, TypeOK, Alone
<1>7. answer'[p].code = "Created" =>
        /\ pc'[p] = "replied"
        /\ answer'[p].tx \in DOMAIN txs' /\ txs'[answer'[p].tx].key = req'[p].key
  <2>1. CASE Commit(p)
    <3>1. answer'[p] = Created(n) /\ pc'[p] = "replied"
      BY <1>1, <1>2, <2>1 DEF Commit, Reply, Goto, TypeOK
    <3> QED
      BY <1>3, <1>5, <1>6, <3>1 DEF Created, KeyOf
  <2>2. CASE CommitUnacknowledged(p)
    <3>1. answer'[p] = Error("Failed")
      BY <1>1, <2>2 DEF CommitUnacknowledged, TypeOK
    <3> QED
      BY <3>1 DEF Error
  <2> QED
    BY <2>1, <2>2
<1>8. ASSUME NEW k \in Key, keys'[k] # None, keys'[k].state = "COMPLETED"
      PROVE  keys'[k].response \in DOMAIN txs' /\ txs'[keys'[k].response].key = k
  <2>0. keys' = [keys EXCEPT ![key] = [keys[key] EXCEPT !.state = "COMPLETED", !.response = n]]
    BY <1>1, <1>2, <1>3 DEF CommitEffect, TypeOK
  <2>1. CASE k = key
    <3>1. keys[key] \in KeyRow
      BY <1>1, <1>3 DEF CommitEffect, TypeOK
    <3>2. keys'[key].response = n
      BY <1>1, <2>0, <3>1 DEF TypeOK, KeyRow
    <3> QED
      BY <1>5, <2>1, <3>2
  <2>2. CASE k # key
    <3>1. keys'[k] = keys[k]
      BY <1>1, <2>0, <2>2 DEF TypeOK
    <3>2. keys[k].response \in DOMAIN txs /\ txs[keys[k].response].key = k
      BY <1>8, <3>1 DEF Durable, AnswersAreDurable
    <3> QED
      BY <3>1, <3>2, KeysOfRowsKept
  <2> QED
    BY <2>1, <2>2
<1> QED
  BY <1>6, <1>7, <1>8, DurableStep

\* A rolled-back transaction answers with an error and leaves the keys alone.
LEMMA RollbackDurable ==
  ASSUME PostingInv, Durable, [Next]_vars, NEW p \in Attempt, NEW code,
         code \in Code \ {"Created"}, Rollback(p, code)
  PROVE  Durable'
<1>1. Alone(p) /\ keys' = keys /\ answer'[p] = Error(code)
  BY DEF PostingInv, TypeOK, Rollback, Goto, DropLocks, Alone
<1>2. answer'[p].code # "Created"
  BY <1>1 DEF Error
<1> QED
  BY <1>1, <1>2, QuietDurable

\* A step before the answer, and one that clears it, claims nothing.
LEMMA SilentDurable ==
  ASSUME PostingInv, Durable, [Next]_vars, NEW p \in Attempt, pc[p] # "replied",
         answer' = answer, Alone(p),
         \A key \in Key : \/ keys'[key] = keys[key]
                         \/ keys'[key] = None
                         \/ keys'[key].state = "IN_PROGRESS"
  PROVE  Durable'
<1>1. answer'[p].code # "Created"
  BY DEF Durable
<1> QED
  BY <1>1, QuietDurable

\* The idempotency guard, the transaction and the catch block keep Durable.
LEMMA ServeDurable ==
  ASSUME PostingInv, Durable, [Next]_vars, NEW p \in Attempt, Serve(p)
  PROVE  Durable'
<1>0. TypeOK /\ AttemptInv(p)
  BY DEF PostingInv
<1>k. pc[p] # "idle" => KeyOf(p) \in Key
  BY <1>0, RequestAssumption DEF AttemptInv, KeyOf
<1>1. CASE FindKey(p)
  <2>1. Alone(p) /\ keys' = keys /\ req' = req /\ pc[p] = "find"
    BY <1>0, <1>1 DEF FindKey, Goto, Reply, TypeOK, Alone
  <2>2. CASE answer' = answer
    BY <2>1, <2>2, SilentDurable
  <2>3. CASE answer' # answer
    <3>1. /\ keys[KeyOf(p)] # None /\ pc'[p] = "replied"
          /\ answer'[p] = ResolveExisting(keys[KeyOf(p)], BodyOf(p))
      BY <1>0, <1>1, <2>3 DEF FindKey, Goto, Reply, TypeOK
    <3> QED
      BY <1>k, <2>1, <3>1, ResolveDurable, QuietDurable
  <2> QED
    BY <2>2, <2>3
<1>2. CASE RereadKey(p)
  <2>1. Alone(p) /\ keys' = keys /\ req' = req /\ pc[p] = "reread" /\ pc'[p] = "replied"
    BY <1>0, <1>2 DEF RereadKey, Goto, Reply, TypeOK, Alone
  <2>2. CASE keys[KeyOf(p)] = None
    <3>1. answer'[p] = Error("Failed")
      BY <1>0, <1>2, <2>2 DEF RereadKey, Reply, TypeOK
    <3>2. answer'[p].code # "Created"
      BY <3>1 DEF Error
    <3> QED
      BY <2>1, <3>2, QuietDurable
  <2>3. CASE keys[KeyOf(p)] # None
    <3>1. answer'[p] = ResolveExisting(keys[KeyOf(p)], BodyOf(p))
      BY <1>0, <1>2, <2>3 DEF RereadKey, Reply, TypeOK
    <3> QED
      BY <1>k, <2>1, <2>3, <3>1, ResolveDurable, QuietDurable
  <2> QED
    BY <2>2, <2>3
<1>3. CASE Reclaim(p) \/ ReleaseKey(p)
  <2>1. Alone(p) /\ answer' = answer /\ pc[p] # "replied"
    BY <1>0, <1>3 DEF Reclaim, ReleaseKey, Goto, TypeOK, Alone
  <2>2. ASSUME NEW key \in Key PROVE keys'[key] = keys[key] \/ keys'[key] = None
    BY <1>0, <1>3 DEF Reclaim, ReleaseKey, TypeOK
  <2> QED
    BY <2>1, <2>2, SilentDurable
<1>4. CASE CreateKey(p)
  <2>1. Alone(p) /\ answer' = answer /\ pc[p] # "replied"
    BY <1>0, <1>4 DEF CreateKey, Goto, TypeOK, Alone
  <2>2. ASSUME NEW key \in Key
        PROVE  keys'[key] = keys[key] \/ keys'[key].state = "IN_PROGRESS"
    BY <1>0, <1>4 DEF CreateKey, TypeOK
  <2> QED
    BY <2>1, <2>2, SilentDurable
<1>5. CASE \E code \in Code \ {"Created"} : Rollback(p, code)
  BY <1>5, RollbackDurable
<1>6. CASE /\ PlanPosting(p) \/ PlanReversal(p) \/ LoadWallets(p) \/ InsertRows(p) \/ LockWallet(p)
           /\ ~(\E code \in Code \ {"Created"} : Rollback(p, code))
  <2>1. Alone(p) /\ answer' = answer /\ keys' = keys /\ pc[p] # "replied"
    <3>1. CASE PlanPosting(p)
      BY <1>0, <1>6, <3>1 DEF PlanPosting, Goto, TypeOK, Alone, Code
    <3>2. CASE PlanReversal(p)
      BY <1>0, <1>6, <3>2 DEF PlanReversal, Goto, TypeOK, Alone, Code
    <3>3. CASE LoadWallets(p)
      BY <1>0, <1>6, <3>3 DEF LoadWallets, Goto, TypeOK, Alone, Code
    <3>4. CASE InsertRows(p)
      BY <1>0, <1>6, <3>4 DEF InsertRows, Goto, TypeOK, Alone, Code
    <3>5. CASE LockWallet(p)
      BY <1>0, <1>6, <3>5 DEF LockWallet, Goto, TypeOK, Alone
    <3> QED
      BY <1>6, <3>1, <3>2, <3>3, <3>4, <3>5
  <2> QED
    BY <2>1, SilentDurable
<1>7. CASE CommitFails(p)
  BY <1>7, RollbackDurable DEF CommitFails, Code
<1>8. CASE Commit(p)
  BY <1>8, CommitDurable
<1>9. CASE Deliver(p)
  <2>1. Alone(p) /\ keys' = keys /\ answer'[p] = NoAnswer
    BY <1>0, <1>9 DEF Deliver, Reset, Goto, DropLocks, TypeOK, Alone
  <2>2. answer'[p].code # "Created"
    BY <2>1 DEF NoAnswer
  <2> QED
    BY <2>1, <2>2, QuietDurable
<1> QED
  BY <1>1, <1>2, <1>3, <1>4, <1>5, <1>6, <1>7, <1>8, <1>9 DEF Serve

\* So do the faults, a new request and the passing of time.
LEMMA DurableNext ==
  ASSUME PostingInv, Durable, [Next]_vars
  PROVE  Durable'
<1>0. TypeOK
  BY DEF PostingInv
<1>1. ASSUME NEW p \in Attempt, NEW r \in Request, Receive(p, r) PROVE Durable'
  <2>1. Alone(p) /\ keys' = keys /\ pc[p] = "idle"
    BY <1>0, <1>1 DEF Receive, Goto, Reply, TypeOK, Alone
  <2>2. answer'[p] = answer[p] \/ answer'[p] = Error("Rejected")
    BY <1>0, <1>1 DEF Receive, Reply, TypeOK
  <2>3. answer'[p].code # "Created"
    BY <2>1, <2>2 DEF Error, Durable
  <2> QED
    BY <2>1, <2>3, QuietDurable
<1>2. ASSUME NEW p \in Attempt, Fault(p) PROVE Durable'
  <2>1. CASE CommitUnacknowledged(p)
    BY <2>1, CommitDurable
  <2>2. CASE TransactionError(p)
    BY <2>2, RollbackDurable DEF TransactionError, Code
  <2>3. CASE ReleaseKeyFails(p)
    <3>1. Alone(p) /\ keys' = keys /\ answer' = answer /\ pc[p] # "replied"
      BY <1>0, <2>3 DEF ReleaseKeyFails, Goto, TypeOK, Alone
    <3> QED
      BY <3>1, SilentDurable
  <2>4. CASE Crash(p)
    <3>1. Alone(p) /\ keys' = keys /\ answer'[p] = NoAnswer
      BY <1>0, <2>4 DEF Crash, Reset, Goto, DropLocks, TypeOK, Alone
    <3>2. answer'[p].code # "Created"
      BY <3>1 DEF NoAnswer
    <3> QED
      BY <3>1, <3>2, QuietDurable
  <2> QED
    BY <1>2, <2>1, <2>2, <2>3, <2>4 DEF Fault
<1>3. ASSUME NEW key \in Key, StaleElapses(key) PROVE Durable'
  <2>1. UNCHANGED <<txs, answer, pc, req>>
    BY <1>3 DEF StaleElapses, attemptVars
  <2>2. ASSUME NEW k \in Key, keys'[k] # None, keys'[k].state = "COMPLETED"
        PROVE  keys'[k] = keys[k]
    BY <1>0, <1>3, <2>2 DEF StaleElapses, TypeOK, KeyRow
  <2> QED
    BY <2>1, <2>2 DEF Durable, AnswersAreDurable, KeyOf
<1>4. CASE UNCHANGED vars
  BY <1>4 DEF vars, attemptVars, Durable, AnswersAreDurable, KeyOf
<1> QED
  BY <1>1, <1>2, <1>3, <1>4, ServeDurable DEF Next

\* Whatever post() answers 201 for is committed under the caller's key, and stays so.
THEOREM AnswersDurable == Spec => []AnswersAreDurable
<1>1. Init => Durable
  BY DEF Init, Durable, AnswersAreDurable, NoAnswer
<1>2. PostingInv /\ Durable /\ [Next]_vars => Durable'
  BY DurableNext
<1>3. Durable => AnswersAreDurable
  BY DEF Durable
<1> QED
  BY <1>1, <1>2, <1>3, PostingSafe, PTL DEF Spec

-----------------------------------------------------------------------------
\* The wallet locked next is the least of those the plan still needs.
LEMMA NextWalletIsLeast ==
  ASSUME PostingInv, NEW p \in Attempt, pc[p] = "lock", ToLock(p) # {}
  PROVE  /\ NextWallet(p) \in ToLock(p) /\ NextWallet(p) \in Nat
         /\ \A v \in ToLock(p) : v \in Nat /\ NextWallet(p) <= v
<1>1. plan[p].debit \in Nat /\ plan[p].credit \in Nat
  BY DEF PostingInv, AttemptInv, Holding, Plan
<1>2. ToLock(p) \subseteq Nat
  BY <1>1 DEF ToLock
<1>3. \E w \in ToLock(p) : \A v \in ToLock(p) : w <= v
  BY <1>2, LeastNat
<1> QED
  BY <1>2, <1>3 DEF NextWallet

\* A step drops all wallet locks of an attempt, keeps them together with its
\* plan, or takes the next one.
LEMMA LocksStep ==
  ASSUME PostingInv, [Next]_vars, NEW q \in Attempt
  PROVE  \/ locked'[q] = {}
         \/ locked'[q] = locked[q] /\ plan'[q] = plan[q]
         \/ LockWallet(q)
<1> DEFINE Goal == \/ locked'[q] = {}
                   \/ locked'[q] = locked[q] /\ plan'[q] = plan[q]
                   \/ LockWallet(q)
<1>0. TypeOK /\ AttemptInv(q)
  BY DEF PostingInv
<1> USE <1>0 DEF TypeOK, Goto, DropLocks
<1>1. ASSUME NEW p \in Attempt, NEW r \in Request, Receive(p, r) PROVE Goal
  BY <1>1 DEF Receive
<1>2. ASSUME NEW p \in Attempt, NEW code, Rollback(p, code) PROVE Goal
  BY <1>2 DEF Rollback
<1>3. ASSUME NEW p \in Attempt, Serve(p) PROVE Goal
  <2>1. CASE FindKey(p) \/ Reclaim(p) \/ CreateKey(p) \/ RereadKey(p)
    BY <2>1 DEF FindKey, Reclaim, CreateKey, RereadKey
  <2>2. CASE PlanPosting(p)
    BY <2>2, <1>2 DEF PlanPosting, AttemptInv, Holding
  <2>3. CASE PlanReversal(p)
    BY <2>3, <1>2 DEF PlanReversal, AttemptInv, Holding
  <2>4. CASE LockWallet(p)
    BY <2>4 DEF LockWallet
  <2>5. CASE LoadWallets(p)
    BY <2>5, <1>2 DEF LoadWallets
  <2>6. CASE InsertRows(p)
    BY <2>6, <1>2 DEF InsertRows
  <2>7. CASE CommitFails(p)
    BY <2>7, <1>2 DEF CommitFails
  <2>8. CASE ReleaseKey(p) \/ Deliver(p)
    BY <2>8 DEF ReleaseKey, Deliver, Reset
  <2>9. CASE Commit(p)
    BY <2>9 DEF Commit, CommitEffect
  <2> QED
    BY <1>3, <2>1, <2>2, <2>3, <2>4, <2>5, <2>6, <2>7, <2>8, <2>9 DEF Serve
<1>4. ASSUME NEW p \in Attempt, Fault(p) PROVE Goal
  <2>1. CASE CommitUnacknowledged(p)
    BY <2>1 DEF CommitUnacknowledged, CommitEffect
  <2>2. CASE TransactionError(p)
    BY <2>2, <1>2 DEF TransactionError
  <2>3. CASE ReleaseKeyFails(p) \/ Crash(p)
    BY <2>3 DEF ReleaseKeyFails, Crash, Reset
  <2> QED
    BY <1>4, <2>1, <2>2, <2>3 DEF Fault
<1>5. ASSUME NEW key \in Key, StaleElapses(key) PROVE Goal
  BY <1>5 DEF StaleElapses, attemptVars
<1>6. CASE UNCHANGED vars
  BY <1>6 DEF vars, attemptVars
<1> QED
  BY <1>1, <1>3, <1>4, <1>5, <1>6 DEF Next

\* Locks are taken in the order of the ids.
LEMMA LockOrderStep ==
  ASSUME PostingInv, LockOrder, [Next]_vars
  PROVE  LockOrder'
<1> SUFFICES ASSUME NEW p \in Attempt, NEW w \in locked'[p]
             PROVE  /\ w \in {plan'[p].debit, plan'[p].credit}
                    /\ \A v \in ToLock(p)' : w < v
  BY DEF LockOrder
<1>1. CASE locked'[p] = locked[p] /\ plan'[p] = plan[p]
  BY <1>1 DEF LockOrder, ToLock
<1>2. CASE LockWallet(p) /\ ~(locked'[p] = locked[p] /\ plan'[p] = plan[p])
  <2>1. /\ ToLock(p) # {} /\ pc[p] = "lock" /\ plan'[p] = plan[p]
        /\ locked'[p] = locked[p] \cup {NextWallet(p)}
    BY <1>2 DEF LockWallet, PostingInv, TypeOK
  <2>2. /\ NextWallet(p) \in ToLock(p) /\ NextWallet(p) \in Nat
        /\ \A v \in ToLock(p) : v \in Nat /\ NextWallet(p) <= v
    BY <2>1, NextWalletIsLeast
  <2>3. ToLock(p)' = ToLock(p) \ {NextWallet(p)}
    BY <2>1 DEF ToLock
  <2>4. NextWallet(p) \in {plan[p].debit, plan[p].credit}
    BY <2>2 DEF ToLock
  <2>5. CASE w = NextWallet(p)
    BY <2>1, <2>2, <2>3, <2>4, <2>5
  <2>6. CASE w \in locked[p]
    BY <2>1, <2>3, <2>6 DEF LockOrder
  <2> QED
    BY <2>1, <2>5, <2>6
<1> QED
  BY <1>1, <1>2, LocksStep

\* No circle of waiting attempts: an attempt at its commit waits for nobody, one
\* that inserts waits for one at its commit, one that locks waits for one that
\* holds a greater wallet than it does, and one that plans waits for one that is
\* further on.
LEMMA OrderedLocksDoNotDeadlock ==
  ASSUME PostingInv, LockOrder
  PROVE  NoDeadlock
<1> SUFFICES ASSUME NEW S \in SUBSET Attempt, S # {},
                    \A p \in S : \E q \in S \ {p} : WaitsFor(p, q)
             PROVE  FALSE
  BY DEF NoDeadlock
<1>1. \A p \in S : pc[p] \in {"plan", "lock", "insert"}
  BY DEF WaitsFor
<1>2. \A p \in S : pc[p] \in {"plan", "lock"}
  BY <1>1 DEF WaitsFor
<1>3. ASSUME NEW q \in S, locked[q] # {} \/ origLock[q] # NoTx PROVE pc[q] = "lock"
  BY <1>2, <1>3 DEF PostingInv, AttemptInv, Holding
<1> DEFINE L == {p \in S : pc[p] = "lock"}
           T == {NextWallet(p) : p \in L}
<1>4. L # {}
  <2>1. PICK p \in S : TRUE
    OBVIOUS
  <2>2. PICK q \in S \ {p} : WaitsFor(p, q)
    OBVIOUS
  <2>3. CASE pc[p] = "plan"
    BY <1>3, <2>2, <2>3 DEF WaitsFor
  <2> QED
    BY <1>2, <2>3
<1>5. ASSUME NEW p \in L
      PROVE  /\ ToLock(p) # {}
             /\ NextWallet(p) \in Wallet
             /\ \E q \in L : NextWallet(p) \in locked[q]
  <2>1. PICK q \in S \ {p} : WaitsFor(p, q)
    OBVIOUS
  <2>2. ToLock(p) # {} /\ NextWallet(p) \in locked[q] \cap Wallet
    BY <2>1 DEF WaitsFor
  <2> QED
    BY <1>3, <2>2
<1>6. PICK last \in Wallet : \A w \in Wallet : w <= last
  BY WalletAssumption
<1>7. PICK m \in T : \A n \in T : m >= n
  <2>1. T \subseteq Nat /\ T # {} /\ last \in Nat /\ \A n \in T : n <= last
    BY <1>4, <1>5, <1>6, LedgerAssumption
  <2> HIDE DEF T
  <2> QED
    BY <2>1, GreatestNat
<1>8. PICK p \in L : m = NextWallet(p)
  OBVIOUS
<1>9. PICK q \in L : m \in locked[q]
  BY <1>5, <1>8
<1>10. NextWallet(q) \in ToLock(q) /\ NextWallet(q) \in Nat
  BY <1>5, NextWalletIsLeast
<1>11. m < NextWallet(q)
  BY <1>9, <1>10 DEF LockOrder
<1>12. m \in Nat
  BY <1>5, <1>8, LedgerAssumption
<1> QED
  BY <1>7, <1>10, <1>11, <1>12

\* Postings never wait for one another in a circle, for any number of attempts
\* and wallets: executePlan locks wallets in the order of their ids, and the lock
\* on a reversed transaction and the UNIQUE waits do not break that order.
THEOREM NeverDeadlocks == Spec => []NoDeadlock
<1>1. Init => LockOrder
  BY DEF Init, LockOrder
<1>2. PostingInv /\ LockOrder /\ [Next]_vars => LockOrder'
  BY LockOrderStep
<1>3. PostingInv /\ LockOrder => NoDeadlock
  BY OrderedLocksDoNotDeadlock
<1> QED
  BY <1>1, <1>2, <1>3, PostingSafe, PTL DEF Spec

-----------------------------------------------------------------------------
(* Without a reclaim of a live request a key names one body.                 *)

\* The attempt that created the key row, until it answers.
Owner(p) == pc[p] \in InTransaction \cup {"release"}

Owns(p) ==
  Owner(p) => keys[KeyOf(p)] # None /\ keys[KeyOf(p)].fingerprint = BodyOf(p)

\* A key row is never old, and a completed one caches what its body asked for.
RowTruthful(key) ==
  keys[key] # None =>
    /\ ~keys[key].stale
    /\ keys[key].state = "COMPLETED" =>
         /\ keys[key].response \in DOMAIN txs
         /\ Performs(txs[keys[key].response], keys[key].fingerprint)

PlanTruthful(p) == pc[p] \in Holding => Performs(plan[p], BodyOf(p))

AnswerTruthful(p) ==
  answer[p].code = "Created" =>
    /\ pc[p] = "replied"
    /\ answer[p].tx \in DOMAIN txs
    /\ Performs(txs[answer[p].tx], BodyOf(p))

PromptInv ==
  /\ \A key \in Key : RowTruthful(key)
  /\ \A p \in Attempt : pc[p] # "reclaim" /\ Owns(p) /\ PlanTruthful(p) /\ AnswerTruthful(p)
  /\ \A p, q \in Attempt : p # q /\ Owner(p) /\ Owner(q) => KeyOf(p) # KeyOf(q)

\* A committed movement stays what it was.
LEMMA MovementsKept ==
  ASSUME PostingInv, [Next]_vars
  PROVE  \A t \in DOMAIN txs : t \in DOMAIN txs' /\
           \A b : Performs(txs[t], b) => Performs(txs'[t], b)
<1>1. CASE UNCHANGED ledgerVars
  BY <1>1 DEF ledgerVars
<1>2. ASSUME NEW p \in Attempt, pc[p] = "commit", CommitEffect(p)
      PROVE  \A t \in DOMAIN txs : t \in DOMAIN txs' /\
               \A b : Performs(txs[t], b) => Performs(txs'[t], b)
  <2>1. PICK key \in Key, pl \in CandidatePlan : PostOnce(key, pl)
    BY <1>2, CommitPosts
  <2>2. LedgerInv /\ LedgerTypeOK
    BY DEF PostingInv, LedgerInv
  <2>3. pl \in Plan /\ pl.debit \in Wallet /\ pl.credit \in Wallet
    BY <2>2, CandidateIsPlan
  <2>4. PICK d \in Nat, c \in Nat : Record(key, pl, d, c)
    BY <2>1, <2>2, NextEntrySeqBound DEF PostOnce, LedgerInv
  <2>5. Len(txs) \in Nat /\ DOMAIN txs = 1 .. Len(txs) /\ DOMAIN txs' = 1 .. (Len(txs) + 1)
    BY <2>2, <2>3, <2>4, RecordFacts
  <2> SUFFICES ASSUME NEW t \in DOMAIN txs
               PROVE  t \in DOMAIN txs' /\ \A b : Performs(txs[t], b) => Performs(txs'[t], b)
    OBVIOUS
  <2>6. t \in 1 .. Len(txs) /\ t \in DOMAIN txs'
    BY <2>5
  <2>7. /\ txs'[t].kind = txs[t].kind /\ txs'[t].reversalOf = txs[t].reversalOf
        /\ txs'[t].debit = txs[t].debit /\ txs'[t].credit = txs[t].credit
        /\ txs'[t].amount = txs[t].amount /\ txs'[t].currency = txs[t].currency
    BY <2>2, <2>3, <2>4, <2>6, RecordFields
  <2> QED
    BY <2>6, <2>7 DEF Performs
<1> QED
  BY <1>1, <1>2, OnlyCommitMoves

\* A step of attempt p that writes at most the row of its own key, and that one
\* only as its owner or when it is free.
LEMMA PromptStep ==
  ASSUME PostingInv, PromptInv, [Next]_vars, NEW p \in Attempt, Alone(p),
         \A key \in Key :
           \/ keys'[key] = keys[key]
           \/ key = KeyOf(p) /\ (Owner(p) \/ keys[key] = None) /\ RowTruthful(key)',
         Owner(p)' => req'[p] = req[p] /\ (Owner(p) \/ keys[KeyOf(p)] = None),
         pc'[p] # "reclaim", Owns(p)', PlanTruthful(p)', AnswerTruthful(p)'
  PROVE  PromptInv'
<1>1. ASSUME NEW key \in Key PROVE RowTruthful(key)'
  <2>1. CASE keys'[key] = keys[key]
    BY <2>1, MovementsKept DEF PromptInv, RowTruthful
  <2> QED
    BY <2>1
<1>2. ASSUME NEW q \in Attempt, q # p
      PROVE  /\ pc'[q] # "reclaim" /\ (Owns(q) /\ PlanTruthful(q) /\ AnswerTruthful(q))'
             /\ (Owner(p) /\ Owner(q))' => KeyOf(p)' # KeyOf(q)'
  <2>1. /\ pc'[q] = pc[q] /\ req'[q] = req[q] /\ plan'[q] = plan[q] /\ answer'[q] = answer[q]
    BY <1>2 DEF Alone
  <2>2. pc'[q] # "reclaim" /\ PlanTruthful(q)'
    BY <2>1 DEF PromptInv, PlanTruthful, BodyOf
  <2>3. AnswerTruthful(q)'
    BY <2>1, MovementsKept DEF PromptInv, AnswerTruthful, BodyOf
  <2>4. ASSUME Owner(q) PROVE keys'[KeyOf(q)] = keys[KeyOf(q)]
    <3>1. keys[KeyOf(q)] # None /\ (Owner(p) => KeyOf(p) # KeyOf(q))
      BY <1>2, <2>4 DEF PromptInv, Owns
    <3>2. KeyOf(q) \in Key
      BY <2>4, RequestAssumption DEF PostingInv, AttemptInv, Owner, InTransaction, KeyOf
    <3> QED
      BY <3>1, <3>2
  <2>5. Owns(q)'
    BY <2>1, <2>4 DEF PromptInv, Owns, Owner, KeyOf, BodyOf
  <2>6. (Owner(p) /\ Owner(q))' => KeyOf(p)' # KeyOf(q)'
    BY <1>2, <2>1 DEF PromptInv, Owns, Owner, KeyOf
  <2> QED
    BY <2>2, <2>3, <2>5, <2>6
<1>3. \A q \in Attempt : pc'[q] # "reclaim" /\ (Owns(q) /\ PlanTruthful(q) /\ AnswerTruthful(q))'
  BY <1>2
<1>4. ASSUME NEW q \in Attempt, NEW r \in Attempt, q # r, Owner(q)', Owner(r)'
      PROVE  KeyOf(q)' # KeyOf(r)'
  <2>1. CASE q = p
    BY <1>2, <1>4, <2>1
  <2>2. CASE r = p
    BY <1>2, <1>4, <2>2
  <2>3. CASE q # p /\ r # p
    BY <1>4, <2>3 DEF PromptInv, Alone, Owner, KeyOf
  <2> QED
    BY <2>1, <2>2, <2>3
<1> QED
  BY <1>1, <1>3, <1>4 DEF PromptInv

\* A step that keeps the keys and gives no 201.
LEMMA QuietPrompt ==
  ASSUME PostingInv, PromptInv, [Next]_vars, NEW p \in Attempt, Alone(p), keys' = keys,
         Owner(p)' => req'[p] = req[p] /\ Owner(p),
         pc'[p] # "reclaim", PlanTruthful(p)', answer'[p].code # "Created"
  PROVE  PromptInv'
<1>1. Owns(p)'
  BY DEF PromptInv, Owns, KeyOf, BodyOf
<1>2. AnswerTruthful(p)'
  BY DEF AnswerTruthful
<1>3. \A key \in Key :
           \/ keys'[key] = keys[key]
           \/ key = KeyOf(p) /\ (Owner(p) \/ keys[key] = None) /\ RowTruthful(key)'
  OBVIOUS
<1> QED
  BY <1>1, <1>2, <1>3, PromptStep

\* A rollback answers with an error and keeps the ownership for the release.
LEMMA RollbackPrompt ==
  ASSUME PostingInv, PromptInv, [Next]_vars, NEW p \in Attempt, pc[p] \in InTransaction,
         NEW code \in Code \ {"Created"}, Rollback(p, code)
  PROVE  PromptInv'
<1>1. /\ Alone(p) /\ keys' = keys /\ req' = req /\ answer'[p] = Error(code)
      /\ pc'[p] = "release"
  BY DEF PostingInv, TypeOK, Rollback, Goto, DropLocks, Alone
<1>2. answer'[p].code # "Created" /\ Owner(p) /\ PlanTruthful(p)'
  BY <1>1 DEF Error, Owner, PlanTruthful, Holding
<1> QED
  BY <1>1, <1>2, QuietPrompt

\* A row is replayed only to the body that made it.
LEMMA ResolvePrompt ==
  ASSUME PostingInv, PromptInv, [Next]_vars, NEW p \in Attempt, Alone(p), keys' = keys,
         req' = req, pc'[p] = "replied", KeyOf(p) \in Key, keys[KeyOf(p)] # None,
         answer'[p] = ResolveExisting(keys[KeyOf(p)], BodyOf(p))
  PROVE  PromptInv'
<1>1. AnswerTruthful(p)'
  <2> SUFFICES ASSUME answer'[p].code = "Created"
               PROVE  /\ answer'[p].tx \in DOMAIN txs'
                      /\ Performs(txs'[answer'[p].tx], BodyOf(p))
    BY DEF AnswerTruthful, BodyOf
  <2>1. /\ keys[KeyOf(p)].fingerprint = BodyOf(p) /\ keys[KeyOf(p)].state = "COMPLETED"
        /\ answer'[p] = Created(keys[KeyOf(p)].response)
    BY DEF ResolveExisting, Error, Created
  <2>2. answer'[p].tx = keys[KeyOf(p)].response
    BY <2>1 DEF Created
  <2>3. RowTruthful(KeyOf(p))
    BY DEF PromptInv
  <2> QED
    BY <2>1, <2>2, <2>3, MovementsKept DEF RowTruthful
<1>2. ~Owner(p)' /\ PlanTruthful(p)' /\ pc'[p] # "reclaim"
  BY DEF Owner, InTransaction, PlanTruthful, Holding
<1>3. Owns(p)'
  BY <1>2 DEF Owns
<1>4. \A key \in Key :
           \/ keys'[key] = keys[key]
           \/ key = KeyOf(p) /\ (Owner(p) \/ keys[key] = None) /\ RowTruthful(key)'
  OBVIOUS
<1> QED
  BY <1>1, <1>2, <1>3, <1>4, PromptStep

\* What a planner makes of a body is what the body asks for.
LEMMA PlanPerforms ==
  ASSUME NEW b \in Body, b.kind \in Kind, b.kind # "REVERSAL"
  PROVE  Performs(PlanOf(b), b)
<1>1. b.kind \in {"TRANSFER", "DEPOSIT", "WITHDRAWAL", "FEE"}
  BY DEF Kind
<1>2. CASE b.kind = "TRANSFER"
  BY <1>2 DEF PlanOf, PlanTransfer, MakePlan, Performs
<1>3. CASE b.kind = "DEPOSIT"
  BY <1>3 DEF PlanOf, PlanDeposit, MakePlan, Performs
<1>4. CASE b.kind = "WITHDRAWAL"
  BY <1>4 DEF PlanOf, PlanWithdrawal, MakePlan, Performs
<1>5. CASE b.kind = "FEE"
  BY <1>5 DEF PlanOf, PlanFee, MakePlan, Performs
<1> QED
  BY <1>1, <1>2, <1>3, <1>4, <1>5

\* The commit caches and answers with the movement its body asked for.
LEMMA CommitPrompt ==
  ASSUME PostingInv, PromptInv, [Next]_vars, NEW p \in Attempt,
         Commit(p) \/ CommitUnacknowledged(p)
  PROVE  PromptInv'
<1>1. TypeOK /\ AttemptInv(p) /\ pc[p] = "commit" /\ CommitEffect(p) /\ LedgerInv
  BY DEF PostingInv, Commit, CommitUnacknowledged
<1>2. PICK n : n = Len(txs) + 1
  OBVIOUS
<1>3. PICK key \in Key, pl \in CandidatePlan : key = KeyOf(p) /\ pl = plan[p]
  BY <1>1, CommitPosts
<1>4. PICK d \in Nat, c \in Nat : Record(key, pl, d, c)
  BY <1>1, <1>3 DEF CommitEffect, TypeOK
<1>5. n \in DOMAIN txs' /\ Performs(txs'[n], BodyOf(p))
  <2>1. pl \in Plan /\ pl.debit \in Wallet /\ pl.credit \in Wallet
    BY <1>1, CandidateIsPlan DEF LedgerInv
  <2>2. /\ Len(txs) \in Nat /\ DOMAIN txs' = 1 .. (Len(txs) + 1)
        /\ txs'[Len(txs) + 1] = NewRow(key, pl, d, c)
    BY <1>1, <1>4, <2>1, RecordFacts DEF LedgerInv
  <2>3. Performs(pl, BodyOf(p))
    BY <1>1, <1>3 DEF PromptInv, PlanTruthful, Holding
  <2> QED
    BY <1>2, <2>2, <2>3 DEF NewRow, Performs
<1>6. Alone(p) /\ req' = req
  BY <1>1 DEF Commit, CommitUnacknowledged, CommitEffect, DropLocks, Reply, Goto, TypeOK, Alone
<1>7. Owner(p) /\ keys[key] # None /\ keys[key].fingerprint = BodyOf(p) /\ keys[key] \in KeyRow
      /\ ~keys[key].stale
  BY <1>1, <1>3 DEF Owner, InTransaction, PromptInv, Owns, RowTruthful, TypeOK
<1>8. keys' = [keys EXCEPT ![key] = [keys[key] EXCEPT !.state = "COMPLETED", !.response = n]]
  BY <1>1, <1>2, <1>3 DEF CommitEffect, TypeOK
<1>9. /\ keys'[key].response = n /\ keys'[key].fingerprint = BodyOf(p) /\ ~keys'[key].stale
      /\ keys'[key] \in KeyRow /\ \A k \in Key \ {key} : keys'[k] = keys[k]
  <2>1. n \in Nat
    BY <1>1, <1>2, LenProperties DEF TypeOK, LedgerTypeOK
  <2> QED
    BY <1>1, <1>7, <1>8, <2>1 DEF TypeOK, KeyRow
<1>10. RowTruthful(key)' /\ keys'[key] # None
  BY <1>5, <1>9, RequestAssumption DEF RowTruthful, KeyRow
<1>11. Owns(p)'
  BY <1>3, <1>6, <1>9, <1>10 DEF Owns, KeyOf, BodyOf
<1>12. AnswerTruthful(p)' /\ PlanTruthful(p)' /\ pc'[p] # "reclaim"
  <2>1. CASE Commit(p)
    <3>1. answer'[p] = Created(n) /\ pc'[p] = "replied"
      BY <1>1, <1>2, <2>1 DEF Commit, Reply, Goto, TypeOK
    <3>2. answer'[p].tx = n
      BY <3>1 DEF Created
    <3> QED
      BY <1>5, <1>6, <3>1, <3>2 DEF AnswerTruthful, PlanTruthful, Holding, BodyOf
  <2>2. CASE CommitUnacknowledged(p)
    <3>1. answer'[p] = Error("Failed") /\ pc'[p] = "release"
      BY <1>1, <2>2 DEF CommitUnacknowledged, Goto, TypeOK
    <3> QED
      BY <3>1 DEF AnswerTruthful, PlanTruthful, Holding, Error
  <2> QED
    BY <2>1, <2>2
<1>13. \A k \in Key : \/ keys'[k] = keys[k]
                      \/ k = KeyOf(p) /\ (Owner(p) \/ keys[k] = None) /\ RowTruthful(k)'
  <2> SUFFICES ASSUME NEW k \in Key
               PROVE  \/ keys'[k] = keys[k]
                      \/ k = KeyOf(p) /\ (Owner(p) \/ keys[k] = None) /\ RowTruthful(k)'
    OBVIOUS
  <2>1. CASE k = key
    BY <1>3, <1>7, <1>10, <2>1
  <2>2. CASE k # key
    <3>1. keys'[k] = keys[k]
      BY <1>9, <2>2
    <3> QED
      BY <3>1
  <2> QED
    BY <2>1, <2>2
<1> QED
  BY <1>6, <1>7, <1>11, <1>12, <1>13, PromptStep

\* Steps of the service that keep the keys, apart from the answers.
LEMMA WorkPrompt ==
  ASSUME PostingInv, PromptInv, [Next]_vars, NEW p \in Attempt,
         PlanPosting(p) \/ PlanReversal(p) \/ LockWallet(p) \/ LoadWallets(p) \/ InsertRows(p)
  PROVE  PromptInv'
<1>0. TypeOK /\ AttemptInv(p) /\ AnswerTruthful(p) /\ PlanTruthful(p)
  BY DEF PostingInv, PromptInv
<1>1. pc[p] \in InTransaction /\ Owner(p) /\ answer[p].code # "Created"
      /\ req[p] \in Request /\ BodyOf(p) \in Body /\ BodyOf(p).kind \in Kind
  <2>1. pc[p] \in InTransaction
    BY DEF PlanPosting, PlanReversal, LockWallet, LoadWallets, InsertRows, InTransaction
  <2> QED
    BY <1>0, <2>1, RequestAssumption
    DEF Owner, AttemptInv, AnswerTruthful, InTransaction, Working, Step, BodyOf
<1>2. CASE \E code \in Code \ {"Created"} : Rollback(p, code)
  BY <1>1, <1>2, RollbackPrompt
<1>3. CASE ~(\E code \in Code \ {"Created"} : Rollback(p, code))
  <2>1. /\ Alone(p) /\ answer' = answer /\ keys' = keys /\ req' = req
        /\ pc'[p] # "reclaim" /\ PlanTruthful(p)'
    <3>1. CASE PlanPosting(p)
      <4>1. plan'[p] = PlanOf(BodyOf(p)) /\ BodyOf(p).kind # "REVERSAL" /\ pc'[p] = "lock"
            /\ Alone(p) /\ answer' = answer /\ keys' = keys /\ req' = req
        BY <1>0, <1>3, <3>1 DEF PlanPosting, Goto, TypeOK, Alone, Code
      <4>2. Performs(PlanOf(BodyOf(p)), BodyOf(p))
        BY <1>1, <4>1, PlanPerforms
      <4> QED
        BY <4>1, <4>2 DEF PlanTruthful, BodyOf
    <3>2. CASE PlanReversal(p)
      <4>1. /\ plan'[p] = Mirror(BodyOf(p).original) /\ BodyOf(p).kind = "REVERSAL"
            /\ ReversalMatches(BodyOf(p)) /\ pc'[p] = "lock"
            /\ Alone(p) /\ answer' = answer /\ keys' = keys /\ req' = req
        BY <1>0, <1>3, <3>2 DEF PlanReversal, Goto, TypeOK, Alone, Code
      <4>2. Performs(Mirror(BodyOf(p).original), BodyOf(p))
        BY <4>1 DEF Mirror, Performs, ReversalMatches
      <4> QED
        BY <4>1, <4>2 DEF PlanTruthful, BodyOf
    <3>3. CASE LoadWallets(p)
      BY <1>0, <1>3, <3>3 DEF LoadWallets, Goto, TypeOK, Alone, Code, PlanTruthful, Holding, BodyOf
    <3>4. CASE InsertRows(p)
      BY <1>0, <1>3, <3>4 DEF InsertRows, Goto, TypeOK, Alone, Code, PlanTruthful, Holding, BodyOf
    <3>5. CASE LockWallet(p)
      BY <1>0, <3>5 DEF LockWallet, Goto, TypeOK, Alone, PlanTruthful, Holding, BodyOf
    <3> QED
      BY <3>1, <3>2, <3>3, <3>4, <3>5
  <2> QED
    BY <1>1, <2>1, QuietPrompt
<1> QED
  BY <1>2, <1>3

\* The idempotency guard and the catch block.
LEMMA GuardPrompt ==
  ASSUME PostingInv, PromptInv, [Next]_vars, NEW p \in Attempt,
         FindKey(p) \/ Reclaim(p) \/ CreateKey(p) \/ RereadKey(p) \/ ReleaseKey(p)
  PROVE  PromptInv'
<1>0. TypeOK /\ AttemptInv(p) /\ AnswerTruthful(p) /\ pc[p] # "reclaim"
  BY DEF PostingInv, PromptInv
<1>1. req[p] \in Request /\ KeyOf(p) \in Key /\ BodyOf(p) \in Body /\ pc[p] # "replied"
  <2>1. pc[p] # "idle" /\ pc[p] # "replied"
    BY DEF FindKey, Reclaim, CreateKey, RereadKey, ReleaseKey
  <2> QED
    BY <1>0, <2>1, RequestAssumption DEF AttemptInv, KeyOf, BodyOf
<1>2. answer[p].code # "Created" /\ RowTruthful(KeyOf(p))
  BY <1>0, <1>1 DEF AnswerTruthful, PromptInv
<1>3. CASE FindKey(p)
  <2>1. Alone(p) /\ keys' = keys /\ req' = req
    BY <1>0, <1>3 DEF FindKey, Goto, Reply, TypeOK, Alone
  <2>2. CASE keys[KeyOf(p)] = None
    <3>1. pc'[p] = "create" /\ answer' = answer
      BY <1>0, <1>3, <2>2 DEF FindKey, Goto, TypeOK
    <3> QED
      BY <1>2, <2>1, <3>1, QuietPrompt DEF Owner, InTransaction, PlanTruthful, Holding
  <2>3. CASE keys[KeyOf(p)] # None
    <3>1. ~IsStaleInProgress(keys[KeyOf(p)])
      BY <1>2, <2>3 DEF RowTruthful, IsStaleInProgress
    <3>2. pc'[p] = "replied" /\ answer'[p] = ResolveExisting(keys[KeyOf(p)], BodyOf(p))
      BY <1>0, <1>3, <2>3, <3>1 DEF FindKey, Goto, Reply, TypeOK
    <3> QED
      BY <1>1, <2>1, <2>3, <3>2, ResolvePrompt
  <2> QED
    BY <2>2, <2>3
<1>4. CASE RereadKey(p)
  <2>1. Alone(p) /\ keys' = keys /\ req' = req /\ pc'[p] = "replied"
    BY <1>0, <1>4 DEF RereadKey, Goto, Reply, TypeOK, Alone
  <2>2. CASE keys[KeyOf(p)] = None
    <3>1. answer'[p] = Error("Failed")
      BY <1>0, <1>4, <2>2 DEF RereadKey, Reply, TypeOK
    <3>2. answer'[p].code # "Created" /\ ~Owner(p)' /\ PlanTruthful(p)'
      BY <2>1, <3>1 DEF Error, Owner, InTransaction, PlanTruthful, Holding
    <3> QED
      BY <2>1, <3>2, QuietPrompt
  <2>3. CASE keys[KeyOf(p)] # None
    <3>1. answer'[p] = ResolveExisting(keys[KeyOf(p)], BodyOf(p))
      BY <1>0, <1>4, <2>3 DEF RereadKey, Reply, TypeOK
    <3> QED
      BY <1>1, <2>1, <2>3, <3>1, ResolvePrompt
  <2> QED
    BY <2>2, <2>3
<1>5. CASE ReleaseKey(p)
  <2>1. Alone(p) /\ req' = req /\ answer' = answer /\ pc'[p] = "replied" /\ Owner(p)
        /\ keys' = [keys EXCEPT ![KeyOf(p)] = None]
    BY <1>0, <1>5 DEF ReleaseKey, Goto, TypeOK, Alone, Owner
  <2>2. RowTruthful(KeyOf(p))' /\ Owns(p)' /\ PlanTruthful(p)' /\ AnswerTruthful(p)' /\ ~Owner(p)'
    BY <1>0, <1>1, <1>2, <2>1
    DEF RowTruthful, Owns, Owner, InTransaction, PlanTruthful, Holding, AnswerTruthful, TypeOK, KeyOf
  <2>3. \A key \in Key :
           \/ keys'[key] = keys[key]
           \/ key = KeyOf(p) /\ (Owner(p) \/ keys[key] = None) /\ RowTruthful(key)'
    <3> SUFFICES ASSUME NEW key \in Key, key # KeyOf(p) PROVE keys'[key] = keys[key]
      BY <2>1, <2>2 DEF RowTruthful, KeyOf
    <3> QED
      BY <1>0, <2>1 DEF TypeOK
  <2> QED
    BY <2>1, <2>2, <2>3, PromptStep
<1>6. CASE CreateKey(p)
  <2>1. Alone(p) /\ req' = req /\ answer' = answer
    BY <1>0, <1>6 DEF CreateKey, Goto, TypeOK, Alone
  <2>2. CASE keys[KeyOf(p)] # None
    <3>1. keys' = keys /\ pc'[p] = "reread"
      BY <1>0, <1>6, <2>2 DEF CreateKey, Goto, TypeOK
    <3> QED
      BY <1>2, <2>1, <3>1, QuietPrompt DEF Owner, InTransaction, PlanTruthful, Holding
  <2>3. CASE keys[KeyOf(p)] = None
    <3> DEFINE row == [state |-> "IN_PROGRESS", fingerprint |-> BodyOf(p),
                       response |-> NoTx, stale |-> FALSE]
    <3>1. keys' = [keys EXCEPT ![KeyOf(p)] = row] /\ pc'[p] = "plan"
      BY <1>0, <1>6, <2>3 DEF CreateKey, Goto, TypeOK
    <3>2. /\ row.state = "IN_PROGRESS" /\ row.fingerprint = BodyOf(p) /\ ~row.stale
          /\ row # None
      <4>1. row \in [state : {"IN_PROGRESS", "COMPLETED"}, fingerprint : Body,
                     response : Nat, stale : BOOLEAN]
        BY <1>1 DEF NoTx
      <4> HIDE DEF row
      <4>2. row # None
        BY <4>1, RequestAssumption
      <4> QED
        BY <4>2 DEF row
    <3> HIDE DEF row
    <3>3. keys'[KeyOf(p)] = row /\ \A key \in Key \ {KeyOf(p)} : keys'[key] = keys[key]
      BY <1>0, <1>1, <3>1 DEF TypeOK
    <3>4. \A key \in Key : key = KeyOf(p) => RowTruthful(key)'
      BY <3>2, <3>3 DEF RowTruthful
    <3>5. Owns(p)' /\ PlanTruthful(p)' /\ AnswerTruthful(p)'
      BY <1>2, <2>1, <3>1, <3>2, <3>3
      DEF Owns, KeyOf, BodyOf, PlanTruthful, Holding, AnswerTruthful
    <3>6. \A key \in Key :
           \/ keys'[key] = keys[key]
           \/ key = KeyOf(p) /\ (Owner(p) \/ keys[key] = None) /\ RowTruthful(key)'
      BY <2>3, <3>3, <3>4
    <3> QED
      BY <2>1, <2>3, <3>1, <3>5, <3>6, PromptStep
  <2> QED
    BY <2>2, <2>3
<1> QED
  BY <1>0, <1>3, <1>4, <1>5, <1>6 DEF Reclaim

\* Every step keeps the keys truthful as long as no row grows stale.
LEMMA PromptNextInv ==
  ASSUME PostingInv, PromptInv, [PromptNext]_vars
  PROVE  PromptInv'
<1>0. TypeOK /\ [Next]_vars
  BY DEF PostingInv, PromptNext, Next
<1>1. ASSUME NEW p \in Attempt, NEW r \in Request, Receive(p, r) PROVE PromptInv'
  <2>1. /\ Alone(p) /\ keys' = keys /\ pc[p] = "idle" /\ pc'[p] \in {"find", "replied"}
        /\ answer'[p] = answer[p] \/ answer'[p] = Error("Rejected")
    BY <1>0, <1>1 DEF Receive, Goto, Reply, TypeOK, Alone
  <2>2. answer'[p].code # "Created"
    BY <2>1 DEF Error, PromptInv, AnswerTruthful
  <2> QED
    BY <1>0, <2>1, <2>2, QuietPrompt DEF Owner, InTransaction, PlanTruthful, Holding
<1>2. ASSUME NEW p \in Attempt, Reset(p), keys' = keys PROVE PromptInv'
  <2>1. Alone(p) /\ answer'[p] = NoAnswer /\ pc'[p] = "idle"
    BY <1>0, <1>2 DEF Reset, Goto, DropLocks, TypeOK, Alone
  <2>2. answer'[p].code # "Created"
    BY <2>1 DEF NoAnswer
  <2> QED
    BY <1>0, <1>2, <2>1, <2>2, QuietPrompt DEF Owner, InTransaction, PlanTruthful, Holding
<1>3. ASSUME NEW p \in Attempt, Serve(p) PROVE PromptInv'
  <2>1. CASE FindKey(p) \/ Reclaim(p) \/ CreateKey(p) \/ RereadKey(p) \/ ReleaseKey(p)
    BY <1>0, <2>1, GuardPrompt
  <2>2. CASE PlanPosting(p) \/ PlanReversal(p) \/ LockWallet(p) \/ LoadWallets(p) \/ InsertRows(p)
    BY <1>0, <2>2, WorkPrompt
  <2>3. CASE Commit(p)
    BY <1>0, <2>3, CommitPrompt
  <2>4. CASE CommitFails(p)
    BY <1>0, <2>4, RollbackPrompt DEF CommitFails, InTransaction, Code
  <2>5. CASE Deliver(p)
    BY <1>2, <2>5 DEF Deliver
  <2> QED
    BY <1>3, <2>1, <2>2, <2>3, <2>4, <2>5 DEF Serve
<1>4. ASSUME NEW p \in Attempt, Fault(p) PROVE PromptInv'
  <2>1. CASE CommitUnacknowledged(p)
    BY <1>0, <2>1, CommitPrompt
  <2>2. CASE TransactionError(p)
    BY <1>0, <2>2, RollbackPrompt DEF TransactionError, Code
  <2>3. CASE ReleaseKeyFails(p)
    <3>1. /\ Alone(p) /\ keys' = keys /\ answer' = answer /\ pc[p] # "replied"
          /\ pc'[p] = "replied"
      BY <1>0, <2>3 DEF ReleaseKeyFails, Goto, TypeOK, Alone
    <3>2. answer'[p].code # "Created"
      BY <3>1 DEF PromptInv, AnswerTruthful
    <3> QED
      BY <1>0, <3>1, <3>2, QuietPrompt DEF Owner, InTransaction, PlanTruthful, Holding
  <2>4. CASE Crash(p)
    BY <1>2, <2>4 DEF Crash
  <2> QED
    BY <1>4, <2>1, <2>2, <2>3, <2>4 DEF Fault
<1>5. CASE UNCHANGED vars
  BY <1>5 DEF vars, attemptVars, PromptInv, RowTruthful, Owns, Owner, PlanTruthful,
              AnswerTruthful, KeyOf, BodyOf
<1> QED
  BY <1>1, <1>3, <1>4, <1>5 DEF PromptNext

\* As long as every attempt ends within IDEMPOTENCY_STALE_MS, a 201 is given only
\* for the movement the caller asked for, whatever fails: the reclaim of a live
\* request is the only way one key can come to answer for two bodies.
THEOREM AnswersMatchWhenPrompt == PromptSpec => []AnswerMatchesRequest
<1>1. Init => PromptInv
  <2> SUFFICES ASSUME Init PROVE PromptInv
    OBVIOUS
  <2>1. \A key \in Key : RowTruthful(key)
    BY DEF Init, RowTruthful
  <2>2. ASSUME NEW p \in Attempt
        PROVE  pc[p] = "idle" /\ Owns(p) /\ PlanTruthful(p) /\ AnswerTruthful(p) /\ ~Owner(p)
    BY DEF Init, Owns, Owner, InTransaction, PlanTruthful, Holding, AnswerTruthful, NoAnswer
  <2> QED
    BY <2>1, <2>2 DEF PromptInv
<1>2. PostingInv /\ PromptInv /\ [PromptNext]_vars => PromptInv'
  BY PromptNextInv
<1>3. PromptInv => AnswerMatchesRequest
  BY DEF PromptInv, AnswerTruthful, AnswerMatchesRequest
<1>4. [PromptNext]_vars => [Next]_vars
  BY DEF PromptNext, Next
<1> QED
  BY <1>1, <1>2, <1>3, <1>4, PostingSafe, PTL DEF PromptSpec, Spec
=============================================================================
