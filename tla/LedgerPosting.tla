---------------------------- MODULE LedgerPosting ----------------------------
(***************************************************************************)
(* TransactionsService.post() step by step, as concurrent requests run it  *)
(* against PostgreSQL under READ COMMITTED.                                *)
(*                                                                         *)
(* An Attempt is a request being served; its slot is reused once the       *)
(* answer is out.  Each database round trip is an action.  Statements on   *)
(* idempotency_keys outside the posting transaction commit at once; the    *)
(* posting transaction holds its row locks from LockOriginal/LockWallet to *)
(* Commit or rollback, and its writes become visible at Commit.  The       *)
(* completion UPDATE of the key and the COMMIT are one action: a delete    *)
(* that arrives between them waits for the row lock and so takes effect    *)
(* after it.                                                               *)
(***************************************************************************)
EXTENDS Ledger

CONSTANTS
  Attempt,    \* concurrently served requests
  Request,    \* what clients send: [key, body]
  None

\* A request body, i.e. what fingerprintRequest() distinguishes.
Body == [kind : Kind \cup {"ADJUSTMENT"}, source : Nat, target : Nat, original : Nat,
         amount : Nat \ {0}, currency : Currency]

ASSUME RequestAssumption ==
  /\ Request \subseteq [key : Key, body : Body]
  /\ None \notin Attempt
  /\ None \notin [state : {"IN_PROGRESS", "COMPLETED"}, fingerprint : Body,
                  response : Nat, stale : BOOLEAN]

\* The table of wallets is finite: post() sorts ids that have a largest one.
ASSUME WalletAssumption == \E last \in Wallet : \A w \in Wallet : w <= last

VARIABLES
  keys,      \* idempotency_keys: Key -> row or None
  pc,        \* where each attempt is in post()
  req,       \* the request it serves
  plan,      \* its PostingPlan, once planned
  locked,    \* wallet ids it has issued SELECT ... FOR UPDATE for
  origLock,  \* the transactions row it has locked FOR UPDATE, or NoTx
  seqs,      \* the entry_seq values it has read: <<debit, credit>>
  answer     \* what post() returned or threw: [code, tx]

attemptVars == <<pc, req, plan, locked, origLock, seqs, answer>>
vars == <<txs, avail, keys, attemptVars>>

KeyRow == [state : {"IN_PROGRESS", "COMPLETED"}, fingerprint : Body,
           response : Nat, stale : BOOLEAN]

InTransaction == {"plan", "lock", "load", "insert", "commit"}
Step == {"idle", "find", "reclaim", "create", "reread", "release", "replied"}
          \cup InTransaction

Code == {"None", "Created", "KeyConflict", "InFlight", "AlreadyReversed",
         "Rejected", "Failed"}

NoAnswer == [code |-> "None", tx |-> NoTx]
Error(code) == [code |-> code, tx |-> NoTx]
Created(t) == [code |-> "Created", tx |-> t]

KeyOf(p) == req[p].key
BodyOf(p) == req[p].body

-----------------------------------------------------------------------------
\* Helpers that move one attempt.

Goto(p, s) == pc' = [pc EXCEPT ![p] = s]

Reply(p, a) ==
  /\ Goto(p, "replied")
  /\ answer' = [answer EXCEPT ![p] = a]

\* Mutant: the lock on the original transaction is never released.
DropWalletLocks(p) ==
  /\ locked' = [locked EXCEPT ![p] = {}]
  /\ UNCHANGED origLock

\* The transaction rolls back: every row lock is released.
DropLocks(p) ==
  /\ locked' = [locked EXCEPT ![p] = {}]
  /\ origLock' = [origLock EXCEPT ![p] = NoTx]

\* An error inside $transaction: rollback, then the catch block.
Rollback(p, code) ==
  /\ Goto(p, "release")
  /\ answer' = [answer EXCEPT ![p] = Error(code)]
  /\ DropLocks(p)
  /\ UNCHANGED <<txs, avail, keys, req, plan, seqs>>

\* Mutant: the fingerprint is not compared.
ResolveAnyBody(row, fp) ==
  IF row.state = "COMPLETED" THEN Created(row.response) ELSE Error("InFlight")

\* Mutant: an IN_PROGRESS row is replayed as if it were complete.
ResolveUnfinished(row, fp) ==
  IF row.fingerprint # fp THEN Error("KeyConflict") ELSE Created(row.response)

\* resolveExisting(row, fingerprint)
ResolveExisting(row, fp) ==
  CASE row.fingerprint # fp -> Error("KeyConflict")
    [] row.fingerprint = fp /\ row.state = "COMPLETED" -> Created(row.response)
    [] OTHER -> Error("InFlight")

\* Mutant: no row is ever considered stale.
NeverStale(row) == FALSE

IsStaleInProgress(row) == row.state = "IN_PROGRESS" /\ row.stale

-----------------------------------------------------------------------------
\* The idempotency guard.

\* A request arrives.  An unimplemented kind is refused before any state is read.
Receive(p, r) ==
  /\ pc[p] = "idle"
  /\ req' = [req EXCEPT ![p] = r]
  /\ IF r.body.kind \in Kind
     THEN Goto(p, "find") /\ UNCHANGED answer
     ELSE Reply(p, Error("Rejected"))
  /\ UNCHANGED <<txs, avail, keys, plan, locked, origLock, seqs>>

\* findUnique({ key })
FindKey(p) ==
  /\ pc[p] = "find"
  /\ \/ keys[KeyOf(p)] = None /\ Goto(p, "create") /\ UNCHANGED answer
     \/ keys[KeyOf(p)] # None /\ IsStaleInProgress(keys[KeyOf(p)]) /\ Goto(p, "reclaim")
          /\ UNCHANGED answer
     \/ keys[KeyOf(p)] # None /\ ~IsStaleInProgress(keys[KeyOf(p)])
          /\ Reply(p, ResolveExisting(keys[KeyOf(p)], BodyOf(p)))
  /\ UNCHANGED <<txs, avail, keys, req, plan, locked, origLock, seqs>>

\* Deletes by key alone; a missing row is ignored.
Reclaim(p) ==
  /\ pc[p] = "reclaim"
  /\ keys' = [keys EXCEPT ![KeyOf(p)] = None]
  /\ Goto(p, "create")
  /\ UNCHANGED <<txs, avail, req, plan, locked, origLock, seqs, answer>>

CreateKey(p) ==
  /\ pc[p] = "create"
  /\ \/ /\ keys[KeyOf(p)] = None
        /\ keys' = [keys EXCEPT ![KeyOf(p)] = [state |-> "IN_PROGRESS", fingerprint |-> BodyOf(p),
                                           response |-> NoTx, stale |-> FALSE]]
        /\ Goto(p, "plan")
     \/ /\ keys[KeyOf(p)] # None    \* P2002
        /\ Goto(p, "reread")
        /\ UNCHANGED keys
  /\ UNCHANGED <<txs, avail, req, plan, locked, origLock, seqs, answer>>

\* After P2002: resolve the row that won, or rethrow if it is gone again.
RereadKey(p) ==
  /\ pc[p] = "reread"
  /\ Reply(p, IF keys[KeyOf(p)] = None THEN Error("Failed")
                                   ELSE ResolveExisting(keys[KeyOf(p)], BodyOf(p)))
  /\ UNCHANGED <<txs, avail, keys, req, plan, locked, origLock, seqs>>

-----------------------------------------------------------------------------
\* Planning: each kind becomes one DEBIT and one CREDIT leg.

MakePlan(b, from, to, chk) ==
  [kind |-> b.kind, debit |-> from, credit |-> to, amount |-> b.amount,
   currency |-> b.currency, checked |-> chk, reversalOf |-> NoTx]

PlanTransfer(b) == MakePlan(b, b.source, b.target, TRUE)
PlanDeposit(b) == MakePlan(b, Clearing[b.currency], b.target, FALSE)
PlanWithdrawal(b) == MakePlan(b, b.source, Clearing[b.currency], TRUE)
PlanFee(b) == MakePlan(b, b.source, Revenue[b.currency], TRUE)

PlanOf(b) ==
  CASE b.kind = "TRANSFER" -> PlanTransfer(b)
    [] b.kind = "DEPOSIT" -> PlanDeposit(b)
    [] b.kind = "WITHDRAWAL" -> PlanWithdrawal(b)
    [] b.kind = "FEE" -> PlanFee(b)

\* Required ids present, system wallet provisioned, transfer between two wallets.
Plannable(b) ==
  /\ PlanOf(b).debit # NoWallet /\ PlanOf(b).credit # NoWallet
  /\ b.kind = "TRANSFER" => b.source # b.target

\* planTransfer, planDeposit, planWithdrawal, planFee
PlanPosting(p) ==
  /\ pc[p] = "plan"
  /\ BodyOf(p).kind # "REVERSAL"
  /\ IF Plannable(BodyOf(p))
     THEN /\ plan' = [plan EXCEPT ![p] = PlanOf(BodyOf(p))]
          /\ Goto(p, "lock")
          /\ UNCHANGED <<txs, avail, keys, req, locked, origLock, seqs, answer>>
     ELSE Rollback(p, "Rejected")

\* planReversal: lock the original, then read and validate it.
ReversalMatches(b) ==
  b.amount = txs[b.original].amount /\ b.currency = txs[b.original].currency

OriginalFree(p) == \A q \in Attempt \ {p} : origLock[q] # BodyOf(p).original

PlanReversal(p) ==
  /\ pc[p] = "plan"
  /\ BodyOf(p).kind = "REVERSAL"
  /\ \/ /\ BodyOf(p).original \notin DOMAIN txs
        /\ Rollback(p, "Rejected")
     \/ /\ BodyOf(p).original \in DOMAIN txs
        /\ OriginalFree(p)
        /\ IF txs[BodyOf(p).original].status = "REVERSED" THEN Rollback(p, "AlreadyReversed")
           ELSE IF ~ReversalMatches(BodyOf(p)) THEN Rollback(p, "Rejected")
           ELSE /\ plan' = [plan EXCEPT ![p] = Mirror(BodyOf(p).original)]
                /\ origLock' = [origLock EXCEPT ![p] = BodyOf(p).original]
                /\ Goto(p, "lock")
                /\ UNCHANGED <<txs, avail, keys, req, locked, seqs, answer>>

-----------------------------------------------------------------------------
\* executePlan

\* The wallet to lock next: ids in ascending order.
ToLock(p) == {plan[p].debit, plan[p].credit} \ locked[p]

\* Mutant: lock the debited wallet first, whatever its id.
DebitFirst(p) == IF plan[p].debit \in ToLock(p) THEN plan[p].debit ELSE plan[p].credit

NextWallet(p) == CHOOSE w \in ToLock(p) : \A v \in ToLock(p) : w <= v

\* Mutant: a plain SELECT that waits for nobody.
NoRowLock(p, w) == TRUE

\* SELECT ... FOR UPDATE locks nothing when the row does not exist.
WalletFree(p, w) == w \notin Wallet \/ \A q \in Attempt \ {p} : w \notin locked[q]

LockWallet(p) ==
  /\ pc[p] = "lock"
  /\ IF ToLock(p) = {}
     THEN Goto(p, "load") /\ UNCHANGED locked
     ELSE /\ WalletFree(p, NextWallet(p))
          /\ locked' = [locked EXCEPT ![p] = @ \cup {NextWallet(p)}]
          /\ UNCHANGED pc
  /\ UNCHANGED <<txs, avail, keys, req, plan, origLock, seqs, answer>>

\* Mutant: assertSufficientBalance is not called.
LoadUnchecked(p) ==
  /\ pc[p] = "load"
  /\ IF WalletsValid(plan[p])
     THEN /\ Goto(p, "insert")
          /\ UNCHANGED <<txs, avail, keys, req, plan, locked, origLock, seqs, answer>>
     ELSE Rollback(p, "Rejected")

\* findMany with balances, existence and currency checks, assertSufficientBalance.
LoadWallets(p) ==
  /\ pc[p] = "load"
  /\ IF WalletsValid(plan[p]) /\ SufficientBalance(plan[p])
     THEN /\ Goto(p, "insert")
          /\ UNCHANGED <<txs, avail, keys, req, plan, locked, origLock, seqs, answer>>
     ELSE Rollback(p, "Rejected")

\* An INSERT that meets another transaction's uncommitted row with the same
\* UNIQUE value waits for that transaction to end.
UniqueFree(p) ==
  \A q \in Attempt \ {p} : pc[q] = "commit" =>
    /\ KeyOf(q) # KeyOf(p)
    /\ plan[p].reversalOf # NoTx => plan[q].reversalOf # plan[p].reversalOf

\* createTransactionRow, writeBalancedLedger, applyBalanceDeltas and the REVERSED
\* mark.  The writes are buffered in `plan` and `seqs` until the commit.
InsertRows(p) ==
  /\ pc[p] = "insert"
  /\ UniqueFree(p)
  /\ \/ ~KeyUnused(KeyOf(p)) /\ Rollback(p, "KeyConflict")
     \/ /\ plan[p].reversalOf # NoTx /\ ~NotReversed(plan[p].reversalOf)
        /\ Rollback(p, "AlreadyReversed")
     \/ /\ KeyUnused(KeyOf(p))
        /\ plan[p].reversalOf # NoTx => NotReversed(plan[p].reversalOf)
        /\ IF plan[p].debit = plan[p].credit \/ ~InRange(plan[p])
           THEN Rollback(p, "Failed")  \* duplicate entry_seq; BIGINT out of range
           ELSE /\ seqs' = [seqs EXCEPT ![p] = <<NextEntrySeq(plan[p].debit),
                                                 NextEntrySeq(plan[p].credit)>>]
                /\ Goto(p, "commit")
                /\ UNCHANGED <<txs, avail, keys, req, plan, locked, origLock, answer>>

\* UNIQUE (wallet_id, entry_seq)
EntrySeqsFree(p) ==
  /\ seqs[p][1] \notin EntrySeqs(plan[p].debit)
  /\ seqs[p][2] \notin EntrySeqs(plan[p].credit)

\* idempotencyKey.update(COMPLETED) and COMMIT: ledger and key in one transaction.
CommitEffect(p) ==
  /\ keys[KeyOf(p)] # None
  /\ EntrySeqsFree(p)
  /\ Record(KeyOf(p), plan[p], seqs[p][1], seqs[p][2])
  /\ ApplyBalanceDeltas(plan[p])
  /\ keys' = [keys EXCEPT ![KeyOf(p)].state = "COMPLETED", ![KeyOf(p)].response = Len(txs) + 1]
  /\ DropLocks(p)

Commit(p) ==
  /\ pc[p] = "commit"
  /\ CommitEffect(p)
  /\ Reply(p, Created(Len(txs) + 1))
  /\ UNCHANGED <<req, plan, seqs>>

\* The COMMIT took effect but its acknowledgement was lost: $transaction throws.
CommitUnacknowledged(p) ==
  /\ pc[p] = "commit"
  /\ CommitEffect(p)
  /\ Goto(p, "release")
  /\ answer' = [answer EXCEPT ![p] = Error("Failed")]
  /\ UNCHANGED <<req, plan, seqs>>

\* The key row is gone (P2025), or an entry_seq was taken: everything rolls back.
CommitFails(p) ==
  /\ pc[p] = "commit"
  /\ keys[KeyOf(p)] = None \/ ~EntrySeqsFree(p)
  /\ Rollback(p, "Failed")

\* Any statement of the transaction may fail (timeout, lost connection).
TransactionError(p) == pc[p] \in InTransaction /\ Rollback(p, "Failed")

-----------------------------------------------------------------------------
\* The catch block: best-effort delete by key alone, then rethrow.
ReleaseKey(p) ==
  /\ pc[p] = "release"
  /\ keys' = [keys EXCEPT ![KeyOf(p)] = None]
  /\ Goto(p, "replied")
  /\ UNCHANGED <<txs, avail, req, plan, locked, origLock, seqs, answer>>

\* The release itself fails: logged, the row stays for the stale-reclaim path.
ReleaseKeyFails(p) ==
  /\ pc[p] = "release"
  /\ Goto(p, "replied")
  /\ UNCHANGED <<txs, avail, keys, req, plan, locked, origLock, seqs, answer>>

Reset(p) ==
  /\ Goto(p, "idle")
  /\ req' = [req EXCEPT ![p] = None]
  /\ plan' = [plan EXCEPT ![p] = None]
  /\ seqs' = [seqs EXCEPT ![p] = <<0, 0>>]
  /\ answer' = [answer EXCEPT ![p] = NoAnswer]
  /\ DropLocks(p)

\* The response leaves; the slot is free.
Deliver(p) == pc[p] = "replied" /\ Reset(p) /\ UNCHANGED <<txs, avail, keys>>

\* The process serving the request dies; PostgreSQL rolls its transaction back.
Crash(p) == pc[p] \notin {"idle", "replied"} /\ Reset(p) /\ UNCHANGED <<txs, avail, keys>>

\* A row becomes older than IDEMPOTENCY_STALE_MS.
StaleElapses(key) ==
  /\ keys[key] # None
  /\ keys[key].state = "IN_PROGRESS" /\ ~keys[key].stale
  /\ keys' = [keys EXCEPT ![key].stale = TRUE]
  /\ UNCHANGED <<txs, avail, attemptVars>>

-----------------------------------------------------------------------------
Init ==
  /\ LedgerInit
  /\ keys = [key \in Key |-> None]
  /\ pc = [p \in Attempt |-> "idle"]
  /\ req = [p \in Attempt |-> None]
  /\ plan = [p \in Attempt |-> None]
  /\ locked = [p \in Attempt |-> {}]
  /\ origLock = [p \in Attempt |-> NoTx]
  /\ seqs = [p \in Attempt |-> <<0, 0>>]
  /\ answer = [p \in Attempt |-> NoAnswer]

\* The steps the service takes by itself once a request is in.
Serve(p) ==
  \/ FindKey(p) \/ Reclaim(p) \/ CreateKey(p) \/ RereadKey(p)
  \/ PlanPosting(p) \/ PlanReversal(p) \/ LockWallet(p) \/ LoadWallets(p)
  \/ InsertRows(p) \/ Commit(p) \/ CommitFails(p)
  \/ ReleaseKey(p) \/ Deliver(p)

\* What goes wrong.
Fault(p) ==
  CommitUnacknowledged(p) \/ TransactionError(p) \/ ReleaseKeyFails(p) \/ Crash(p)

Next ==
  \/ \E p \in Attempt : (\E r \in Request : Receive(p, r)) \/ Serve(p) \/ Fault(p)
  \/ \E key \in Key : StaleElapses(key)

Spec == Init /\ [][Next]_vars

\* Any fault, but nobody so slow that his row is taken for a dead one: every
\* attempt ends within IDEMPOTENCY_STALE_MS.
PromptNext ==
  \E p \in Attempt : (\E r \in Request : Receive(p, r)) \/ Serve(p) \/ Fault(p)
PromptSpec == Init /\ [][PromptNext]_vars

-----------------------------------------------------------------------------
TypeOK ==
  /\ LedgerTypeOK
  /\ keys \in [Key -> KeyRow \cup {None}]
  /\ pc \in [Attempt -> Step]
  /\ req \in [Attempt -> Request \cup {None}]
  /\ plan \in [Attempt -> Plan \cup {None}]
  /\ locked \in [Attempt -> SUBSET Nat]
  /\ origLock \in [Attempt -> Nat]
  /\ seqs \in [Attempt -> Nat \X Nat]
  /\ answer \in [Attempt -> [code : Code, tx : Nat]]

\* A 201, first or replayed, names a transaction that is committed under the
\* caller's key, and a COMPLETED key row caches such a transaction: nothing is
\* acknowledged that a crash, a rollback or a reclaim can still undo.
AnswersAreDurable ==
  /\ \A p \in Attempt : answer[p].code = "Created" =>
       /\ answer[p].tx \in DOMAIN txs
       /\ txs[answer[p].tx].key = KeyOf(p)
  /\ \A key \in Key : keys[key] # None /\ keys[key].state = "COMPLETED" =>
       /\ keys[key].response \in DOMAIN txs
       /\ txs[keys[key].response].key = key

\* The transaction is the movement the body asked for.
Performs(tx, b) ==
  /\ tx.kind = b.kind /\ tx.amount = b.amount /\ tx.currency = b.currency
  /\ b.kind \in {"TRANSFER", "WITHDRAWAL", "FEE"} => tx.debit = b.source
  /\ b.kind \in {"TRANSFER", "DEPOSIT"} => tx.credit = b.target
  /\ b.kind = "REVERSAL" => tx.reversalOf = b.original

\* "Same key + different body -> 409 Idempotency.KeyConflict"
\* (docs/api-reference.md:133): a 201 is only ever given for the movement the
\* caller asked for, never for the one another body made under the same key.
AnswerMatchesRequest ==
  \A p \in Attempt : answer[p].code = "Created" /\ answer[p].tx \in DOMAIN txs =>
    Performs(txs[answer[p].tx], BodyOf(p))

\* Who waits for whose row lock or uncommitted UNIQUE value.
WaitsFor(p, q) ==
  \/ pc[p] = "plan" /\ BodyOf(p).kind = "REVERSAL" /\ BodyOf(p).original # NoTx
       /\ origLock[q] = BodyOf(p).original
  \/ pc[p] = "lock" /\ ToLock(p) # {} /\ NextWallet(p) \in locked[q] \cap Wallet
  \/ pc[p] = "insert" /\ pc[q] = "commit"
       /\ \/ KeyOf(q) = KeyOf(p)
          \/ plan[p].reversalOf # NoTx /\ plan[q].reversalOf = plan[p].reversalOf

\* "Lock every involved wallet row in a deterministic (id-sorted) order to avoid
\* deadlocks": no set of postings waits for one another in a circle, the lock
\* on the original and the UNIQUE waits included.
NoDeadlock ==
  \A S \in (SUBSET Attempt) \ {{}} :
    \E p \in S : \A q \in S \ {p} : ~WaitsFor(p, q)

-----------------------------------------------------------------------------
\* Why it works: what each attempt may rely on at each step of post().

Working == Step \ {"idle", "replied"}
Holding == {"lock", "load", "insert", "commit"}

\* Nothing an attempt has checked under its locks can be changed by another.
Ready(p) ==
  /\ plan[p].debit # plan[p].credit
  /\ InRange(plan[p])
  /\ KeyUnused(KeyOf(p))
  /\ plan[p].reversalOf # NoTx => NotReversed(plan[p].reversalOf)
  /\ seqs[p] = <<NextEntrySeq(plan[p].debit), NextEntrySeq(plan[p].credit)>>

AttemptInv(p) ==
  /\ pc[p] # "idle" => req[p] \in Request
  /\ pc[p] \in Working => BodyOf(p).kind \in Kind
  /\ pc[p] \notin Holding => locked[p] = {} /\ origLock[p] = NoTx
  /\ pc[p] \in Holding =>
       plan[p] \in Plan /\ WellFormed(plan[p]) /\ origLock[p] = plan[p].reversalOf
  /\ pc[p] \in {"load", "insert", "commit"} => {plan[p].debit, plan[p].credit} \subseteq locked[p]
  /\ pc[p] \in {"insert", "commit"} => WalletsValid(plan[p]) /\ SufficientBalance(plan[p])
  /\ pc[p] = "commit" => Ready(p)

\* A wallet row, an original transaction row and an uncommitted key have one holder.
Exclusive(p, q) ==
  /\ locked[p] \cap locked[q] \cap Wallet = {}
  /\ origLock[p] = origLock[q] => origLock[p] = NoTx
  /\ pc[p] = "commit" /\ pc[q] = "commit" => KeyOf(p) # KeyOf(q)

\* What post() has checked stays true until its commit: the balance it saw covers
\* the debit, the original is still POSTED, the key and the entry numbers are
\* still free.  This is the inductive invariant behind the refinement of Ledger.
PostingInv ==
  /\ TypeOK
  /\ LedgerInv
  /\ \A p \in Attempt : AttemptInv(p)
  /\ \A p, q \in Attempt : p # q => Exclusive(p, q)

\* executePlan's id-sorted loop: what an attempt has locked belongs to its plan and
\* lies below what it has still to lock.
LockOrder ==
  \A p \in Attempt : \A w \in locked[p] :
    w \in {plan[p].debit, plan[p].credit} /\ \A v \in ToLock(p) : w < v

-----------------------------------------------------------------------------
\* Statements complete, row locks are granted in turn (PostgreSQL queues the
\* waiters), IN_PROGRESS rows grow old and clients retry.
Fairness ==
  /\ \A p \in Attempt :
       /\ WF_vars(Serve(p))
       /\ SF_vars(PlanReversal(p))
       /\ SF_vars(LockWallet(p))
       /\ SF_vars(InsertRows(p))
  /\ \A key \in Key : WF_vars(StaleElapses(key))

FairSpec == Spec /\ Fairness

\* Every request is eventually answered (or its process died): no lock wait,
\* retry or conflict lasts for ever.
EveryRequestEnds ==
  \A p \in Attempt : pc[p] = "find" ~> pc[p] \in {"replied", "idle"}

\* The client sends r again and again, and not all of these retries are killed.
Retried(r) ==
  /\ SF_vars(\E p \in Attempt : Receive(p, r))
  /\ SF_vars(\E p \in Attempt : req[p] = r /\ FindKey(p))
  /\ SF_vars(\E p \in Attempt : req[p] = r /\ Reclaim(p))

\* An IN_PROGRESS row whose owner is gone.
Abandoned(key) ==
  /\ keys[key] # None /\ keys[key].state = "IN_PROGRESS"
  /\ \A p \in Attempt : pc[p] \in InTransaction \cup {"release"} => KeyOf(p) # key

\* A key stranded by a crash or a failed release is reclaimed once its request is
\* retried: the client is not wedged with 409 InFlight (IDEMPOTENCY_STALE_MS).
AbandonedKeyRecovers ==
  \A r \in Request : Retried(r) => (Abandoned(r.key) ~> ~Abandoned(r.key))

=============================================================================
