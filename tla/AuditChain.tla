----------------------------- MODULE AuditChain -----------------------------
(***************************************************************************)
(* The hash-chained audit trail: AuditService.append as transactions of    *)
(* one or several API processes run it, and the uuidv7 generator whose ids  *)
(* break ties between rows of the same millisecond.                         *)
(*                                                                         *)
(* A row's entry_hash identifies it (SHA-256 is taken to be injective), so *)
(* prev_hash is modelled by the id of the row it was computed from, or     *)
(* Genesis.  All processes read one clock; a clock that is stepped back    *)
(* (NTP) is an option of the model.                                        *)
(***************************************************************************)
EXTENDS Integers, FiniteSets

CONSTANTS
    Process,      \* API processes: each has its own uuidv7 state
    Writer,       \* transactions in flight that append to the trail
    ProcessOf,    \* the process a writer runs in
    Rand,         \* values of the random tail of an id, ordered as numbers
    MaxCounter,   \* 0x0fff in the code
    StepsBack,    \* may the clock be set back?
    MaxClock,     \* bounds of the model
    MaxMillis,
    MaxRows

ASSUME AuditAssumption ==
    /\ ProcessOf \in [Writer -> Process]
    /\ Rand \subseteq Nat
    /\ MaxCounter \in Nat
    /\ StepsBack \in BOOLEAN
    /\ MaxClock \in Nat
    /\ MaxMillis \in Nat
    /\ MaxRows \in Nat

VARIABLES
    log,          \* audit_logs: the committed rows
    pending,      \* writer -> rows its open transaction has inserted
    pc,           \* writer -> where append() is
    tail,         \* writer -> what it has read as the predecessor
    minted,       \* writer -> the id it has minted
    now,          \* Date.now()
    lastMillis,   \* process -> state of the generator
    counter

vars == <<log, pending, pc, tail, minted, now, lastMillis, counter>>

Genesis == [ms |-> -1, ctr |-> 0, rnd |-> 0]

Id == [ms : Int, ctr : Nat, rnd : Nat]
Row == [id : Id, createdAt : Int, prev : Id]
Pcs == {"idle", "locked", "read", "minted", "open"}

TypeOK ==
    /\ log \in SUBSET Row
    /\ pending \in [Writer -> SUBSET Row]
    /\ pc \in [Writer -> Pcs]
    /\ tail \in [Writer -> Id]
    /\ minted \in [Writer -> Id]
    /\ now \in Nat
    /\ lastMillis \in [Process -> Int]
    /\ counter \in [Process -> 0..MaxCounter]

Init ==
    /\ log = {}
    /\ pending = [w \in Writer |-> {}]
    /\ pc = [w \in Writer |-> "idle"]
    /\ tail = [w \in Writer |-> Genesis]
    /\ minted = [w \in Writer |-> Genesis]
    /\ now = 0
    /\ lastMillis = [p \in Process |-> -1]
    /\ counter = [p \in Process |-> 0]

-----------------------------------------------------------------------------
(* uuidv7(): the time and counter fields of the next id.                    *)

\* Mutant: the counter wraps around within the millisecond.
NextIdWrapping(p) ==
    IF now > lastMillis[p] THEN [ms |-> now, ctr |-> 0]
    ELSE [ms |-> lastMillis[p], ctr |-> (counter[p] + 1) % (MaxCounter + 1)]

\* A later millisecond starts at 0; otherwise the counter goes on, and its
\* overflow borrows a millisecond from the future.
NextId(p) ==
    IF now > lastMillis[p] THEN [ms |-> now, ctr |-> 0]
    ELSE IF counter[p] + 1 > MaxCounter THEN [ms |-> lastMillis[p] + 1, ctr |-> 0]
    ELSE [ms |-> lastMillis[p], ctr |-> counter[p] + 1]

Gen(p) == [ms |-> lastMillis[p], ctr |-> counter[p]]

Generate(p) ==
    /\ NextId(p).ms <= MaxMillis
    /\ lastMillis' = [lastMillis EXCEPT ![p] = NextId(p).ms]
    /\ counter' = [counter EXCEPT ![p] = NextId(p).ctr]

\* ORDER BY created_at, id: ids compare as their text, which is time field,
\* then counter, then the random tail.
StampLess(a, b) == a.ms < b.ms \/ (a.ms = b.ms /\ a.ctr < b.ctr)

IdLess(a, b) ==
    StampLess(a, b) \/ (a.ms = b.ms /\ a.ctr = b.ctr /\ a.rnd < b.rnd)

Precedes(r, s) ==
    \/ r.createdAt < s.createdAt
    \/ r.createdAt = s.createdAt /\ IdLess(r.id, s.id)

\* What a writer's transaction sees.
View(w) == log \cup pending[w]

\* i identifies the row that ORDER BY created_at DESC, id DESC LIMIT 1 returns,
\* or the genesis seed.
Newest(S, i) ==
    IF S = {} THEN i = Genesis
    ELSE \E r \in S : r.id = i /\ \A s \in S \ {r} : Precedes(s, r)

-----------------------------------------------------------------------------
(* append() in the caller's transaction, or in one of its own.              *)

\* Mutant: the lock is released after the INSERT, before the commit.
LockFreeEarly(w) == \A v \in Writer \ {w} : pc[v] \in {"idle", "open"}

\* pg_advisory_xact_lock: nobody else holds it, and it is kept to the end of
\* the transaction.
LockFree(w) == \A v \in Writer \ {w} : pc[v] = "idle"

Lock(w) ==
    /\ pc[w] \in {"idle", "open"}
    /\ LockFree(w)
    /\ Cardinality(View(w)) < MaxRows
    /\ pc' = [pc EXCEPT ![w] = "locked"]
    /\ UNCHANGED <<log, pending, tail, minted, now, lastMillis, counter>>

ReadLast(w) ==
    /\ pc[w] = "locked"
    /\ \E i \in {Genesis} \cup {r.id : r \in View(w)} :
        /\ Newest(View(w), i)
        /\ tail' = [tail EXCEPT ![w] = i]
    /\ pc' = [pc EXCEPT ![w] = "read"]
    /\ UNCHANGED <<log, pending, minted, now, lastMillis, counter>>

\* const id = uuidv7()
MintId(w) ==
    LET p == ProcessOf[w]
    IN  /\ pc[w] = "read"
        /\ Generate(p)
        /\ \E r \in Rand : minted' =
            [minted EXCEPT ![w] = [ms |-> NextId(p).ms, ctr |-> NextId(p).ctr, rnd |-> r]]
        /\ pc' = [pc EXCEPT ![w] = "minted"]
        /\ UNCHANGED <<log, pending, tail, now>>

\* const createdAt = new Date(), the hash and the INSERT.  Ids are unique: the
\* random tails of two processes are taken never to collide.
InsertRow(w) ==
    /\ pc[w] = "minted"
    /\ \A r \in View(w) : r.id # minted[w]
    /\ pending' = [pending EXCEPT ![w] =
                        @ \cup {[id |-> minted[w], createdAt |-> now, prev |-> tail[w]]}]
    /\ pc' = [pc EXCEPT ![w] = "open"]
    /\ UNCHANGED <<log, tail, minted, now, lastMillis, counter>>

\* The caller's transaction commits, or fails and takes its rows with it.
Commit(w) ==
    /\ pc[w] = "open"
    /\ log' = log \cup pending[w]
    /\ pending' = [pending EXCEPT ![w] = {}]
    /\ pc' = [pc EXCEPT ![w] = "idle"]
    /\ UNCHANGED <<tail, minted, now, lastMillis, counter>>

Rollback(w) ==
    /\ pc[w] # "idle"
    /\ pending' = [pending EXCEPT ![w] = {}]
    /\ pc' = [pc EXCEPT ![w] = "idle"]
    /\ UNCHANGED <<log, tail, minted, now, lastMillis, counter>>

\* Any other caller of uuidv7 in the process.
OtherId(p) ==
    /\ Generate(p)
    /\ UNCHANGED <<log, pending, pc, tail, minted, now>>

Tick ==
    /\ now < MaxClock
    /\ now' = now + 1
    /\ UNCHANGED <<log, pending, pc, tail, minted, lastMillis, counter>>

StepBack ==
    /\ StepsBack
    /\ now > 0
    /\ now' = now - 1
    /\ UNCHANGED <<log, pending, pc, tail, minted, lastMillis, counter>>

\* A process dies and comes up again, which takes longer than a millisecond:
\* its transactions roll back and the generator starts from nothing.
Restart(p) ==
    /\ now < MaxClock
    /\ now' = now + 1
    /\ pending' = [w \in Writer |-> IF ProcessOf[w] = p THEN {} ELSE pending[w]]
    /\ pc' = [w \in Writer |-> IF ProcessOf[w] = p THEN "idle" ELSE pc[w]]
    /\ lastMillis' = [lastMillis EXCEPT ![p] = -1]
    /\ counter' = [counter EXCEPT ![p] = 0]
    /\ UNCHANGED <<log, tail, minted>>

Next ==
    \/ \E w \in Writer : \/ Lock(w) \/ ReadLast(w) \/ MintId(w)
                         \/ InsertRow(w) \/ Commit(w) \/ Rollback(w)
    \/ \E p \in Process : OtherId(p) \/ Restart(p)
    \/ Tick
    \/ StepBack

Spec == Init /\ [][Next]_vars

-----------------------------------------------------------------------------
(* Properties.                                                              *)

\* The chain is linear: no two committed rows carry the same prev_hash, and
\* each one continues a committed row or the genesis seed.
ChainLinear ==
    /\ \A r, s \in log : r.prev = s.prev => r = s
    /\ \A r \in log : r.prev # Genesis => \E s \in log : s.id = r.prev

\* Within the life of a process ids never regress: every uuidv7() call moves
\* the generator strictly forward, same-millisecond calls, counter overflow
\* and backward clock steps included.
IdsNeverRegress ==
    [][\A p \in Process :
        UNCHANGED Gen(p) \/ StampLess(Gen(p), Gen(p)') \/ Restart(p)]_vars

-----------------------------------------------------------------------------
(* The inductive invariant, for one process whose clock does not go back.   *)

OneClock ==
    /\ \A w, v \in Writer : ProcessOf[w] = ProcessOf[v]
    /\ ~StepsBack

\* Rows linked into one chain that follows the order rows are read in.
Linked(S) ==
    /\ \A r, s \in S : r.prev = s.prev => r = s
    /\ \A r, s \in S : r.id = s.id => r = s
    /\ \A r \in S : r.id # Genesis
    /\ \A r \in S : r.prev # Genesis => \E s \in S : s.id = r.prev /\ Precedes(s, r)

\* No row is later than the clock, and a row of this very millisecond has an
\* id the generator is past.
Dated(w) ==
    \A r \in View(w) :
        \/ r.createdAt < now
        \/ /\ r.createdAt = now
           /\ ~StampLess(Gen(ProcessOf[w]), r.id)

WriterInv(w) ==
    /\ pc[w] = "idle" => pending[w] = {}
    /\ pc[w] # "idle" => LockFree(w)
    /\ Linked(View(w))
    /\ Dated(w)
    /\ pc[w] \in {"read", "minted"} => Newest(View(w), tail[w])
    /\ pc[w] = "minted" =>
        /\ minted[w].ms >= 0
        /\ ~StampLess(Gen(ProcessOf[w]), minted[w])
        /\ \A r \in View(w) : r.createdAt < now \/ StampLess(r.id, minted[w])

ChainInv ==
    /\ TypeOK
    /\ Linked(log)
    /\ \A p \in Process : lastMillis[p] >= -1
    /\ \A w \in Writer : WriterInv(w)
=============================================================================
