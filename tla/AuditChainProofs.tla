-------------------------- MODULE AuditChainProofs --------------------------
(***************************************************************************)
(* Proofs about AuditChain for any number of transactions and any size of  *)
(* the counter: uuidv7 never regresses, and the chain is linear as long as *)
(* one process writes it and its clock does not go back.                   *)
(***************************************************************************)
EXTENDS AuditChain, TLAPS

-----------------------------------------------------------------------------
(* The generator.                                                           *)

\* The next id is a pair of numbers with the counter within its field.
LEMMA NextIdType ==
    ASSUME TypeOK, NEW p \in Process
    PROVE  /\ NextId(p).ms \in Int
           /\ NextId(p).ctr \in 0..MaxCounter
           /\ lastMillis[p] \in Int
           /\ counter[p] \in 0..MaxCounter
           /\ MaxCounter \in Nat
           /\ now \in Nat
  BY AuditAssumption DEF TypeOK, NextId

\* uuidv7() moves the generator strictly forward.
LEMMA GenerateForward ==
    ASSUME TypeOK, NEW p \in Process, Generate(p)
    PROVE  /\ lastMillis'[p] = NextId(p).ms
           /\ counter'[p] = NextId(p).ctr
           /\ \/ lastMillis[p] < lastMillis'[p]
              \/ lastMillis[p] = lastMillis'[p] /\ counter[p] < counter'[p]
           /\ \A q \in Process \ {p} : lastMillis'[q] = lastMillis[q] /\ counter'[q] = counter[q]
<1>1. /\ lastMillis'[p] = NextId(p).ms
      /\ counter'[p] = NextId(p).ctr
      /\ \A q \in Process \ {p} : lastMillis'[q] = lastMillis[q] /\ counter'[q] = counter[q]
    BY DEF TypeOK, Generate
<1>2. \/ lastMillis[p] < NextId(p).ms
      \/ lastMillis[p] = NextId(p).ms /\ counter[p] < NextId(p).ctr
    BY NextIdType DEF NextId
<1> QED
    BY <1>1, <1>2

\* Every step keeps the types.
LEMMA TypeStep == TypeOK /\ Next => TypeOK'
<1> SUFFICES ASSUME TypeOK, Next PROVE TypeOK'
    OBVIOUS
<1>1. ASSUME NEW p \in Process, Generate(p)
      PROVE  /\ lastMillis' \in [Process -> Int]
             /\ counter' \in [Process -> 0..MaxCounter]
    BY <1>1, NextIdType DEF Generate, TypeOK
<1>2. ASSUME NEW w \in Writer, Lock(w) \/ Commit(w) \/ Rollback(w) PROVE TypeOK'
    BY <1>2 DEF TypeOK, Lock, Commit, Rollback, Pcs
<1>3. ASSUME NEW w \in Writer, ReadLast(w) PROVE TypeOK'
  <2>1. View(w) \subseteq Row
      BY DEF TypeOK, View
  <2>2. {Genesis} \cup {r.id : r \in View(w)} \subseteq Id
      BY <2>1 DEF Row, Genesis, Id
  <2> QED
      BY <1>3, <2>2 DEF TypeOK, ReadLast, Pcs
<1>4. ASSUME NEW w \in Writer, MintId(w) PROVE TypeOK'
  <2>1. ProcessOf[w] \in Process
      BY AuditAssumption
  <2>2. ASSUME NEW r \in Rand
        PROVE  [ms |-> NextId(ProcessOf[w]).ms, ctr |-> NextId(ProcessOf[w]).ctr,
                rnd |-> r] \in Id
      BY <2>1, NextIdType, AuditAssumption DEF Id
  <2>3. minted' \in [Writer -> Id]
      BY <1>4, <2>2 DEF MintId, TypeOK
  <2> QED
      BY <1>1, <1>4, <2>1, <2>3 DEF TypeOK, MintId, Pcs
<1>5. ASSUME NEW w \in Writer, InsertRow(w) PROVE TypeOK'
  <2>1. [id |-> minted[w], createdAt |-> now, prev |-> tail[w]] \in Row
      BY DEF TypeOK, Row
  <2> QED
      BY <1>5, <2>1 DEF TypeOK, InsertRow, Pcs
<1>6. ASSUME NEW p \in Process, OtherId(p) PROVE TypeOK'
    BY <1>1, <1>6 DEF TypeOK, OtherId
<1>7. ASSUME NEW p \in Process, Restart(p) PROVE TypeOK'
    BY <1>7, AuditAssumption DEF TypeOK, Restart, Pcs
<1>8. CASE Tick \/ StepBack
    BY <1>8 DEF TypeOK, Tick, StepBack
<1> QED
    BY <1>2, <1>3, <1>4, <1>5, <1>6, <1>7, <1>8 DEF Next

\* The initial state has the right types.
LEMMA TypeInit == Init => TypeOK
  BY AuditAssumption DEF Init, TypeOK, Genesis, Id, Pcs

\* Type correctness of the audit trail and the generator, whatever the clock
\* does: the counter stays within its field.
THEOREM AuditTypes == Spec => []TypeOK
<1>1. TypeOK /\ UNCHANGED vars => TypeOK'
    BY DEF TypeOK, vars
<1> QED
    BY <1>1, TypeInit, TypeStep, PTL DEF Spec

\* Within the life of a process ids never regress, for any size of the counter
\* and any backward step of the clock.
THEOREM GeneratorNeverRegresses == Spec => IdsNeverRegress
<1> DEFINE Forward ==
        \A p \in Process :
            UNCHANGED Gen(p) \/ StampLess(Gen(p), Gen(p)') \/ Restart(p)
<1>1. TypeOK /\ Next => Forward
  <2> SUFFICES ASSUME TypeOK, Next, NEW p \in Process
               PROVE  UNCHANGED Gen(p) \/ StampLess(Gen(p), Gen(p)') \/ Restart(p)
      OBVIOUS
  <2>1. ASSUME NEW q \in Process, Generate(q)
        PROVE  UNCHANGED Gen(p) \/ StampLess(Gen(p), Gen(p)')
      BY <2>1, GenerateForward DEF Gen, StampLess
  <2>2. ASSUME UNCHANGED <<lastMillis, counter>> PROVE UNCHANGED Gen(p)
      BY <2>2 DEF Gen
  <2>3. ASSUME NEW q \in Process, Restart(q), q # p PROVE UNCHANGED Gen(p)
      BY <2>3 DEF Gen, Restart, TypeOK
  <2>4. \A w \in Writer : ProcessOf[w] \in Process
      BY AuditAssumption
  <2> QED
      BY <2>1, <2>2, <2>3, <2>4 DEF Next, Lock, ReadLast, MintId, InsertRow, Commit,
             Rollback, OtherId, Tick, StepBack
<1>2. UNCHANGED vars => Forward
    BY DEF vars, Gen
<1> QED
    BY <1>1, <1>2, AuditTypes, PTL DEF Spec, IdsNeverRegress

-----------------------------------------------------------------------------
(* The chain.                                                               *)

\* Rows have numbers to compare.
LEMMA RowFields ==
    ASSUME NEW r \in Row
    PROVE  /\ r.createdAt \in Int
           /\ r.id \in Id /\ r.prev \in Id
           /\ r.id.ms \in Int /\ r.id.ctr \in Nat /\ r.id.rnd \in Nat
  BY DEF Row, Id

\* The order rows are read in has no cycle of two.
LEMMA PrecedesAsymmetric ==
    ASSUME NEW r \in Row, NEW s \in Row, Precedes(r, s)
    PROVE  ~Precedes(s, r)
  BY RowFields DEF Precedes, IdLess, StampLess

\* A row that continues the newest row of a chain, and comes after all of it,
\* makes a chain again.
LEMMA LinkNext ==
    ASSUME NEW S \in SUBSET Row, Linked(S), NEW n \in Row, Newest(S, n.prev),
           n.id # Genesis,
           \A r \in S : r.id # n.id,
           \A r \in S : Precedes(r, n)
    PROVE  Linked(S \cup {n})
<1>1. \A r \in S : r.prev # n.prev
  <2> SUFFICES ASSUME NEW r \in S, r.prev = n.prev PROVE FALSE
      OBVIOUS
  <2>1. PICK m \in S : m.id = n.prev /\ \A s \in S \ {m} : Precedes(s, m)
      BY DEF Newest
  <2>2. r.prev # Genesis
      BY <2>1 DEF Linked
  <2>3. Precedes(m, r)
      BY <2>1, <2>2 DEF Linked
  <2>4. ~Precedes(r, m)
      BY <2>3, PrecedesAsymmetric
  <2>5. r = m
      BY <2>1, <2>4
  <2> QED
      BY <2>3, <2>4, <2>5
<1>2. n.prev # Genesis => \E s \in S : s.id = n.prev /\ Precedes(s, n)
    BY DEF Newest
<1> QED
    BY <1>1, <1>2 DEF Linked

\* The initial state: an empty log and idle writers.
LEMMA ChainInit == Init => ChainInv
  BY TypeInit DEF Init, ChainInv, WriterInv, Linked, View, Dated, Newest

\* Taking the lock: everybody else is idle.
LEMMA LockStep ==
    ASSUME ChainInv, NEW w \in Writer, Lock(w), NEW v \in Writer
    PROVE  WriterInv(v)'
<1>1. /\ UNCHANGED <<log, pending, tail, minted, now, lastMillis, counter>>
      /\ \A u \in Writer \ {w} : pc[u] = "idle" /\ pc'[u] = "idle"
      /\ pc'[w] = "locked"
    BY DEF Lock, LockFree, ChainInv, TypeOK
<1>2. WriterInv(v)
    BY DEF ChainInv
<1> QED
    BY <1>1, <1>2 DEF WriterInv, LockFree, Linked, View, Dated, Gen, Newest

\* Reading the predecessor.
LEMMA ReadStep ==
    ASSUME ChainInv, NEW w \in Writer, ReadLast(w), NEW v \in Writer
    PROVE  WriterInv(v)'
<1>0. WriterInv(v) /\ WriterInv(w)
    BY DEF ChainInv
<1>1. /\ UNCHANGED <<log, pending, minted, now, lastMillis, counter>>
      /\ \A u \in Writer \ {w} : pc[u] = "idle" /\ pc'[u] = "idle"
      /\ pc'[w] = "read"
      /\ Newest(View(w), tail'[w])
    BY <1>0 DEF ReadLast, LockFree, ChainInv, TypeOK, WriterInv
<1> QED
    BY <1>0, <1>1 DEF WriterInv, LockFree, Linked, View, Dated, Gen, Newest

\* The generator of the writers' process moves forward: rows and ids minted so
\* far stay behind it.
LEMMA GenerateKeeps ==
    ASSUME TypeOK, NEW p \in Process, Generate(p), NEW i \in Id, NEW q \in Process,
           ~StampLess(Gen(q), i)
    PROVE  /\ ~StampLess(Gen(q)', i)
           /\ q = p => StampLess(i, Gen(q)')
<1>1. /\ lastMillis[q] \in Int /\ counter[q] \in Nat
      /\ lastMillis'[q] \in Int /\ counter'[q] \in Nat
      /\ i.ms \in Int /\ i.ctr \in Nat
    BY NextIdType, GenerateForward DEF Id
<1>2. CASE q = p
    BY <1>1, <1>2, GenerateForward DEF Gen, StampLess
<1>3. CASE q # p
    BY <1>1, <1>3, GenerateForward DEF Gen, StampLess
<1> QED
    BY <1>2, <1>3

\* Minting an id in a writer.
LEMMA MintStep ==
    ASSUME OneClock, ChainInv, NEW w \in Writer, MintId(w), NEW v \in Writer
    PROVE  WriterInv(v)'
<1> DEFINE p == ProcessOf[w]
<1>0. WriterInv(v) /\ WriterInv(w) /\ TypeOK /\ p \in Process /\ ProcessOf[v] = p
    BY AuditAssumption DEF ChainInv, OneClock
<1>1. /\ UNCHANGED <<log, pending, tail, now>>
      /\ \A u \in Writer \ {w} : pc[u] = "idle" /\ pc'[u] = "idle"
      /\ pc[w] = "read" /\ pc'[w] = "minted"
      /\ Generate(p)
    BY <1>0 DEF MintId, LockFree, TypeOK, WriterInv
<1>2. \A r \in View(v) : r \in Row /\ r.id \in Id
    BY <1>0, RowFields DEF View, TypeOK
<1>3. Dated(v)'
    BY <1>0, <1>1, <1>2, GenerateKeeps DEF WriterInv, Dated, View
<1>4. /\ pc'[v] = "idle" => pending'[v] = {}
      /\ pc'[v] # "idle" => LockFree(v)'
      /\ Linked(View(v))'
      /\ pc'[v] \in {"read", "minted"} => Newest(View(v), tail[v])'
    BY <1>0, <1>1 DEF WriterInv, LockFree, Linked, View, Newest
<1>5. minted'[w].ms = Gen(p)'.ms /\ minted'[w].ctr = Gen(p)'.ctr
    BY <1>0, <1>1, GenerateForward DEF MintId, TypeOK, Gen
<1>6. lastMillis'[p] >= 0 /\ lastMillis'[p] \in Int /\ counter'[p] \in Nat
    BY <1>0, <1>1, NextIdType, GenerateForward DEF NextId, ChainInv
<1>7. minted'[w].ms >= 0 /\ ~StampLess(Gen(p)', minted'[w])
    BY <1>5, <1>6 DEF Gen, StampLess
<1>8. \A r \in View(w) : r.createdAt < now \/ StampLess(r.id, minted'[w])
  <2> SUFFICES ASSUME NEW r \in View(w), r.createdAt = now
               PROVE  StampLess(r.id, minted'[w])
      BY <1>0 DEF WriterInv, Dated
  <2>1. ~StampLess(Gen(p), r.id) /\ r.id \in Id
      BY <1>0, RowFields DEF WriterInv, Dated, View, TypeOK
  <2>2. StampLess(r.id, Gen(p)')
      BY <1>0, <1>1, <2>1, GenerateKeeps
  <2> QED
      BY <2>2, <1>5 DEF StampLess
<1>9. CASE v = w
  <2>1. \A r \in View(w)' : r.createdAt < now' \/ StampLess(r.id, minted'[w])
      BY <1>1, <1>8 DEF View
  <2> QED
      BY <1>3, <1>4, <1>7, <1>9, <2>1 DEF WriterInv
<1>10. CASE v # w
    BY <1>1, <1>3, <1>4, <1>10 DEF WriterInv
<1> QED
    BY <1>9, <1>10

\* Inserting the row: it continues the newest row and comes after all of them.
LEMMA InsertStep ==
    ASSUME ChainInv, NEW w \in Writer, InsertRow(w), NEW v \in Writer
    PROVE  WriterInv(v)'
<1> DEFINE n == [id |-> minted[w], createdAt |-> now, prev |-> tail[w]]
<1>0. WriterInv(v) /\ WriterInv(w) /\ TypeOK
    BY DEF ChainInv
<1>1. /\ UNCHANGED <<log, tail, minted, now, lastMillis, counter>>
      /\ \A u \in Writer \ {w} : /\ pc[u] = "idle" /\ pc'[u] = "idle"
                                 /\ pending'[u] = pending[u]
      /\ pc[w] = "minted" /\ pc'[w] = "open"
      /\ pending'[w] = pending[w] \cup {n}
      /\ \A r \in View(w) : r.id # minted[w]
    BY <1>0 DEF InsertRow, LockFree, TypeOK, WriterInv
<1>2. CASE v # w
  <2>1. View(v)' = View(v)
      BY <1>1, <1>2 DEF View
  <2> QED
      BY <1>0, <1>1, <1>2, <2>1 DEF WriterInv, Linked, Dated, Gen
<1>3. CASE v = w
  <2>1. View(w)' = View(w) \cup {n}
      BY <1>1 DEF View
  <2>2. n \in Row /\ View(w) \subseteq Row /\ now \in Nat /\ minted[w] \in Id
      BY <1>0 DEF TypeOK, Row, View
  <2>3. Newest(View(w), n.prev) /\ n.id = minted[w] /\ n.createdAt = now
      BY <1>0, <1>1 DEF WriterInv
  <2>4. n.id # Genesis
      BY <1>0, <1>1 DEF WriterInv, Genesis
  <2>5. ASSUME NEW r \in View(w) PROVE Precedes(r, n)
    <3>1. \/ r.createdAt < now
          \/ r.createdAt = now /\ StampLess(r.id, minted[w])
        BY <1>0, <1>1 DEF WriterInv, Dated
    <3> QED
        BY <2>3, <3>1 DEF Precedes, IdLess
  <2>6. Linked(View(w) \cup {n})
    <3>1. Linked(View(w))
        BY <1>0 DEF WriterInv
    <3> QED
        BY <1>1, <2>2, <2>3, <2>4, <2>5, <3>1, LinkNext
  <2>7. Dated(w)'
    <3>1. ~StampLess(Gen(ProcessOf[w]), n.id)
        BY <1>0, <1>1 DEF WriterInv
    <3> QED
        BY <1>0, <1>1, <2>1, <2>3, <3>1 DEF WriterInv, Dated, Gen
  <2>8. LockFree(w)'
      BY <1>1 DEF LockFree
  <2>9. Linked(View(w))'
      BY <2>1, <2>6 DEF Linked
  <2> QED
      BY <1>1, <1>3, <2>7, <2>8, <2>9 DEF WriterInv
<1> QED
    BY <1>2, <1>3

\* Committing: the other writers are idle and now see the committed rows.
LEMMA CommitStep ==
    ASSUME OneClock, ChainInv, NEW w \in Writer, Commit(w)
    PROVE  Linked(log)' /\ \A v \in Writer : WriterInv(v)'
<1>0. WriterInv(w) /\ TypeOK
    BY DEF ChainInv
<1>1. /\ UNCHANGED <<tail, minted, now, lastMillis, counter>>
      /\ \A u \in Writer : pc'[u] = "idle"
      /\ log' = View(w)
      /\ pending'[w] = {}
      /\ \A u \in Writer \ {w} : pending'[u] = pending[u] /\ pc[u] = "idle"
    BY <1>0 DEF Commit, LockFree, TypeOK, WriterInv, View
<1>2. \A v \in Writer : pending'[v] = {}
    BY <1>1 DEF ChainInv, WriterInv
<1>3. \A v \in Writer : View(v)' = View(w) /\ ProcessOf[v] = ProcessOf[w]
    BY <1>1, <1>2 DEF View, OneClock
<1>4. Linked(log)'
    BY <1>0, <1>1 DEF WriterInv, Linked
<1>5. \A v \in Writer : Dated(v)' /\ Linked(View(v))'
    BY <1>0, <1>1, <1>3 DEF WriterInv, Dated, Gen, Linked
<1> QED
    BY <1>1, <1>2, <1>4, <1>5 DEF WriterInv

\* Rolling back: the writer sees the committed rows again.
LEMMA RollbackStep ==
    ASSUME ChainInv, NEW w \in Writer, Rollback(w), NEW v \in Writer
    PROVE  WriterInv(v)'
<1>0. WriterInv(v) /\ WriterInv(w) /\ TypeOK /\ Linked(log)
    BY DEF ChainInv
<1>1. /\ UNCHANGED <<log, tail, minted, now, lastMillis, counter>>
      /\ \A u \in Writer : pc'[u] = "idle"
      /\ pending'[w] = {}
      /\ \A u \in Writer \ {w} : pending'[u] = pending[u] /\ pc[u] = "idle"
    BY <1>0 DEF Rollback, LockFree, TypeOK, WriterInv
<1>2. CASE v = w
  <2>1. View(w)' = log /\ log \subseteq View(w)
      BY <1>1 DEF View
  <2>2. Linked(View(w))' /\ Dated(w)'
      BY <1>0, <1>1, <2>1 DEF WriterInv, Dated, Gen, Linked
  <2> QED
      BY <1>1, <1>2, <2>2 DEF WriterInv
<1>3. CASE v # w
  <2>1. View(v)' = View(v)
      BY <1>1, <1>3 DEF View
  <2> QED
      BY <1>0, <1>1, <1>3, <2>1 DEF WriterInv, Linked, Dated, Gen
<1> QED
    BY <1>2, <1>3

\* Another caller of uuidv7 in some process.
LEMMA OtherIdStep ==
    ASSUME ChainInv, NEW p \in Process, OtherId(p), NEW v \in Writer
    PROVE  WriterInv(v)'
<1>0. WriterInv(v) /\ TypeOK /\ ProcessOf[v] \in Process
    BY AuditAssumption DEF ChainInv
<1>1. UNCHANGED <<log, pending, pc, tail, minted, now>> /\ Generate(p)
    BY DEF OtherId
<1>2. \A r \in View(v) : r.id \in Id
    BY <1>0, RowFields DEF View, TypeOK
<1>3. Dated(v)'
    BY <1>0, <1>1, <1>2, GenerateKeeps DEF WriterInv, Dated, View
<1>4. pc[v] = "minted" => ~StampLess(Gen(ProcessOf[v])', minted[v])
    BY <1>0, <1>1, GenerateKeeps DEF WriterInv, TypeOK
<1> QED
    BY <1>0, <1>1, <1>3, <1>4 DEF WriterInv, LockFree, Linked, View, Newest

\* Time passes: rows of the last millisecond become rows of the past.
LEMMA TickStep ==
    ASSUME ChainInv, Tick, NEW v \in Writer
    PROVE  WriterInv(v)'
<1>0. WriterInv(v) /\ TypeOK
    BY DEF ChainInv
<1>1. /\ UNCHANGED <<log, pending, pc, tail, minted, lastMillis, counter>>
      /\ now' = now + 1 /\ now \in Nat
    BY <1>0 DEF Tick, TypeOK
<1>2. \A r \in View(v) : r.createdAt \in Int /\ r.createdAt < now'
    BY <1>0, <1>1, RowFields DEF WriterInv, Dated, View, TypeOK
<1> QED
    BY <1>0, <1>1, <1>2 DEF WriterInv, LockFree, Linked, View, Newest, Dated, Gen

\* A process restarts: its writers roll back, and every row is of the past.
LEMMA RestartStep ==
    ASSUME ChainInv, NEW p \in Process, Restart(p), NEW v \in Writer
    PROVE  WriterInv(v)'
<1>0. WriterInv(v) /\ TypeOK /\ Linked(log) /\ ProcessOf[v] \in Process
    BY AuditAssumption DEF ChainInv
<1>1. /\ UNCHANGED <<log, tail, minted>>
      /\ now' = now + 1 /\ now \in Nat
      /\ \A u \in Writer : pc'[u] = "idle" \/ pc'[u] = pc[u]
    BY <1>0 DEF Restart, TypeOK
<1>2. \A r \in View(v) : r.createdAt < now'
    BY <1>0, <1>1, RowFields DEF WriterInv, Dated, View, TypeOK
<1>3. CASE ProcessOf[v] = p
  <2>1. pc'[v] = "idle" /\ pending'[v] = {}
      BY <1>3 DEF Restart
  <2>2. View(v)' = log /\ log \subseteq View(v)
      BY <1>1, <2>1 DEF View
  <2>3. Linked(View(v))' /\ Dated(v)'
      BY <1>0, <1>2, <2>2 DEF Linked, Dated
  <2> QED
      BY <2>1, <2>3 DEF WriterInv
<1>4. CASE ProcessOf[v] # p
  <2>1. /\ pc'[v] = pc[v] /\ pending'[v] = pending[v]
        /\ Gen(ProcessOf[v])' = Gen(ProcessOf[v])
      BY <1>0, <1>4 DEF Restart, Gen, TypeOK
  <2>2. View(v)' = View(v)
      BY <1>1, <2>1 DEF View
  <2>3. Linked(View(v))' /\ Dated(v)' /\ (pc[v] # "idle" => LockFree(v)')
      BY <1>0, <1>1, <1>2, <2>1, <2>2 DEF WriterInv, Linked, Dated, LockFree
  <2> QED
      BY <1>0, <1>1, <1>2, <2>1, <2>2, <2>3 DEF WriterInv, Newest
<1> QED
    BY <1>3, <1>4

\* Every step keeps the invariant when one process writes the trail and its
\* clock does not go back.
LEMMA ChainStep == OneClock /\ ChainInv /\ Next => ChainInv'
<1> SUFFICES ASSUME OneClock, ChainInv, Next PROVE ChainInv'
    OBVIOUS
<1>1. TypeOK'
    BY TypeStep DEF ChainInv
<1>2. \A p \in Process : lastMillis'[p] >= -1
  <2>1. ASSUME NEW q \in Process, Generate(q), NEW p \in Process
        PROVE  lastMillis'[p] >= -1
    <3>1. TypeOK /\ lastMillis[p] >= -1
        BY DEF ChainInv
    <3>2. CASE p = q
        BY <2>1, <3>1, <3>2, GenerateForward, NextIdType
    <3>3. CASE p # q
        BY <2>1, <3>1, <3>3, GenerateForward
    <3> QED
        BY <3>2, <3>3
  <2>2. \A w \in Writer : ProcessOf[w] \in Process
      BY AuditAssumption
  <2>3. ASSUME NEW q \in Process, Restart(q), NEW p \in Process
        PROVE  lastMillis'[p] >= -1
      BY <2>3 DEF Restart, ChainInv, TypeOK
  <2>4. CASE UNCHANGED lastMillis
      BY <2>4 DEF ChainInv
  <2> QED
      BY <2>1, <2>2, <2>3, <2>4 DEF Next, Lock, ReadLast, MintId, InsertRow, Commit,
             Rollback, OtherId, Tick, StepBack
<1>3. CASE \E w \in Writer : Commit(w)
    BY <1>1, <1>2, <1>3, CommitStep DEF ChainInv
<1>4. CASE ~\E w \in Writer : Commit(w)
  <2>1. log' = log
      BY <1>4 DEF Next, Lock, ReadLast, MintId, InsertRow, Rollback, OtherId, Restart,
                  Tick, StepBack
  <2>2. Linked(log)'
      BY <2>1 DEF ChainInv, Linked
  <2>3. ASSUME NEW v \in Writer PROVE WriterInv(v)'
    <3>1. ~StepBack
        BY DEF OneClock, StepBack
    <3> QED
        BY <1>4, <3>1, LockStep, ReadStep, MintStep, InsertStep, RollbackStep,
           OtherIdStep, TickStep, RestartStep DEF Next
  <2> QED
      BY <1>1, <1>2, <2>2, <2>3 DEF ChainInv
<1> QED
    BY <1>3, <1>4

\* The inductive invariant of the audit trail, for one process and a clock that
\* does not go back.
THEOREM AuditSafe == OneClock => (Spec => []ChainInv)
<1>1. ChainInv /\ UNCHANGED vars => ChainInv'
  <2> SUFFICES ASSUME ChainInv, UNCHANGED vars PROVE ChainInv'
      OBVIOUS
  <2> QED
      BY DEF ChainInv, vars, TypeOK, Linked, WriterInv, LockFree, View, Dated, Gen, Newest
<1>2. SUFFICES ASSUME OneClock PROVE Spec => []ChainInv
    OBVIOUS
<1>3. ChainInv /\ Next => ChainInv'
    BY <1>2, ChainStep
<1> QED
    BY <1>1, <1>3, ChainInit, PTL DEF Spec

\* The audit chain stays linear under any concurrency of one process: no two
\* committed rows share a predecessor, and none has lost it.
THEOREM ChainStaysLinear == OneClock => (Spec => []ChainLinear)
<1>1. ChainInv => ChainLinear
    BY DEF ChainInv, Linked, ChainLinear
<1> QED
    BY <1>1, AuditSafe, PTL

=============================================================================
