------------------------ MODULE RefreshTokensProofs ------------------------
(***************************************************************************)
(* Proofs about RefreshTokens for any users, families, tokens and number   *)
(* of concurrent requests: the inductive invariant TokensInv, single-winner *)
(* rotation, completeness of revocation, and that the table implements     *)
(* SessionFamily.                                                          *)
(***************************************************************************)
EXTENDS RefreshTokens, TLAPS

-----------------------------------------------------------------------------
(* Rows are never deleted, never change owner and never come back to life.  *)

Kept ==
    \A t \in Token : Exists(t) =>
        /\ rows'[t].exists
        /\ rows'[t].user = rows[t].user
        /\ rows'[t].session = rows[t].session
        /\ rows'[t].createdAt = rows[t].createdAt
        /\ rows[t].revoked => rows'[t].revoked

RowsOK ==
    /\ OneLivePerFamily
    /\ ReplacementsFormChains
    /\ \A t \in Token : Exists(t) => rows[t].createdAt <= now

Complete(p) ==
    pc[p] = "replied" => \A t \in before[p] : SweptOf(p, t) => rows[t].revoked

\* The initial state satisfies the invariant: the table is empty and no
\* handler runs.
LEMMA TokensInit == Init => TokensInv
<1> SUFFICES ASSUME Init PROVE TokensInv
    OBVIOUS
<1>1. TypeOK
    BY DEF Init, TypeOK, Pcs, Replies
<1>2. \A t \in Token : ~Exists(t)
    BY DEF Init, Exists, Absent
<1>3. OneLivePerFamily /\ ReplacementsFormChains
      /\ \A t \in Token : Exists(t) => rows[t].createdAt <= now
    BY <1>2 DEF OneLivePerFamily, ReplacementsFormChains, LiveRow, Exists
<1>4. ASSUME NEW p \in Request PROVE HandlerInv(p) /\ Complete(p)
    BY DEF Init, HandlerInv, Complete, NoAsk
<1> QED
    BY <1>1, <1>3, <1>4 DEF TokensInv, RevocationIsComplete, Complete

\* A new row has the type of a row.
LEMMA NewRowType ==
    ASSUME TypeOK, NEW u \in User, NEW s \in Family
    PROVE  NewRow(u, s) \in Row
  BY ClockAssumption DEF TypeOK, NewRow, Row

\* Spending a row touches nothing but the revocation and the breadcrumb.
LEMMA SpendFields ==
    ASSUME NEW row \in Row, NEW t \in Token
    PROVE  /\ Spend(row, t).exists
           /\ Spend(row, t).revoked
           /\ Spend(row, t).replacedBy = t
           /\ Spend(row, t).user = row.user
           /\ Spend(row, t).session = row.session
           /\ Spend(row, t).createdAt = row.createdAt
           /\ row.createdAt \in Nat
  BY DEF Spend, Row

\* Every step keeps the types.
LEMMA TypeStep == TokensInv /\ Next => TypeOK'
<1> SUFFICES ASSUME TokensInv, Next PROVE TypeOK'
    OBVIOUS
<1> USE DEF TokensInv
<1>1. ASSUME NEW u \in User, NEW s \in Family, NEW t \in Token,
             IssueSession(u, s, t)
      PROVE  TypeOK'
    BY <1>1, NewRowType DEF TypeOK, IssueSession, requestVars
<1>2. ASSUME NEW p \in Request, NEW a \in Ask, Arrive(p, a) PROVE TypeOK'
    BY <1>2 DEF TypeOK, Arrive, Pcs
<1>3. ASSUME NEW p \in Request, FindForRefresh(p) PROVE TypeOK'
  <2>1. HandlerInv(p) /\ req[p].token \in Token
      BY <1>3 DEF HandlerInv, FindForRefresh, Ask
  <2>2. found' \in [Request -> Row \cup {Absent}]
      BY <1>3, <2>1 DEF TypeOK, FindForRefresh
  <2>3. pc' \in [Request -> Pcs] /\ reply' \in [Request -> Replies]
      BY <1>3 DEF TypeOK, FindForRefresh, Answer, Pcs, Replies
  <2> QED
      BY <1>3, <2>2, <2>3 DEF TypeOK, FindForRefresh
<1>4. ASSUME NEW p \in Request, FindForLogout(p) PROVE TypeOK'
  <2>1. HandlerInv(p) /\ req[p].token \in Token
      BY <1>4 DEF HandlerInv, FindForLogout, Ask
  <2>2. found' \in [Request -> Row \cup {Absent}]
      BY <1>4, <2>1 DEF TypeOK, FindForLogout
  <2>3. pc' \in [Request -> Pcs] /\ reply' \in [Request -> Replies]
      BY <1>4 DEF TypeOK, FindForLogout, Answer, Pcs, Replies
  <2> QED
      BY <1>4, <2>2, <2>3 DEF TypeOK, FindForLogout
<1>5. ASSUME NEW p \in Request, NEW t \in Token, Rotate(p, t) PROVE TypeOK'
  <2>1. /\ req[p].token \in Token
        /\ Exists(req[p].token)
        /\ found[p].user = rows[req[p].token].user
        /\ found[p].session = rows[req[p].token].session
      BY <1>5 DEF HandlerInv, Rotate, Ask
  <2>2. rows[req[p].token] \in Row
      BY <2>1 DEF TypeOK, Exists, Absent
  <2>3. NewRow(found[p].user, found[p].session) \in Row
      BY <2>1, <2>2, NewRowType DEF Row
  <2>4. Spend(rows[req[p].token], t) \in Row
      BY <2>2 DEF Spend, Row
  <2>5. rows' \in [Token -> Row \cup {Absent}]
      BY <1>5, <2>3, <2>4 DEF TypeOK, Rotate
  <2> QED
      BY <1>5, <2>5 DEF TypeOK, Rotate, Answer, Pcs, Replies
<1>6. ASSUME NEW p \in Request, RotateLoses(p) PROVE TypeOK'
    BY <1>6 DEF TypeOK, RotateLoses, Pcs
<1>7. ASSUME NEW p \in Request, BeginRevoke(p) PROVE TypeOK'
    BY <1>7 DEF TypeOK, BeginRevoke, Pcs
<1>8. ASSUME NEW p \in Request, FinishRevoke(p) PROVE TypeOK'
  <2>1. ASSUME NEW t \in Token PROVE rows'[t] \in Row \cup {Absent}
    <3>1. CASE t \in snap[p] /\ LiveRow(t)
      <4>1. rows[t] \in Row
          BY <3>1 DEF TypeOK, LiveRow, Absent
      <4> QED
          BY <1>8, <3>1, <4>1 DEF FinishRevoke, Row
    <3>2. CASE ~(t \in snap[p] /\ LiveRow(t))
        BY <1>8, <3>2 DEF FinishRevoke, TypeOK
    <3> QED
        BY <3>1, <3>2
  <2>2. rows' \in [Token -> Row \cup {Absent}]
      BY <1>8, <2>1 DEF FinishRevoke
  <2> QED
      BY <1>8, <2>2 DEF TypeOK, FinishRevoke, Answer, Pcs, Replies
<1>9. ASSUME NEW p \in Request, Deliver(p) \/ Crash(p) PROVE TypeOK'
    BY <1>9 DEF TypeOK, Deliver, Crash, Forget, Pcs, Replies
<1>10. CASE Tick
    BY <1>10 DEF TypeOK, Tick, requestVars
<1> QED
    BY <1>1, <1>2, <1>3, <1>4, <1>5, <1>6, <1>7, <1>8, <1>9, <1>10 DEF Next, Step

\* Every step keeps the rows: they are only added, spent and revoked.
LEMMA RowsKept == TokensInv /\ Next => Kept
<1> SUFFICES ASSUME TokensInv, Next, NEW x \in Token, Exists(x)
             PROVE  /\ rows'[x].exists
                    /\ rows'[x].user = rows[x].user
                    /\ rows'[x].session = rows[x].session
                    /\ rows'[x].createdAt = rows[x].createdAt
                    /\ rows[x].revoked => rows'[x].revoked
    BY DEF Kept
<1> USE DEF TokensInv
<1>0. rows[x] \in Row /\ rows \in [Token -> Row \cup {Absent}]
    BY DEF TypeOK, Exists, Absent
<1>1. CASE UNCHANGED rows
    BY <1>1 DEF Exists
<1>2. ASSUME NEW u \in User, NEW s \in Family, NEW t \in Token,
             IssueSession(u, s, t)
      PROVE  rows'[x] = rows[x]
    BY <1>0, <1>2 DEF IssueSession, Exists
<1>3. ASSUME NEW p \in Request, NEW t \in Token, Rotate(p, t)
      PROVE  rows'[x] = rows[x] \/ rows'[x] = Spend(rows[x], t)
    BY <1>0, <1>3 DEF Rotate, Exists
<1>4. ASSUME NEW p \in Request, FinishRevoke(p)
      PROVE  rows'[x] = rows[x] \/ rows'[x] = [rows[x] EXCEPT !.revoked = TRUE]
    BY <1>4 DEF FinishRevoke
<1>5. \/ UNCHANGED rows
      \/ \E u \in User, s \in Family, t \in Token : IssueSession(u, s, t)
      \/ \E p \in Request, t \in Token : Rotate(p, t)
      \/ \E p \in Request : FinishRevoke(p)
    BY DEF Next, Step, Arrive, FindForRefresh, FindForLogout, RotateLoses,
           BeginRevoke, Deliver, Crash, Forget, Tick
<1>6. \/ rows'[x] = rows[x]
      \/ \E t \in Token : rows'[x] = Spend(rows[x], t)
      \/ rows'[x] = [rows[x] EXCEPT !.revoked = TRUE]
    BY <1>1, <1>2, <1>3, <1>4, <1>5
<1>7. CASE rows'[x] = rows[x]
    BY <1>7 DEF Exists
<1>8. ASSUME NEW t \in Token, rows'[x] = Spend(rows[x], t)
      PROVE  /\ rows'[x].exists /\ rows'[x].revoked
             /\ rows'[x].user = rows[x].user
             /\ rows'[x].session = rows[x].session
             /\ rows'[x].createdAt = rows[x].createdAt
    BY <1>0, <1>8, SpendFields
<1>9. CASE rows'[x] = [rows[x] EXCEPT !.revoked = TRUE]
    BY <1>0, <1>9 DEF Row
<1> QED
    BY <1>6, <1>7, <1>8, <1>9

\* A sign-in opens a family nobody has used.
LEMMA IssueRows ==
    ASSUME TokensInv, TypeOK', NEW u \in User, NEW s \in Family, NEW t \in Token,
           IssueSession(u, s, t)
    PROVE  RowsOK'
<1> USE DEF TokensInv
<1>1. /\ rows \in [Token -> Row \cup {Absent}]
      /\ now \in Nat
      /\ ~Exists(t)
      /\ now' = now
      /\ rows' = [rows EXCEPT ![t] = NewRow(u, s)]
    BY DEF TypeOK, IssueSession
<1>2. \A x \in Token : x # t => rows'[x] = rows[x]
    BY <1>1
<1>3. rows'[t] = NewRow(u, s)
    BY <1>1
<1>4. OneLivePerFamily'
    BY <1>2, <1>3 DEF OneLivePerFamily, LiveRow, IssueSession, Exists, NewRow
<1>5. \A x \in Token : Exists(x) => rows[x].replacedBy # t
    BY <1>1, NoneAssumption DEF ReplacementsFormChains, Exists
<1>6. ReplacementsFormChains'
  <2> SUFFICES ASSUME NEW x \in Token, rows'[x].exists,
                      rows'[x].replacedBy # None
               PROVE  LET n == rows'[x].replacedBy
                      IN  /\ rows'[x].revoked
                          /\ rows'[n].exists
                          /\ rows'[n].user = rows'[x].user
                          /\ rows'[n].session = rows'[x].session
                          /\ rows'[n].createdAt >= rows'[x].createdAt
                          /\ \A o \in Token : rows'[o].exists /\ rows'[o].replacedBy = n
                                                => o = x
      BY DEF ReplacementsFormChains, Exists
  <2>1. x # t /\ rows'[x] = rows[x] /\ Exists(x)
      BY <1>2, <1>3 DEF NewRow, Exists
  <2>2. rows[x].replacedBy \in Token
      BY <2>1, <1>1 DEF Row, Exists, Absent
  <2>3. rows[x].replacedBy # t
      BY <1>5, <2>1
  <2>4. rows'[rows[x].replacedBy] = rows[rows[x].replacedBy]
      BY <1>2, <2>2, <2>3
  <2>5. \A o \in Token : rows'[o].exists /\ rows'[o].replacedBy = rows[x].replacedBy
                            => Exists(o) /\ rows[o].replacedBy = rows[x].replacedBy
      BY <1>2, <1>3, <2>2, NoneAssumption DEF NewRow, Exists
  <2> QED
      BY <2>1, <2>2, <2>4, <2>5 DEF ReplacementsFormChains, Exists
<1>7. \A x \in Token : Exists(x)' => rows'[x].createdAt <= now'
    BY <1>1, <1>2, <1>3 DEF Exists, NewRow
<1> QED
    BY <1>4, <1>6, <1>7 DEF RowsOK

\* The winner of a rotation revokes the family's only live row and inserts
\* the next one.
LEMMA RotateRows ==
    ASSUME TokensInv, NEW p \in Request, NEW t \in Token, Rotate(p, t)
    PROVE  RowsOK'
<1> USE DEF TokensInv
<1> DEFINE old == req[p].token
<1>1. /\ rows \in [Token -> Row \cup {Absent}]
      /\ now \in Nat
      /\ now' = now
      /\ old \in Token
      /\ LiveRow(old)
      /\ Exists(old)
      /\ ~Exists(t)
      /\ t # old
      /\ found[p].user = rows[old].user
      /\ found[p].session = rows[old].session
    BY DEF TypeOK, Rotate, HandlerInv, Ask, StillLive, LiveRow, Exists
<1>2. \A x \in Token : x # t /\ x # old => rows'[x] = rows[x]
    BY <1>1 DEF Rotate
<1>3. rows'[t] = NewRow(rows[old].user, rows[old].session)
    BY <1>1 DEF Rotate
<1>4. rows'[old] = Spend(rows[old], t) /\ rows[old] \in Row
    BY <1>1 DEF Rotate, Exists, Absent
<1>5. /\ rows'[old].exists
      /\ rows'[old].revoked
      /\ rows'[old].replacedBy = t
      /\ rows'[old].user = rows[old].user
      /\ rows'[old].session = rows[old].session
      /\ rows'[old].createdAt = rows[old].createdAt
      /\ rows[old].createdAt \in Nat
    BY <1>4, SpendFields
<1>6. OneLivePerFamily'
    BY <1>1, <1>2, <1>3, <1>5 DEF OneLivePerFamily, LiveRow, NewRow
<1>7. \A x \in Token : Exists(x) => rows[x].replacedBy # t
    BY <1>1, NoneAssumption DEF ReplacementsFormChains, Exists
<1>8. rows[old].replacedBy = None
    BY <1>1 DEF ReplacementsFormChains, LiveRow, Exists
<1>9. ReplacementsFormChains'
  <2> SUFFICES ASSUME NEW x \in Token, rows'[x].exists,
                      rows'[x].replacedBy # None
               PROVE  LET n == rows'[x].replacedBy
                      IN  /\ rows'[x].revoked
                          /\ rows'[n].exists
                          /\ rows'[n].user = rows'[x].user
                          /\ rows'[n].session = rows'[x].session
                          /\ rows'[n].createdAt >= rows'[x].createdAt
                          /\ \A o \in Token : rows'[o].exists /\ rows'[o].replacedBy = n
                                                => o = x
      BY DEF ReplacementsFormChains, Exists
  <2>1. CASE x = old
    <3>1. rows[old].createdAt <= now
        BY <1>1
    <3>2. \A o \in Token : rows'[o].exists /\ rows'[o].replacedBy = t => o = old
        BY <1>2, <1>3, <1>7, NoneAssumption DEF NewRow, Exists
    <3> QED
        BY <2>1, <1>1, <1>3, <1>5, <3>1, <3>2 DEF NewRow
  <2>2. CASE x # old
    <3>1. x # t /\ rows'[x] = rows[x] /\ Exists(x)
        BY <1>2, <1>3, <2>2 DEF NewRow, Exists
    <3>2. rows[x].replacedBy \in Token /\ rows[x].replacedBy # t
        BY <3>1, <1>1, <1>7 DEF Row, Exists, Absent
    <3>3. LET n == rows[x].replacedBy
          IN  /\ rows'[n].exists
              /\ rows'[n].user = rows[n].user
              /\ rows'[n].session = rows[n].session
              /\ rows'[n].createdAt = rows[n].createdAt
        BY <1>2, <1>5, <3>1, <3>2 DEF ReplacementsFormChains, Exists
    <3>4. \A o \in Token : rows'[o].exists /\ rows'[o].replacedBy = rows[x].replacedBy
                              => Exists(o) /\ rows[o].replacedBy = rows[x].replacedBy
        BY <1>2, <1>3, <1>5, <3>2, NoneAssumption DEF NewRow, Exists
    <3> QED
        BY <3>1, <3>2, <3>3, <3>4 DEF ReplacementsFormChains, Exists
  <2> QED
      BY <2>1, <2>2
<1>10. \A x \in Token : Exists(x)' => rows'[x].createdAt <= now'
    BY <1>1, <1>2, <1>3, <1>5 DEF Exists, NewRow
<1> QED
    BY <1>6, <1>9, <1>10 DEF RowsOK

\* A revocation only turns live rows into revoked ones.
LEMMA RevokeRows ==
    ASSUME TokensInv, NEW p \in Request, FinishRevoke(p)
    PROVE  RowsOK'
<1> USE DEF TokensInv
<1>1. \A x \in Token : \/ rows'[x] = rows[x]
                       \/ /\ LiveRow(x)
                          /\ rows'[x] = [rows[x] EXCEPT !.revoked = TRUE]
    BY DEF FinishRevoke
<1>2. \A x \in Token : rows[x] \in Row \cup {Absent}
    BY DEF TypeOK
<1>3. ASSUME NEW x \in Token
      PROVE  /\ rows'[x].exists = rows[x].exists
             /\ rows[x].exists =>
                  /\ rows'[x].user = rows[x].user
                  /\ rows'[x].session = rows[x].session
                  /\ rows'[x].createdAt = rows[x].createdAt
                  /\ rows'[x].replacedBy = rows[x].replacedBy
                  /\ rows[x].revoked => rows'[x].revoked
  <2>1. CASE rows'[x] = rows[x]
      BY <2>1
  <2>2. CASE LiveRow(x) /\ rows'[x] = [rows[x] EXCEPT !.revoked = TRUE]
    <3>1. rows[x] \in Row
        BY <1>2, <2>2 DEF LiveRow, Absent
    <3> QED
        BY <2>2, <3>1 DEF Row
  <2> QED
      BY <1>1, <2>1, <2>2
<1>4. OneLivePerFamily'
    BY <1>3 DEF OneLivePerFamily, LiveRow
<1>5. ReplacementsFormChains'
  <2> SUFFICES ASSUME NEW x \in Token, rows'[x].exists,
                      rows'[x].replacedBy # None
               PROVE  LET n == rows'[x].replacedBy
                      IN  /\ rows'[x].revoked
                          /\ rows'[n].exists
                          /\ rows'[n].user = rows'[x].user
                          /\ rows'[n].session = rows'[x].session
                          /\ rows'[n].createdAt >= rows'[x].createdAt
                          /\ \A o \in Token : rows'[o].exists /\ rows'[o].replacedBy = n
                                                => o = x
      BY DEF ReplacementsFormChains, Exists
  <2>1. Exists(x) /\ rows[x].replacedBy # None
      BY <1>3 DEF Exists
  <2>2. rows[x] \in Row
      BY <1>2, <2>1 DEF Exists, Absent
  <2>3. rows[x].replacedBy \in Token
      BY <2>1, <2>2 DEF Row
  <2> QED
      BY <1>3, <2>1, <2>3 DEF ReplacementsFormChains, Exists
<1>6. \A x \in Token : Exists(x)' => rows'[x].createdAt <= now'
    BY <1>3 DEF Exists, FinishRevoke
<1> QED
    BY <1>4, <1>5, <1>6 DEF RowsOK

\* Every step keeps what is said of the rows.
LEMMA RowsStep == TokensInv /\ TypeOK' /\ Next => RowsOK'
<1> SUFFICES ASSUME TokensInv, TypeOK', Next PROVE RowsOK'
    OBVIOUS
<1>1. CASE UNCHANGED rows /\ (UNCHANGED now \/ Tick)
  <2>1. OneLivePerFamily' /\ ReplacementsFormChains'
      BY <1>1 DEF TokensInv, OneLivePerFamily, ReplacementsFormChains, LiveRow, Exists
  <2>2. ASSUME NEW x \in Token, Exists(x) PROVE rows[x].createdAt \in Nat
    <3>1. rows[x] \in Row
        BY <2>2 DEF TokensInv, TypeOK, Exists, Absent
    <3> QED
        BY <3>1 DEF Row
  <2>3. now \in Nat /\ now' >= now
      BY <1>1 DEF Tick, TokensInv, TypeOK
  <2>4. \A x \in Token : Exists(x)' => rows'[x].createdAt <= now'
      BY <1>1, <2>2, <2>3 DEF TokensInv, TypeOK, Exists
  <2> QED
      BY <2>1, <2>4 DEF RowsOK
<1>2. \/ UNCHANGED rows /\ (UNCHANGED now \/ Tick)
      \/ \E u \in User, s \in Family, t \in Token : IssueSession(u, s, t)
      \/ \E p \in Request, t \in Token : Rotate(p, t)
      \/ \E p \in Request : FinishRevoke(p)
    BY DEF Next, Step, Arrive, FindForRefresh, FindForLogout, RotateLoses,
           BeginRevoke, Deliver, Crash, Forget, Tick
<1> QED
    BY <1>1, <1>2, IssueRows, RotateRows, RevokeRows

-----------------------------------------------------------------------------
(* The handlers.                                                            *)

Untouched(p) ==
    /\ pc'[p] = pc[p]
    /\ req'[p] = req[p]
    /\ found'[p] = found[p]
    /\ snap'[p] = snap[p]
    /\ reply'[p] = reply[p]
    /\ before'[p] = before[p]

\* A step of anything else cannot disturb what a handler relies on: rows keep
\* their owners, and a revoked row stays revoked.
LEMMA OthersKeep ==
    ASSUME TokensInv, Kept, NEW p \in Request, Untouched(p)
    PROVE  HandlerInv(p)' /\ Complete(p)'
<1> USE DEF TokensInv, Untouched
<1>1. before[p] \subseteq Token /\ \A t \in before[p] : Exists(t)
    BY DEF TypeOK, HandlerInv
<1>2. \A t \in before[p] : /\ Exists(t) /\ Exists(t)'
                           /\ rows'[t].user = rows[t].user
                           /\ rows'[t].session = rows[t].session
                           /\ rows[t].revoked => rows'[t].revoked
    BY <1>1 DEF Kept, Exists
<1>3. ASSUME req[p].op \in {"refresh", "logout"}
      PROVE  req[p].token \in Token /\ req[p].secretOk \in BOOLEAN
    BY <1>3 DEF TypeOK, Ask, NoAsk
<1>4. ASSUME NEW t \in before[p], InScope(p, t)' PROVE InScope(p, t)
    BY <1>2, <1>4 DEF InScope, LiveRow, Exists
<1>5. HandlerInv(p)'
  <2>1. /\ pc'[p] # "idle" => req'[p] \in Ask
        /\ pc'[p] = "find" => req'[p].op # "revokeUser"
        /\ pc'[p] = "rotate" => req'[p].op = "refresh"
        /\ reply'[p] # "none" => pc'[p] = "replied"
        /\ \A t \in before'[p] : Exists(t)'
      BY <1>2 DEF HandlerInv
  <2>2. ASSUME req[p].op \in {"refresh", "logout"}
        PROVE  /\ req[p].secretOk \/ reply[p] = "TokenReused" => Exists(req[p].token)'
               /\ pc[p] \in {"rotate", "revoke", "revoking"} =>
                    /\ Exists(req[p].token)'
                    /\ found[p].user = rows'[req[p].token].user
                    /\ found[p].session = rows'[req[p].token].session
                    /\ req[p].op = "logout" => req[p].secretOk
      BY <1>3, <2>2 DEF HandlerInv, Kept, Exists
  <2>3. pc'[p] = "revoking" => \A t \in before'[p] : InScope(p, t)' => t \in snap'[p]
      BY <1>4 DEF HandlerInv
  <2> QED
      BY <2>1, <2>2, <2>3 DEF HandlerInv, Exists
<1>6. Complete(p)'
  <2> SUFFICES ASSUME pc[p] = "replied", NEW t \in before[p], SweptOf(p, t)'
               PROVE  rows'[t].revoked
      BY DEF Complete
  <2>1. ASSUME req[p].op = "refresh", reply[p] = "TokenReused"
        PROVE  Exists(req[p].token)
      BY <2>1 DEF HandlerInv
  <2>2. SweptOf(p, t)
      BY <1>2, <1>3, <2>1 DEF SweptOf, HandlerInv, Kept, Exists
  <2> QED
      BY <1>2, <2>2 DEF RevocationIsComplete
<1> QED
    BY <1>5, <1>6

\* Every step keeps what the handlers rely on.
LEMMA HandlersStep ==
    ASSUME TokensInv, TypeOK', Kept, Next, NEW q \in Request
    PROVE  HandlerInv(q)' /\ Complete(q)'
<1> USE DEF TokensInv
<1>0. /\ pc \in [Request -> Pcs]
      /\ req \in [Request -> Ask \cup {NoAsk}]
      /\ found \in [Request -> Row \cup {Absent}]
      /\ snap \in [Request -> SUBSET Token]
      /\ reply \in [Request -> Replies]
      /\ before \in [Request -> SUBSET Token]
      /\ HandlerInv(q)
    BY DEF TypeOK
<1>1. ASSUME Untouched(q) PROVE HandlerInv(q)' /\ Complete(q)'
    BY <1>1, OthersKeep
<1>2. ASSUME NEW a \in Ask, Arrive(q, a) PROVE HandlerInv(q)' /\ Complete(q)'
    BY <1>0, <1>2 DEF HandlerInv, Complete, Arrive, Exists, Ask
<1>3. ASSUME FindForRefresh(q) PROVE HandlerInv(q)' /\ Complete(q)'
    BY <1>0, <1>3 DEF HandlerInv, Complete, SweptOf, FindForRefresh, Answer, Exists
<1>4. ASSUME FindForLogout(q) PROVE HandlerInv(q)' /\ Complete(q)'
    BY <1>0, <1>4 DEF HandlerInv, Complete, SweptOf, FindForLogout, Answer, Exists
<1>5. ASSUME NEW t \in Token, Rotate(q, t) PROVE HandlerInv(q)' /\ Complete(q)'
    BY <1>0, <1>5 DEF HandlerInv, Complete, SweptOf, Rotate, Answer, Exists, Kept, Ask
<1>6. ASSUME RotateLoses(q) PROVE HandlerInv(q)' /\ Complete(q)'
    BY <1>0, <1>6 DEF HandlerInv, Complete, RotateLoses, Exists
<1>7. ASSUME BeginRevoke(q) PROVE HandlerInv(q)' /\ Complete(q)'
    BY <1>0, <1>7 DEF HandlerInv, Complete, BeginRevoke, Exists, InScope, LiveRow
<1>8. ASSUME FinishRevoke(q) PROVE HandlerInv(q)' /\ Complete(q)'
  <2>1. /\ pc'[q] = "replied"
        /\ req'[q] = req[q]
        /\ before'[q] = before[q]
        /\ req[q] \in Ask
        /\ reply'[q] = IF req[q].op = "refresh" THEN "TokenReused" ELSE "done"
      BY <1>0, <1>8 DEF HandlerInv, FinishRevoke, Answer
  <2>2. \A t \in before[q] : /\ t \in Token /\ Exists(t) /\ Exists(t)'
                             /\ rows'[t].user = rows[t].user
                             /\ rows'[t].session = rows[t].session
                             /\ rows[t].revoked => rows'[t].revoked
      BY <1>0 DEF HandlerInv, Kept, Exists
  <2>3. ASSUME req[q].op \in {"refresh", "logout"}
        PROVE  /\ req[q].token \in Token
               /\ Exists(req[q].token)
               /\ Exists(req[q].token)'
               /\ found[q].user = rows[req[q].token].user
               /\ found[q].session = rows[req[q].token].session
               /\ rows'[req[q].token].user = rows[req[q].token].user
               /\ rows'[req[q].token].session = rows[req[q].token].session
      BY <1>0, <1>8, <2>1, <2>3 DEF HandlerInv, FinishRevoke, Kept, Exists, Ask
  <2>4. HandlerInv(q)'
      BY <2>1, <2>2, <2>3 DEF HandlerInv, Exists
  <2>5. ASSUME NEW t \in before[q], SweptOf(q, t)' PROVE rows'[t].revoked
    <3>1. CASE rows[t].revoked
        BY <2>2, <3>1
    <3>2. CASE ~rows[t].revoked
      <4>1. LiveRow(t)
          BY <2>2, <3>2 DEF LiveRow, Exists
      <4>2. InScope(q, t)
          BY <2>1, <2>2, <2>3, <2>5, <4>1 DEF InScope, SweptOf, Ask
      <4>3. t \in snap[q]
          BY <1>0, <1>8, <4>2 DEF HandlerInv, FinishRevoke
      <4>4. rows[t] \in Row
          BY <2>2 DEF TypeOK, Exists, Absent
      <4> QED
          BY <1>8, <2>2, <4>1, <4>3, <4>4 DEF FinishRevoke, Row
    <3> QED
        BY <3>1, <3>2
  <2> QED
      BY <2>1, <2>4, <2>5 DEF Complete
<1>9. ASSUME Deliver(q) \/ Crash(q) PROVE HandlerInv(q)' /\ Complete(q)'
    BY <1>0, <1>9 DEF HandlerInv, Complete, Deliver, Crash, Forget, NoAsk
<1>10. \/ Untouched(q)
       \/ \E a \in Ask : Arrive(q, a)
       \/ FindForRefresh(q) \/ FindForLogout(q)
       \/ \E t \in Token : Rotate(q, t)
       \/ RotateLoses(q) \/ BeginRevoke(q) \/ FinishRevoke(q)
       \/ Deliver(q) \/ Crash(q)
  <2>1. ASSUME NEW p \in Request, p # q, NEW a \in Ask, Arrive(p, a)
        PROVE  Untouched(q)
      BY <1>0, <2>1 DEF Untouched, Arrive
  <2>2. ASSUME NEW p \in Request, p # q, Step(p) PROVE Untouched(q)
      BY <1>0, <2>2 DEF Untouched, Step, FindForRefresh, FindForLogout, Rotate,
                        RotateLoses, BeginRevoke, FinishRevoke, Answer
  <2>3. ASSUME NEW p \in Request, p # q, Deliver(p) \/ Crash(p) PROVE Untouched(q)
      BY <1>0, <2>3 DEF Untouched, Deliver, Crash, Forget
  <2>4. ASSUME NEW u \in User, NEW s \in Family, NEW t \in Token,
               IssueSession(u, s, t)
        PROVE  Untouched(q)
      BY <2>4 DEF Untouched, IssueSession, requestVars
  <2>5. CASE Tick
      BY <2>5 DEF Untouched, Tick, requestVars
  <2> QED
      BY <2>1, <2>2, <2>3, <2>4, <2>5 DEF Next, Step
<1> QED
    BY <1>1, <1>2, <1>3, <1>4, <1>5, <1>6, <1>7, <1>8, <1>9, <1>10

-----------------------------------------------------------------------------
(* Theorems.                                                                *)

\* The inductive invariant holds for any number of concurrent refreshes,
\* logouts, administrative resets and crashes.
THEOREM TokensSafe == Spec => []TokensInv
<1>1. TokensInv /\ Next => TokensInv'
  <2> SUFFICES ASSUME TokensInv, Next PROVE TokensInv'
      OBVIOUS
  <2>1. TypeOK' /\ Kept
      BY TypeStep, RowsKept
  <2>2. RowsOK'
      BY <2>1, RowsStep
  <2>3. \A p \in Request : HandlerInv(p)' /\ Complete(p)'
      BY <2>1, HandlersStep
  <2> QED
      BY <2>1, <2>2, <2>3 DEF TokensInv, RowsOK, Complete, RevocationIsComplete
<1>2. TokensInv /\ UNCHANGED vars => TokensInv'
  <2> SUFFICES ASSUME TokensInv, UNCHANGED vars PROVE TokensInv'
      OBVIOUS
  <2>1. TypeOK'
      BY DEF TokensInv, TypeOK, vars
  <2>2. RowsOK'
      BY DEF TokensInv, RowsOK, OneLivePerFamily, ReplacementsFormChains,
             LiveRow, Exists, vars
  <2>3. Kept /\ \A p \in Request : Untouched(p)
      BY DEF Kept, Untouched, Exists, vars
  <2>4. \A p \in Request : HandlerInv(p)' /\ Complete(p)'
      BY <2>3, OthersKeep
  <2> QED
      BY <2>1, <2>2, <2>4 DEF TokensInv, RowsOK, Complete, RevocationIsComplete
<1> QED
    BY <1>1, <1>2, TokensInit, PTL DEF Spec

\* Rotation has a single winner: a family never has two tokens that refresh it.
THEOREM SingleWinner == Spec => []OneLivePerFamily
<1>1. TokensInv => OneLivePerFamily
    BY DEF TokensInv
<1> QED
    BY <1>1, TokensSafe, PTL

\* A finished reuse detection, logout or administrative reset has revoked every
\* token of its scope that existed when the request arrived.
THEOREM RevocationComplete == Spec => []RevocationIsComplete
<1>1. TokensInv => RevocationIsComplete
    BY DEF TokensInv
<1> QED
    BY <1>1, TokensSafe, PTL

-----------------------------------------------------------------------------
(* Refinement.                                                              *)

\* An empty table is a state in which no family has been opened.
LEMMA FamiliesInit == Init => Families!FamilyInit
  BY DEF Init, Families!FamilyInit, LiveTokens, LiveRow, Exists, Absent

\* Every step is a family opened, a token swapped, families ended, or nothing.
LEMMA FamiliesStep ==
    ASSUME TokensInv, Next
    PROVE  Families!FamilyNext \/ UNCHANGED Families!familyVars
<1> USE DEF TokensInv
<1>0. rows \in [Token -> Row \cup {Absent}]
    BY DEF TypeOK
<1>1. ASSUME NEW u \in User, NEW s \in Family, NEW t \in Token,
             IssueSession(u, s, t)
      PROVE  Families!Open(s, t)
  <2>1. \A x \in Token : x # t => rows'[x] = rows[x]
      BY <1>0, <1>1 DEF IssueSession
  <2>2. rows'[t] = NewRow(u, s) /\ ~rows[t].exists
      BY <1>0, <1>1 DEF IssueSession, Exists
  <2>3. \A x \in Token : rows[x].exists => rows[x].session # s
      BY <1>1 DEF IssueSession, Exists
  <2>4. \A f \in Family : LiveTokens(f)' = IF f = s THEN {t} ELSE LiveTokens(f)
      BY <2>1, <2>2, <2>3 DEF LiveTokens, LiveRow, NewRow
  <2>5. {f \in Family : \E x \in Token : rows'[x].exists /\ rows'[x].session = f}
        = {f \in Family : \E x \in Token : rows[x].exists /\ rows[x].session = f}
          \cup {s}
      BY <2>1, <2>2 DEF NewRow
  <2>6. {x \in Token : rows'[x].exists} = {x \in Token : rows[x].exists} \cup {t}
      BY <2>1, <2>2 DEF NewRow
  <2>7. [f \in Family |-> LiveTokens(f)]'
        = [[f \in Family |-> LiveTokens(f)] EXCEPT ![s] = {t}]
      BY <2>4
  <2>8. /\ s \notin {f \in Family : \E x \in Token : Exists(x) /\ rows[x].session = f}
        /\ t \notin {x \in Token : Exists(x)}
      BY <2>2, <2>3 DEF Exists
  <2> QED
      BY <2>5, <2>6, <2>7, <2>8 DEF Families!Open, Exists
<1>2. ASSUME NEW p \in Request, NEW t \in Token, Rotate(p, t)
      PROVE  \E s \in Family : Families!Swap(s, t)
  <2> DEFINE old == req[p].token
             s == rows[old].session
  <2>1. /\ old \in Token
        /\ LiveRow(old)
        /\ Exists(old)
        /\ ~Exists(t)
        /\ t # old
        /\ found[p].user = rows[old].user
        /\ found[p].session = s
      BY <1>2 DEF TypeOK, Rotate, HandlerInv, Ask, StillLive, LiveRow, Exists
  <2>2. rows[old] \in Row
      BY <1>0, <2>1 DEF Exists, Absent
  <2>3. s \in Family
      BY <2>2 DEF Row
  <2>4. \A x \in Token : x # t /\ x # old => rows'[x] = rows[x]
      BY <1>0, <1>2, <2>1 DEF Rotate
  <2>5. rows'[t] = NewRow(rows[old].user, s)
      BY <1>0, <1>2, <2>1 DEF Rotate
  <2>6. rows'[old].exists /\ rows'[old].revoked /\ rows'[old].session = s
      BY <1>0, <1>2, <2>1, <2>2, SpendFields DEF Rotate
  <2>7. LiveTokens(s) = {old}
      BY <2>1 DEF LiveTokens, OneLivePerFamily
  <2>8. \A f \in Family : LiveTokens(f)' = IF f = s THEN {t} ELSE LiveTokens(f)
      BY <2>1, <2>4, <2>5, <2>6, <2>7 DEF LiveTokens, LiveRow, NewRow, Exists
  <2>9. {f \in Family : \E x \in Token : rows'[x].exists /\ rows'[x].session = f}
        = {f \in Family : \E x \in Token : rows[x].exists /\ rows[x].session = f}
      BY <2>1, <2>4, <2>5, <2>6 DEF NewRow, Exists
  <2>10. {x \in Token : rows'[x].exists} = {x \in Token : rows[x].exists} \cup {t}
      BY <2>1, <2>4, <2>5, <2>6 DEF NewRow, Exists
  <2>11. Families!Swap(s, t)
      BY <2>1, <2>3, <2>7, <2>8, <2>9, <2>10 DEF Families!Swap, Families!Live, Exists
  <2> QED
      BY <2>3, <2>11
<1>3. ASSUME NEW p \in Request, FinishRevoke(p)
      PROVE  \E S \in SUBSET Family : Families!End(S)
  <2> DEFINE S == {f \in Family : \E x \in snap[p] : x \in LiveTokens(f)}
  <2>1. \A x \in Token : rows'[x] = IF x \in snap[p] /\ LiveRow(x)
                                    THEN [rows[x] EXCEPT !.revoked = TRUE]
                                    ELSE rows[x]
      BY <1>3 DEF FinishRevoke
  <2>2. ASSUME NEW x \in Token, x \in snap[p] /\ LiveRow(x)
        PROVE  rows'[x].exists /\ rows'[x].revoked /\ rows'[x].session = rows[x].session
    <3>1. rows[x] \in Row
        BY <1>0, <2>2 DEF LiveRow, Absent
    <3> QED
        BY <2>1, <2>2, <3>1 DEF Row
  <2>3. ASSUME NEW x \in Token, ~(x \in snap[p] /\ LiveRow(x))
        PROVE  rows'[x] = rows[x]
      BY <2>1, <2>3
  <2>4. \A x \in Token : /\ rows'[x].exists <=> rows[x].exists
                         /\ rows[x].exists => rows'[x].session = rows[x].session
      BY <2>2, <2>3 DEF LiveRow
  <2>5. \A f \in S : \E x \in Token : LiveTokens(f) = {x}
      BY DEF LiveTokens, OneLivePerFamily
  <2>6. ASSUME NEW f \in Family
        PROVE  LiveTokens(f)' = IF f \in S THEN {} ELSE LiveTokens(f)
    <3>1. LiveTokens(f)' = {x \in LiveTokens(f) : x \notin snap[p]}
        BY <2>2, <2>3, <2>4 DEF LiveTokens, LiveRow
    <3>2. CASE f \in S
        BY <2>5, <3>1, <3>2
    <3>3. CASE f \notin S
        BY <3>1, <3>3
    <3> QED
        BY <3>2, <3>3
  <2>7. Families!End(S)
      BY <2>4, <2>5, <2>6 DEF Families!End, Families!Live, Exists
  <2> QED
      BY <2>7
<1>4. CASE UNCHANGED rows
    BY <1>4 DEF Families!familyVars, LiveTokens, LiveRow, Exists
<1>5. \/ UNCHANGED rows
      \/ \E u \in User, s \in Family, t \in Token : IssueSession(u, s, t)
      \/ \E p \in Request, t \in Token : Rotate(p, t)
      \/ \E p \in Request : FinishRevoke(p)
    BY DEF Next, Step, Arrive, FindForRefresh, FindForLogout, RotateLoses,
           BeginRevoke, Deliver, Crash, Forget, Tick
<1> QED
    BY <1>1, <1>2, <1>3, <1>4, <1>5 DEF Families!FamilyNext

\* The refresh-token table implements the session families: a family is opened
\* once, has one token that refreshes it, and never comes back once ended.
THEOREM TokensImplementFamilies == Spec => FamilySpec
<1>1. TokensInv /\ [Next]_vars => [Families!FamilyNext]_Families!familyVars
  <2>1. TokensInv /\ Next => [Families!FamilyNext]_Families!familyVars
      BY FamiliesStep
  <2>2. UNCHANGED vars => UNCHANGED Families!familyVars
      BY DEF vars, Families!familyVars, LiveTokens, LiveRow, Exists
  <2> QED
      BY <2>1, <2>2
<1> QED
    BY <1>1, FamiliesInit, TokensSafe, PTL DEF Spec, FamilySpec, Families!FamilySpec

-----------------------------------------------------------------------------
(* When a logout ends its family.                                           *)

\* A family that was opened and has ended stays so: what the refinement says of it.
LEMMA EndedStays ==
    ASSUME TokensInv, [Next]_vars, NEW s \in Family, NEW o \in Token,
           Exists(o), rows[o].session = s, LiveTokens(s) = {}
    PROVE  LiveTokens(s)' = {}
<1> DEFINE current == [f \in Family |-> LiveTokens(f)]
           opened == {f \in Family : \E t \in Token : Exists(t) /\ rows[t].session = f}
<1>1. s \in opened /\ current[s] = {} /\ ~Families!Live(s)
    BY DEF Families!Live
<1>2. CASE UNCHANGED Families!familyVars
    BY <1>1, <1>2 DEF Families!familyVars
<1>3. CASE UNCHANGED vars
    BY <1>3 DEF vars, LiveTokens, LiveRow
<1>4. ASSUME NEW f \in Family, NEW t \in Token, Families!Open(f, t) \/ Families!Swap(f, t)
      PROVE  LiveTokens(s)' = {}
  <2>1. f # s /\ current' = [current EXCEPT ![f] = {t}]
      BY <1>1, <1>4 DEF Families!Open, Families!Swap
  <2>2. current'[s] = current[s]
      BY <2>1
  <2> QED
      BY <1>1, <2>2
<1>5. ASSUME NEW S \in SUBSET Family, Families!End(S) PROVE LiveTokens(s)' = {}
  <2>1. current' = [f \in Family |-> IF f \in S THEN {} ELSE current[f]]
      BY <1>5 DEF Families!End
  <2>2. current'[s] = {}
      BY <1>1, <2>1
  <2> QED
      BY <2>2
<1> QED
    BY <1>2, <1>3, <1>4, <1>5, FamiliesStep DEF Families!FamilyNext

\* What a logout relies on: its running UPDATE sees every live token of the family.
LogoutInv(p) ==
    req[p].op = "logout" =>
        /\ pc[p] = "revoking" => LiveTokens(found[p].session) \subseteq snap[p]
        /\ pc[p] = "replied" /\ req[p].secretOk => LiveTokens(rows[req[p].token].session) = {}

\* A handler that does not act keeps it.
LEMMA LogoutWaits ==
    ASSUME TokensInv, Kept, [ApartNext]_vars, NEW p \in Request, Untouched(p), LogoutInv(p)
    PROVE  LogoutInv(p)'
<1> SUFFICES ASSUME req[p].op = "logout" PROVE LogoutInv(p)'
    BY DEF LogoutInv, Untouched
<1>1. /\ req'[p] = req[p] /\ pc'[p] = pc[p] /\ found'[p] = found[p] /\ snap'[p] = snap[p]
    BY DEF Untouched
<1>2. ASSUME pc[p] = "revoking" PROVE LiveTokens(found[p].session)' \subseteq snap'[p]
  <2>1. \A t \in Token : LiveRow(t)' /\ rows'[t].session = found[p].session => LiveRow(t)
      BY <1>2 DEF ApartNext, vars, LiveRow
  <2>2. \A t \in Token : LiveRow(t) => rows'[t].session = rows[t].session
      BY DEF Kept, LiveRow, Exists
  <2>3. \A t \in Token : LiveRow(t)' /\ rows'[t].session = found[p].session =>
            t \in LiveTokens(found[p].session)
      BY <2>1, <2>2 DEF LiveTokens
  <2>4. LiveTokens(found[p].session) \subseteq snap[p]
      BY <1>2 DEF LogoutInv
  <2> QED
      BY <1>1, <2>3, <2>4 DEF LiveTokens
<1>3. ASSUME pc[p] = "replied", req[p].secretOk
      PROVE  LiveTokens(rows[req[p].token].session)' = {}
  <2>1. PICK o : o = req[p].token
      OBVIOUS
  <2>2. o \in Token /\ Exists(o)
      BY <1>3, <2>1 DEF TokensInv, TypeOK, HandlerInv, Ask, NoAsk
  <2>3. PICK s : s = rows[o].session
      OBVIOUS
  <2>4. s \in Family
    <3>1. rows[o] \in Row
        BY <2>2 DEF TokensInv, TypeOK, Exists, Absent
    <3> QED
        BY <2>3, <3>1 DEF Row
  <2>5. LiveTokens(s) = {}
      BY <1>3, <2>1, <2>3 DEF LogoutInv
  <2>6. [Next]_vars
      BY DEF ApartNext
  <2>7. LiveTokens(s)' = {}
      BY <2>2, <2>3, <2>4, <2>5, <2>6, EndedStays
  <2>8. rows'[o].session = s
      BY <2>2, <2>3 DEF Kept
  <2> QED
      BY <1>1, <2>1, <2>7, <2>8 DEF LiveTokens
<1> QED
    BY <1>1, <1>2, <1>3 DEF LogoutInv

\* The UPDATE starts with a snapshot of all of them, and ends with none left.
LEMMA LogoutUpdates ==
    ASSUME TokensInv, Kept, NEW p \in Request, BeginRevoke(p) \/ FinishRevoke(p), LogoutInv(p)
    PROVE  LogoutInv(p)'
<1> SUFFICES ASSUME req[p].op = "logout" PROVE LogoutInv(p)'
    BY DEF LogoutInv, BeginRevoke, FinishRevoke
<1>0. /\ pc \in [Request -> Pcs] /\ snap \in [Request -> SUBSET Token]
      /\ rows \in [Token -> Row \cup {Absent}]
    BY DEF TokensInv, TypeOK
<1>1. CASE BeginRevoke(p)
  <2>1. snap'[p] = {t \in Token : InScope(p, t)} /\ pc'[p] = "revoking"
      BY <1>0, <1>1 DEF BeginRevoke
  <2>2. UNCHANGED <<rows, req, found>>
      BY <1>1 DEF BeginRevoke
  <2>3. LiveTokens(found[p].session) = {t \in Token : InScope(p, t)}
      BY DEF LiveTokens, InScope
  <2>4. LiveTokens(found[p].session)' = LiveTokens(found[p].session)
      BY <2>2 DEF LiveTokens, LiveRow
  <2> QED
      BY <2>1, <2>2, <2>3, <2>4 DEF LogoutInv
<1>2. CASE FinishRevoke(p)
  <2>1. PICK o : o = req[p].token
      OBVIOUS
  <2>2. /\ o \in Token /\ Exists(o) /\ found[p].session = rows[o].session
      BY <1>2, <2>1 DEF TokensInv, TypeOK, HandlerInv, FinishRevoke, Ask, NoAsk
  <2>3. PICK s : s = rows[o].session
      OBVIOUS
  <2>4. LiveTokens(s) \subseteq snap[p]
      BY <1>2, <2>2, <2>3 DEF LogoutInv, FinishRevoke
  <2>5. ASSUME NEW t \in Token, LiveRow(t)' PROVE rows'[t].session # s
    <3>1. CASE t \in snap[p] /\ LiveRow(t)
      <4>1. rows[t] \in Row
          BY <1>0, <3>1 DEF LiveRow, Absent
      <4>2. rows'[t] = [rows[t] EXCEPT !.revoked = TRUE]
          BY <1>2, <3>1 DEF FinishRevoke
      <4>3. rows'[t].revoked
          BY <4>1, <4>2 DEF Row
      <4> QED
          BY <2>5, <4>3 DEF LiveRow
    <3>2. CASE ~(t \in snap[p] /\ LiveRow(t))
      <4>1. rows'[t] = rows[t]
          BY <1>2, <3>2 DEF FinishRevoke
      <4>2. LiveRow(t) /\ t \notin snap[p]
          BY <2>5, <3>2, <4>1 DEF LiveRow
      <4> QED
          BY <2>4, <4>1, <4>2 DEF LiveTokens
    <3> QED
        BY <3>1, <3>2
  <2>6. rows'[o].session = s
      BY <2>2, <2>3 DEF Kept
  <2>7. req'[p] = req[p] /\ pc'[p] = "replied"
      BY <1>0, <1>2 DEF FinishRevoke, Answer
  <2>8. LiveTokens(rows[req[p].token].session)' = {}
      BY <2>1, <2>5, <2>6, <2>7 DEF LiveTokens
  <2> QED
      BY <2>7, <2>8 DEF LogoutInv
<1> QED
    BY <1>1, <1>2

\* No other step of a handler starts an UPDATE or answers a logout that should make one.
LEMMA LogoutOtherwise ==
    ASSUME TokensInv, NEW p \in Request,
           \/ \E a \in Ask : Arrive(p, a)
           \/ FindForRefresh(p) \/ FindForLogout(p) \/ RotateLoses(p)
           \/ \E t \in Token : Rotate(p, t)
           \/ Deliver(p) \/ Crash(p)
    PROVE  LogoutInv(p)'
<1>0. pc \in [Request -> Pcs] /\ req \in [Request -> Ask \cup {NoAsk}]
    BY DEF TokensInv, TypeOK
<1>1. ASSUME NEW a \in Ask, Arrive(p, a) PROVE LogoutInv(p)'
    BY <1>0, <1>1 DEF Arrive, LogoutInv
<1>2. CASE FindForRefresh(p) \/ \E t \in Token : Rotate(p, t)
  <2>1. req[p].op = "refresh" /\ UNCHANGED req
      BY <1>2 DEF FindForRefresh, Rotate, TokensInv, HandlerInv
  <2> QED
      BY <2>1 DEF LogoutInv
<1>3. CASE RotateLoses(p)
    BY <1>0, <1>3 DEF RotateLoses, LogoutInv
<1>4. CASE FindForLogout(p)
  <2>1. pc'[p] \in {"revoke", "replied"} /\ UNCHANGED req
      BY <1>0, <1>4 DEF FindForLogout, Answer
  <2>2. req[p].secretOk => Exists(req[p].token)
      BY <1>4 DEF FindForLogout, TokensInv, HandlerInv
  <2>3. req[p].secretOk => pc'[p] = "revoke"
      BY <1>0, <1>4, <2>2 DEF FindForLogout, Exists
  <2> QED
      BY <2>1, <2>3 DEF LogoutInv
<1>5. CASE Deliver(p) \/ Crash(p)
  <2>1. pc'[p] = "idle"
      BY <1>0, <1>5 DEF Deliver, Crash, Forget
  <2> QED
      BY <2>1 DEF LogoutInv
<1> QED
    BY <1>1, <1>2, <1>3, <1>4, <1>5

\* A logout ends its family for good unless a refresh of the family commits while the
\* logout's UPDATE runs: that window alone is behind the violation of LogoutEndsFamily.
\* This holds for any number of requests, tokens and families.
THEOREM LogoutEndsFamilyApart == ApartSpec => []LogoutEndsFamily
<1> DEFINE LogoutsInv == \A p \in Request : LogoutInv(p)
<1>1. Init => LogoutsInv
    BY DEF Init, LogoutInv, NoAsk
<1>2. ASSUME TokensInv, LogoutsInv, [ApartNext]_vars PROVE LogoutsInv'
  <2> SUFFICES ASSUME NEW q \in Request PROVE LogoutInv(q)'
      OBVIOUS
  <2>0. LogoutInv(q) /\ [Next]_vars
      BY <1>2 DEF ApartNext
  <2>1. CASE UNCHANGED vars
    <3>1. Kept /\ Untouched(q)
        BY <2>1 DEF vars, Kept, Untouched, Exists
    <3> QED
        BY <1>2, <2>0, <3>1, LogoutWaits
  <2>2. CASE Next
    <3>1. Kept
        BY <1>2, <2>2, RowsKept
    <3>2. CASE Untouched(q)
        BY <1>2, <2>0, <3>1, <3>2, LogoutWaits
    <3>3. ASSUME NEW p \in Request,
                 \/ \E a \in Ask : Arrive(p, a)
                 \/ Step(p) \/ Deliver(p) \/ Crash(p)
          PROVE  LogoutInv(q)'
      <4>1. CASE p = q
          BY <1>2, <2>0, <3>1, <3>3, <4>1, LogoutUpdates, LogoutOtherwise DEF Step
      <4>2. CASE p # q
        <5>1. Untouched(q)
            BY <1>2, <3>3, <4>2 DEF Untouched, TokensInv, TypeOK, Arrive, Step, FindForRefresh,
               FindForLogout, Rotate, RotateLoses, BeginRevoke, FinishRevoke, Deliver, Crash,
               Forget, Answer
        <5> QED
            BY <3>2, <5>1
      <4> QED
          BY <4>1, <4>2
    <3>4. ASSUME \/ \E u \in User, s \in Family, t \in Token : IssueSession(u, s, t)
                 \/ Tick
          PROVE  LogoutInv(q)'
      <4>1. Untouched(q)
          BY <3>4 DEF IssueSession, Tick, Untouched, requestVars
      <4> QED
          BY <3>2, <4>1
    <3> QED
        BY <2>2, <3>3, <3>4 DEF Next
  <2> QED
      BY <2>0, <2>1, <2>2
<1>3. LogoutsInv => LogoutEndsFamily
    BY DEF LogoutInv, LogoutEndsFamily
<1>4. ApartSpec => Spec
  <2>1. [ApartNext]_vars => [Next]_vars
      BY DEF ApartNext
  <2> QED
      BY <2>1, PTL DEF ApartSpec, Spec
<1> QED
    BY <1>1, <1>2, <1>3, <1>4, TokensSafe, PTL DEF ApartSpec
=============================================================================
