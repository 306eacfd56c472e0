--------------------------- MODULE RefreshTokens ---------------------------
(***************************************************************************)
(* The refresh-token table and the operations on it: AuthService's         *)
(* issueSession, refresh and logout, and the two administrative paths that *)
(* revoke every session of a user (PasswordResetService.revokeAllTrust and *)
(* MfaManagementService's admin removal).                                  *)
(*                                                                         *)
(* One action is one database statement or one transaction whose row lock  *)
(* makes it atomic.  PostgreSQL runs READ COMMITTED: the rows an UPDATE     *)
(* considers are those its snapshot held when the statement began, and     *)
(* each one's WHERE clause is evaluated again once its lock is granted.    *)
(* So a revocation is two steps, BeginRevoke and FinishRevoke, and rows     *)
(* inserted between them escape it.                                        *)
(***************************************************************************)
EXTENDS Naturals

CONSTANTS
    User, Family, Token,
    Request,    \* requests in flight
    Ttl,        \* REFRESH_TTL_MS, in clock ticks
    MaxClock,   \* bound on the clock
    None

ASSUME ClockAssumption == Ttl \in Nat \ {0} /\ MaxClock \in Nat
ASSUME NoneAssumption == None \notin Token

VARIABLES
    rows,       \* refresh_tokens: token id -> row, or absent
    now,        \* the application clock
    pc,         \* request -> where its handler is
    req,        \* request -> what was asked
    found,      \* request -> the row the handler has read
    snap,       \* request -> rows in the snapshot of its running UPDATE
    reply,      \* request -> answer, before it is sent
    before      \* observer: request -> the tokens that existed when it arrived

vars == <<rows, now, pc, req, found, snap, reply, before>>
requestVars == <<pc, req, found, snap, reply, before>>

-----------------------------------------------------------------------------
(* Types.                                                                   *)

Absent == [exists |-> FALSE]

Row == [exists : {TRUE}, user : User, session : Family, revoked : BOOLEAN,
        replacedBy : Token \cup {None}, createdAt : Nat, expiresAt : Nat]

\* What parseRefreshToken and argon2 make of a presented string: the id of a
\* row that may or may not exist, and whether the secret matches its hash.
Ask ==
    [op : {"refresh", "logout"}, token : Token, secretOk : BOOLEAN]
        \cup [op : {"revokeUser"}, user : User]

Pcs == {"idle", "find", "rotate", "revoke", "revoking", "replied"}

Replies == {"none", "rotated", "InvalidToken", "TokenReused", "done"}

NoAsk == [op |-> "none"]

Exists(t) == rows[t].exists
LiveRow(t) == rows[t].exists /\ ~rows[t].revoked

TypeOK ==
    /\ rows \in [Token -> Row \cup {Absent}]
    /\ now \in Nat
    /\ pc \in [Request -> Pcs]
    /\ req \in [Request -> Ask \cup {NoAsk}]
    /\ found \in [Request -> Row \cup {Absent}]
    /\ snap \in [Request -> SUBSET Token]
    /\ reply \in [Request -> Replies]
    /\ before \in [Request -> SUBSET Token]

Init ==
    /\ rows = [t \in Token |-> Absent]
    /\ now = 0
    /\ pc = [p \in Request |-> "idle"]
    /\ req = [p \in Request |-> NoAsk]
    /\ found = [p \in Request |-> Absent]
    /\ snap = [p \in Request |-> {}]
    /\ reply = [p \in Request |-> "none"]
    /\ before = [p \in Request |-> {}]

-----------------------------------------------------------------------------
(* Writing rows.                                                            *)

\* A freshly inserted row: live, with a full TTL ahead.
NewRow(u, s) ==
    [exists |-> TRUE, user |-> u, session |-> s, revoked |-> FALSE,
     replacedBy |-> None, createdAt |-> now, expiresAt |-> now + Ttl]

\* Mutant: the rotation forgets revoked_at.
SpendKeepingLive(row, t) == [row EXCEPT !.replacedBy = t]

\* The row update of a rotation: revoked_at and the breadcrumb together.
Spend(row, t) == [row EXCEPT !.revoked = TRUE, !.replacedBy = t]

\* Mutant: the gate matches the id only.
AnyRowWins(t) == Exists(t)

\* The condition of the single-winner gate: UPDATE ... WHERE id = row.id AND
\* revoked_at IS NULL found its row.
StillLive(t) == LiveRow(t)

Expired(row) == row.expiresAt <= now

\* Mutant: reuse only revokes the family of the reused token.
InScopeOfFamily(p, t) ==
    /\ LiveRow(t)
    /\ IF req[p].op = "revokeUser"
       THEN rows[t].user = req[p].user
       ELSE rows[t].session = found[p].session

\* The WHERE clause of a revocation: every live row of the family for a
\* logout, every live row of the user otherwise.
InScope(p, t) ==
    /\ LiveRow(t)
    /\ CASE req[p].op = "logout" -> rows[t].session = found[p].session
         [] req[p].op = "refresh" -> rows[t].user = found[p].user
         [] OTHER -> rows[t].user = req[p].user

-----------------------------------------------------------------------------
(* Actions.                                                                 *)

\* A sign-in (or a completed second factor) opens a new family; both ids are
\* fresh uuids.
IssueSession(u, s, t) ==
    /\ ~Exists(t)
    /\ \A o \in Token : Exists(o) => rows[o].session # s
    /\ rows' = [rows EXCEPT ![t] = NewRow(u, s)]
    /\ UNCHANGED <<now, requestVars>>

\* A request arrives.  Only a token that was handed out comes with its secret.
Arrive(p, a) ==
    /\ pc[p] = "idle"
    /\ a.op # "revokeUser" /\ a.secretOk => Exists(a.token)
    /\ req' = [req EXCEPT ![p] = a]
    /\ pc' = [pc EXCEPT ![p] = IF a.op = "revokeUser" THEN "revoke" ELSE "find"]
    /\ before' = [before EXCEPT ![p] = {t \in Token : Exists(t)}]
    /\ UNCHANGED <<rows, now, found, snap, reply>>

Answer(p, r) ==
    /\ pc' = [pc EXCEPT ![p] = "replied"]
    /\ reply' = [reply EXCEPT ![p] = r]

\* refresh(): findUnique, then the checks on the row that was read.  A
\* revoked row means reuse whatever the secret is.
FindForRefresh(p) ==
    LET row == rows[req[p].token]
    IN  /\ pc[p] = "find"
        /\ req[p].op = "refresh"
        /\ found' = [found EXCEPT ![p] = row]
        /\ \/ /\ ~row.exists
              /\ Answer(p, "InvalidToken")
           \/ /\ row.exists
              /\ row.revoked
              /\ pc' = [pc EXCEPT ![p] = "revoke"]
              /\ UNCHANGED reply
           \/ /\ row.exists
              /\ ~row.revoked
              /\ Expired(row) \/ ~req[p].secretOk
              /\ Answer(p, "InvalidToken")
           \/ /\ row.exists
              /\ ~row.revoked
              /\ ~Expired(row)
              /\ req[p].secretOk
              /\ pc' = [pc EXCEPT ![p] = "rotate"]
              /\ UNCHANGED reply
        /\ UNCHANGED <<rows, now, req, snap, before>>

\* The rotation transaction: the winner revokes the old row and inserts the
\* next one of the family; a loser goes on to revoke the user's sessions.
Rotate(p, t) ==
    LET old == req[p].token
    IN  /\ pc[p] = "rotate"
        /\ StillLive(old)
        /\ ~Exists(t)
        /\ rows' = [rows EXCEPT ![old] = Spend(rows[old], t),
                                ![t] = NewRow(found[p].user, found[p].session)]
        /\ Answer(p, "rotated")
        /\ UNCHANGED <<now, req, found, snap, before>>

RotateLoses(p) ==
    /\ pc[p] = "rotate"
    /\ ~StillLive(req[p].token)
    /\ pc' = [pc EXCEPT ![p] = "revoke"]
    /\ UNCHANGED <<rows, now, req, found, snap, reply, before>>

\* logout(): findUnique and the check of the secret; no row or a wrong secret
\* is a silent no-op.
FindForLogout(p) ==
    LET row == rows[req[p].token]
    IN  /\ pc[p] = "find"
        /\ req[p].op = "logout"
        /\ found' = [found EXCEPT ![p] = row]
        /\ IF row.exists /\ req[p].secretOk
           THEN pc' = [pc EXCEPT ![p] = "revoke"] /\ UNCHANGED reply
           ELSE Answer(p, "done")
        /\ UNCHANGED <<rows, now, req, snap, before>>

\* updateMany takes its snapshot ...
BeginRevoke(p) ==
    /\ pc[p] = "revoke"
    /\ snap' = [snap EXCEPT ![p] = {t \in Token : InScope(p, t)}]
    /\ pc' = [pc EXCEPT ![p] = "revoking"]
    /\ UNCHANGED <<rows, now, req, found, reply, before>>

\* ... and revokes the rows of it that are still live.
FinishRevoke(p) ==
    /\ pc[p] = "revoking"
    /\ rows' = [t \in Token |->
                    IF t \in snap[p] /\ LiveRow(t)
                    THEN [rows[t] EXCEPT !.revoked = TRUE]
                    ELSE rows[t]]
    /\ Answer(p, IF req[p].op = "refresh" THEN "TokenReused" ELSE "done")
    /\ UNCHANGED <<now, req, found, snap, before>>

\* The response leaves, or the process dies or loses its database connection
\* before the next statement: either way the handler's state is gone.
Forget(p) ==
    /\ pc' = [pc EXCEPT ![p] = "idle"]
    /\ req' = [req EXCEPT ![p] = NoAsk]
    /\ found' = [found EXCEPT ![p] = Absent]
    /\ snap' = [snap EXCEPT ![p] = {}]
    /\ reply' = [reply EXCEPT ![p] = "none"]
    /\ before' = [before EXCEPT ![p] = {}]
    /\ UNCHANGED <<rows, now>>

Deliver(p) == pc[p] = "replied" /\ Forget(p)

Crash(p) == pc[p] \notin {"idle", "replied"} /\ Forget(p)

Tick ==
    /\ now < MaxClock
    /\ now' = now + 1
    /\ UNCHANGED <<rows, requestVars>>

Step(p) ==
    \/ FindForRefresh(p)
    \/ FindForLogout(p)
    \/ \E t \in Token : Rotate(p, t)
    \/ RotateLoses(p)
    \/ BeginRevoke(p)
    \/ FinishRevoke(p)

Next ==
    \/ \E u \in User, s \in Family, t \in Token : IssueSession(u, s, t)
    \/ \E p \in Request, a \in Ask : Arrive(p, a)
    \/ \E p \in Request : Step(p) \/ Deliver(p) \/ Crash(p)
    \/ Tick

Spec == Init /\ [][Next]_vars

-----------------------------------------------------------------------------
(* Properties.                                                              *)

LiveTokens(s) == {t \in Token : LiveRow(t) /\ rows[t].session = s}

\* Rotation has a single winner: whatever number of refreshes validate the
\* same row, a family never has two tokens that refresh it.
OneLivePerFamily ==
    \A t, o \in Token :
        LiveRow(t) /\ LiveRow(o) /\ rows[t].session = rows[o].session => t = o

\* The breadcrumb of a rotation leads to the family's next token: the
\* replacement exists, belongs to the same user and session, replaces no
\* other token and was minted no earlier.
ReplacementsFormChains ==
    \A t \in Token : Exists(t) /\ rows[t].replacedBy # None =>
        LET n == rows[t].replacedBy
        IN  /\ rows[t].revoked
            /\ Exists(n)
            /\ rows[n].user = rows[t].user
            /\ rows[n].session = rows[t].session
            /\ rows[n].createdAt >= rows[t].createdAt
            /\ \A o \in Token : Exists(o) /\ rows[o].replacedBy = n => o = t

\* A finished revocation (reuse detected, a logout with the right secret, an
\* administrative reset) has reached every session of its scope that existed
\* when the request arrived: those tokens are revoked, whatever ran meanwhile.
SweptOf(p, t) ==
    CASE req[p].op = "logout" -> /\ req[p].secretOk
                                 /\ rows[t].session = rows[req[p].token].session
      [] req[p].op = "refresh" -> /\ reply[p] = "TokenReused"
                                  /\ rows[t].user = rows[req[p].token].user
      [] OTHER -> rows[t].user = req[p].user

RevocationIsComplete ==
    \A p \in Request : pc[p] = "replied" =>
        \A t \in before[p] : SweptOf(p, t) => rows[t].revoked

\* What a handler may rely on between its statements.  Rows never disappear or
\* change owner, so what it read still names the row's user and family; and a
\* running revocation has every older row of its scope in its snapshot.
HandlerInv(p) ==
    /\ pc[p] # "idle" => req[p] \in Ask
    /\ pc[p] = "find" => req[p].op # "revokeUser"
    /\ pc[p] = "rotate" => req[p].op = "refresh"
    /\ reply[p] # "none" => pc[p] = "replied"
    /\ \A t \in before[p] : Exists(t)
    /\ req[p].op \in {"refresh", "logout"} =>
        /\ req[p].secretOk \/ reply[p] = "TokenReused" => Exists(req[p].token)
        /\ pc[p] \in {"rotate", "revoke", "revoking"} =>
            /\ Exists(req[p].token)
            /\ found[p].user = rows[req[p].token].user
            /\ found[p].session = rows[req[p].token].session
            /\ req[p].op = "logout" => req[p].secretOk
    /\ pc[p] = "revoking" => \A t \in before[p] : InScope(p, t) => t \in snap[p]

\* The inductive invariant of the token table and its handlers.
TokensInv ==
    /\ TypeOK
    /\ OneLivePerFamily
    /\ ReplacementsFormChains
    /\ \A t \in Token : Exists(t) => rows[t].createdAt <= now
    /\ \A p \in Request : HandlerInv(p)
    /\ RevocationIsComplete

\* The refresh-token table implements the session families of SessionFamily.
Families == INSTANCE SessionFamily WITH
    current <- [s \in Family |-> LiveTokens(s)],
    opened <- {s \in Family : \E t \in Token : Exists(t) /\ rows[t].session = s},
    issued <- {t \in Token : Exists(t)}

FamilySpec == Families!FamilySpec

\* What the documentation says of logout: the family is over once the logout
\* has been answered.
LogoutEndsFamily ==
    \A p \in Request :
        /\ pc[p] = "replied"
        /\ req[p].op = "logout"
        /\ req[p].secretOk
        => LiveTokens(rows[req[p].token].session) = {}

\* The same handlers as long as no refresh commits in a family while the UPDATE of a
\* logout of that family runs.
ApartNext ==
    /\ Next
    /\ \A p \in Request : pc[p] = "revoking" /\ req[p].op = "logout" =>
           \A t \in Token : LiveRow(t)' /\ rows'[t].session = found[p].session => LiveRow(t)
ApartSpec == Init /\ [][ApartNext]_vars
=============================================================================
