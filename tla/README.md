# Vaultchain operations console: TLA+ models and proofs

Vaultchain is a back-office console for a wallet business: a NestJS API over
PostgreSQL and Redis (`Api/`) and an Angular application (`Web/`). This
directory holds the TLA+ models of the parts of it where concurrency, failure,
retries and late answers decide whether it is correct, the TLC configurations
that check them, and the theorems TLAPS proves about them.

Contents: 1 inventory, 2 modules and plan, 3 the runs, 4 posting, 5 refresh
tokens, 6 the audit chain, 7 identity, 8 the back office, 9 the screens,
10 what is proved, 11 observations without a run, 12 not modelled.

## 1. Inventory

| Part | State | Operations | What is hard |
| --- | --- | --- | --- |
| Transaction posting (`modules/transactions`) | `transactions`, `ledger_entries`, `wallet_balances`, `idempotency_keys` | `post()`: claim key, plan, lock, check, write, complete, release | retries, slow owners, crashes, lost acknowledgements, lock order |
| Sessions (`modules/auth`) | `refresh_tokens` | issue, refresh, logout, revoke all | single-winner rotation, reuse detection, stale snapshots |
| Login (`modules/auth`) | failed count, lock, second factor of a user | login, register failure, reset | counter and lock written from a row read before the password hash |
| RBAC and access tokens (`modules/rbac`, guards) | `role_permissions`, `user_roles`, `permission_version`, tokens held | grant, revoke, assign, unassign, sign, check | last-administrator count under READ COMMITTED, tokens built from two reads |
| MFA (`modules/mfa`, `modules/auth`) | challenges, backup codes, devices, TOTP floor | sign-in, enrol, disable, regenerate, reset | single use, unconditional floor writes |
| Password reset (`modules/password-reset`) | challenges, administrator requests | initiate, verify, request, poll, decide, claim, complete | one open request, single-winner decision, lazy expiry |
| Audit chain (`common/audit`, `common/util/uuid.ts`) | `audit_logs`, the uuidv7 counter | append inside the caller's transaction | predecessor chosen by clock and id |
| Customers and KYC | `customers`, `kyc_verifications`, audit trail | create, update, soft delete | optimistic concurrency, duplicate checks before the write |
| Notifications | notification rows, preferences, the prune lock | fan-out, de-duplicate, list, mark, prune | find-then-insert, stitched page, pooled advisory lock |
| Realtime, rate limiter | subscribers, stream cookie, Redis keys | emit, bridge, authorize, count, block | own echo, lost publish, expiry edges, Redis outage |
| Analytics rollup | `metric_daily` | nightly rollup | several statements, two instances, midnight |
| Web: session client | token, principal, refresh in flight | bootstrap, sign in, refresh, retry, sign out | concurrent 401s, answers after a sign-out |
| Web: screens | component signals and the NgRx slices | load, edit, save, decide, poll | requests answered late, out of order or after navigation |
| Operator profile, risk records, catalog, encryption, plumbing | single rows or none | single writes and reads | nothing shared between actors |

The parts meet in the database: every write operation runs in a READ COMMITTED
transaction, appends to the audit chain in the same transaction, and tells the
realtime bus afterwards. `PROJECT.json` lists every part, the lines where each
hazard bites and the properties aimed at it.

## 2. Modules and plan

| Module | Models | Used by |
| --- | --- | --- |
| `Ledger` | what posting promises | refined by `LedgerPosting` |
| `LedgerPosting` | `TransactionsService.post()` | `MCLedgerPosting`, `LedgerPostingProofs` |
| `SessionFamily` | what a session family promises | refined by `RefreshTokens` |
| `RefreshTokens` | `AuthService` refresh and logout, revocations | `MCRefreshTokens`, `RefreshTokensProofs` |
| `AuditChain` | `AuditService.append`, `uuidv7` | `MCAuditChain`, `Identity`, `BackOffice`, `AuditChainProofs` |
| `Login`, `Access`, `Mfa`, `PasswordReset` | who an operator is and what it may do | `Identity` (`MCAccess` alone for `rbac_last_admin`), `IdentityProofs` |
| `RowOrder` | the order of a listing | `NotificationPage`, `Retention`, `NotificationFeed` |
| `Customers`, `Notifications`, `NotificationPage`, `Retention`, `Throttler`, `LiveEvents`, `Rollup` | the back office | `BackOffice` (`LiveEvents` alone for `stream_identity`), `OfficeProofs` |
| `Identity`, `BackOffice`, `Screens` | the sums of components that runs explore, their types, and (`BackOffice`) what the notification service and the nightly jobs promise as a whole | `MCIdentity`, `MCOffice`, `MCScreens`, `IdentityProofs`, `OfficeProofs`, `ScreensProofs` |
| `WebSession`, `ForgotPassword`, `CustomerList`, `CustomerDetail`, `CustomerForm`, `TransactionPanel`, `NotificationFeed`, `RiskScreen`, `SettingsScreen`, `ResetDesk` | the browser | `Screens` (`ResetDesk` alone for `reset_desk`), `ScreensProofs` |
| `LedgerProofs`, `LedgerPostingProofs`, `RefreshTokensProofs`, `AuditChainProofs`, `IdentityProofs`, `RowOrderProofs`, `OfficeProofs`, `ScreensProofs` | the theorems (`RowOrderProofs`: lemmas on listings that the last two use) | |

Conventions. An action is one database statement, or one transaction where its
locks make it atomic, or one event handler of a browser component. A request in
flight is a record with a program counter and what it has read so far. Variables
marked *observer* are history that only properties read. A definition marked
*Mutant* is a plausible bug used to see that a property can fail; it is not part
of any specification. Every bound on a counter is a CONSTANT with a name.

Done: all of the above, with every safety property of a passing run stated by a
theorem. Possible next: abstract specifications of the notification list and of the
prune, the MFA enrolment wizard of the settings screen, and the single-row writes
listed in section 12.

## 3. The runs

| Run | Instance | Result |
| --- | --- | --- |
| `posting_interleavings` | 2 concurrent requests over 3 keys, 16 requests covering each kind and each refusal, no faults | `PostingInv`, `NoDeadlock`, `NoOverdraft`, `ReverseOnce`, `BooksBalance`, `AnswerMatchesRequest`, refinement of `LedgerSpec` |
| `posting_retries` | 2 concurrent requests under one key with two bodies, every fault, `FairSpec` | `OncePerKey`, `AnswersAreDurable`, `EveryRequestEnds`, `AbandonedKeyRecovers` |
| `posting_key_reuse` | 3 requests, no fault, one key with two bodies | violated: `AnswerMatchesRequest` |
| `tokens_race` | 2 users, 2 families, 3 tokens, 2 requests, TTL 1, clock 0..1, crashes | `TokensInv`, `RevocationIsComplete`, refinement of `FamilySpec` |
| `tokens_logout` | 1 family, 2 tokens, 2 requests | violated: `LogoutEndsFamily` |
| `identity` | see section 7 | eight properties |
| `rbac_last_admin` | 2 administrators, 2 revokes | violated: `AdminSurvives` |
| `office` | see section 8 | eight properties |
| `audit_two_processes` | 2 processes, one clock | violated: `ChainLinear` |
| `stream_identity` | 1 browser, 2 users, 2 instances | violated: `NoForeignEvent` |
| `screens` | see section 9 | ten properties |
| `reset_desk` | 2 requests, 2 details on the wire | violated: `DecidesWhatWasAsked` |

*Sums of components.* `Identity`, `BackOffice` and `Screens` put several
components into one specification, which `MCIdentity`, `MCOffice` and `MCScreens`
instantiate. The components do not interact in the code beyond what each module
already contains: they share no variable, and every property speaks of one
component only. It is therefore enough to explore the behaviours in which one
component acts (`acting`) and the others rest in an initial state, and the state
space is the sum of the components' and not their product. The sums add nothing:
`IdentityRunsComponents`, `OfficeRunsComponents` and `ScreensRunComponents` prove that
every behaviour of a sum is one of each component, so a component's theorem holds of
what TLC explores. The type invariants of the sums apply to the component that acts.

CHECK_DEADLOCK is off where the system may rest (every key used, every bound
reached); it is on in the two token runs. Symmetry is used where requests, tokens,
users or ids are interchangeable: no constant of these sets occurs in a
definition. No run with symmetry checks a liveness property: the temporal
properties of `posting_interleavings`, `tokens_race`, `identity` and `office` are
of the form Init and [][A], which TLC checks state by state.

## 4. The posting service

`Ledger.tla` is the promise: `txs` is the sequence of committed transactions
with their two entries, `avail` the wallet balances, and the only step
(`PostOnce`) is a complete movement: key unused, wallets exist and share the
currency, a checked debit of a customer wallet is covered, both balances stay in
the 64-bit range, a reversal mirrors a POSTED original that has no reversal.

`LedgerPosting.tla` is `TransactionsService.post()` as concurrent requests run
it. Each `Attempt` is a request in flight with a program counter; one action is
one database round trip.

| Action | Code (`transactions.service.ts`) |
| --- | --- |
| `Receive` | lines 96-106: an unimplemented kind is refused at once |
| `FindKey`, `Reclaim`, `CreateKey`, `RereadKey` | 119-154: find, stale reclaim, claim, P2002 re-read |
| `PlanPosting`, `PlanReversal` | 225-426: one plan per kind; a reversal locks and reads the original |
| `LockWallet` | 472-475: one FOR UPDATE per id in ascending order |
| `LoadWallets` | 477-512: existence, currency, sufficient balance |
| `InsertRows` | 519-617: rows with UNIQUE keys, entry numbers, balance deltas, REVERSED mark |
| `Commit`, `CommitFails`, `CommitUnacknowledged` | 164-175: key completion and COMMIT |
| `ReleaseKey`, `ReleaseKeyFails` | 176-191: best-effort delete by key |
| `Crash`, `TransactionError`, `StaleElapses`, `Deliver` | process death, failed statement, 60 s passing, response sent |

Choices that matter. PostgreSQL runs READ COMMITTED, so a plain read sees what
was last committed, a FOR UPDATE waits for the holder and then reads the newest
version, and an INSERT that meets another transaction's uncommitted row with the
same UNIQUE value waits for it. The writes of a transaction become visible at
`Commit`; until then they are held in `plan` and `seqs`, which is sound because
every value they were computed from is protected by a lock (that is what
`PostingInv` says and what is proved). The completion UPDATE of the key and the
COMMIT are one action, since a concurrent DELETE of that row waits for its lock.
A failed COMMIT may have taken effect: `CommitUnacknowledged`.
Two system wallets per currency (CLEARING, REVENUE) may be missing, wallet ids
may name no row, and `Minor` is the range of the BIGINT column shrunk to
`MaxMinor`. `balance_minor` and `available_balance_minor` always move together
and are one variable. Public reference, owner account, category and description
have no influence on control and are left out.

Bounds. All posting runs use five wallets (a USD clearing and a USD revenue
wallet, two USD customers, one EUR customer; EUR has no system wallet),
`MaxMinor = 3` and opening balances 2, 1 and 1, so that overdraft, out-of-range
and currency-mismatch cases all occur with amounts 1 and 2. Two attempts exhibit
each race between two holders of a lock or a key: `posting_interleavings` sends
opposite transfers, a fee, two reversals of one movement and a reversal of a
reversal. Three keys allow three movements. The third attempt of
`posting_key_reuse` is the retry that gets the wrong answer.

Fairness. `Serve(p)` is weakly fair: a statement that can run does run. Locks
and UNIQUE waits are strongly fair because PostgreSQL queues waiters. Time
passes (`StaleElapses`). `AbandonedKeyRecovers` assumes besides that the request
in question is retried for ever and not killed each time (`Retried`). Faults are
never fair. The instance sends the reversal under the transfer's key: once a lost
acknowledgement has freed that key, reversals wait for each other's lock on the
original, and the state space stays small enough for the liveness check.

The finding `posting_key_reuse`. `Reclaim`, the completion and `ReleaseKey`
address the key row by key alone, without the state or fingerprint they saw. With
an owner slower than `IDEMPOTENCY_STALE_MS` and two bodies under one key, the slow
owner completes the other body's row, and a retry of that body is answered with
the wrong transaction. Money is moved at most once all the same: `OncePerKey` is
proved.

## 5. Refresh tokens and session families

`SessionFamily.tla` is the promise: a family is opened once with a token nobody
has seen, while it is live exactly one token refreshes it, a refresh swaps that
token, and a family that has ended never comes back.

`RefreshTokens.tla` is the `refresh_tokens` table and what runs on it. `rows` is
the table, `now` the application clock, and each `Request` is a handler in
flight with the row it has read (`found`) and the snapshot of its running UPDATE
(`snap`). `before` is an observer: the tokens that existed when the request
arrived.

| Action | Code |
| --- | --- |
| `IssueSession` | `issueSession`: a new family with its first token |
| `Arrive` | `AuthController.refresh`, `.logout`, and the two administrative paths (`revokeAllTrust`, `MfaManagementService.adminReset`) |
| `FindForRefresh` | `refresh` 181-200: unknown, revoked (reuse), expired or wrong secret, or go on |
| `Rotate`, `RotateLoses` | 201-216: the transaction whose conditional UPDATE has one winner |
| `FindForLogout` | `logout` 235-240 |
| `BeginRevoke`, `FinishRevoke` | every `updateMany` that revokes by user or by session |
| `Deliver`, `Crash`, `Tick` | response sent, handler lost, time passing |

A rotation is one step because the updated row stays locked to the commit. A
revocation is two: PostgreSQL takes the rows to consider from the snapshot the
statement began with and evaluates the WHERE clause again when it gets a row's
lock, so rows committed in between are never considered. A presented string is
reduced to what the code tells apart: the id of a row that may not exist, and
whether the secret matches. A missing cookie or an unparseable string behaves
like an unknown id. Only an issued token comes with its secret.

Two requests are enough for each race between a validated row and a later write;
three tokens allow two rotations, or two families with one.

The finding `tokens_logout`: a refresh that commits inside the logout's UPDATE
inserts a row the UPDATE does not consider, and the family lives on. The same race
lets a session survive a reuse sweep. What does hold is `RevocationIsComplete`:
every token that existed when the request arrived is revoked once it is answered.
Each rotation also starts a new TTL, so only idleness ends a family.

## 6. The audit chain

`AuditChain.tla` is `AuditService.append` and `uuidv7`. `log` holds the committed
rows, `pending` those of each open transaction; a transaction may append several
rows before it commits, as customer updates do. A row's hash identifies it, so
`prev` is the id of the row it continues, or `Genesis`. `lastMillis` and
`counter` are the module state of uuid.ts in each process and are lost when the
process restarts. All processes read one clock `now`; `StepsBack` says whether it
may be set back.

| Action | Code |
| --- | --- |
| `Lock` | `pg_advisory_xact_lock`, re-entrant and held to the end of the transaction |
| `ReadLast` | the newest row by `created_at`, `id` that the transaction sees |
| `MintId` | `uuidv7()`: time field, counter, random tail |
| `InsertRow` | `new Date()`, hash, INSERT; the clock may have moved since `MintId` |
| `Commit`, `Rollback` | the caller's transaction ends |
| `OtherId`, `Restart`, `Tick`, `StepBack` | other ids minted in the process, process death, the clock |

A restart takes longer than a millisecond. Random tails of two processes never
make the same id. `MaxMillis` and `MaxRows` bound the search only.

`office` checks `ChainInv` with one process, two transactions, three rows, a
counter 0..1 and a clock 0..2: a fork needs three rows, and the counter overflows
within the clock. `identity` checks `IdsNeverRegress` with two processes, a counter
0..1 and clocks that step back. `audit_two_processes` is the finding: three appends
of two processes in one millisecond fork the chain, because their ids are not
ordered by time; the advisory lock does not help.

## 7. Identity

*Login* (`AuthService.login`, `registerFailure`). `SubmitLogin` takes a right or wrong
password with or without a device cookie; the steps of `login()` read the user,
hash, count, lock, reset, decide the second factor and answer. The row read first
is used after the slow hash, so failures, successes and locks of other requests
fall in between. `LockoutSound`: the counter loses no failure, reaching the limit
sets the lock (a process that dies between the two statements aside), and a lock
is only there with enough failures since the last success. `SecondFactorHonoured`:
a session without a challenge means the device was the user's own or MFA was off
at some time during the request.

*Access* (`rbac.service.ts`, `buildResponse`, the guards). A token is built from
reads of roles, grants and version; an administration transaction checks
escalation, writes, counts the remaining holders, bumps the versions of everyone
affected and commits. `AcceptedTokensCurrent`: a token the guard accepts carries
the operator's present permissions. Two windows are excluded (`raced`): a change
that commits between two reads of a build and concerns what was read already
(`SlipsPast`: roles not yet used for the grants, or permissions not yet stamped with
a version), and an operator who gains the role after a change of that role has
computed whom to bump. `assertAdminSurvives` counts the holders of one permission after
the other, each COUNT a step of its own. `AdminSurvivesAlone`: the
last-administrator guard works as long as no two revokes overlap; `rbac_last_admin`
shows that they may.

*Mfa*. One account's challenges, codes, devices and TOTP floor, each statement an
action. A six-digit code is a secret and a time step. `FactorsSpentOnce`: a
challenge becomes at most one session, a backup code is accepted at most once, and
while the floor only advances a TOTP code signs in at most once.

*PasswordReset*. The self-service challenge and the administrator's path: request,
poll, decide, claim, redeem. Whether a code is right is an input. `ChangePassword` is
one step: it is one transaction in the code, and nothing else reads what it writes
before its commit. `OneOpenIndex`
is the partial unique index the migration creates. `ResetsAreAuthorised`: a
challenge changes the password once, any change ends the older challenges, and an
approval behind a change was the only decision on its request.

Bounds of `identity`: two concurrent requests for each component (the races are
between a row read and its use), two operators, roles and permissions, a lockout after
2 failures with up to 4 counted, one challenge, one backup code, one device and one
secret, one administrator request with two challenges (its own and one that competes),
one attempt per challenge. Two requests pending at once are beyond the run;
`ResetsStayAuthorised` is proved for any number. A second enrolment is outside the
bound and is discussed in section 11.

## 8. The back office

*Customers*: create with its two look-ups and UNIQUE indexes, update that merges a
patch into the row read and writes it if `rowVersion` is by then the stored one, soft
delete. A request may carry any version, as the DTO lets it; `Ahead` says that it is
newer than the row the handler has read, which the form never sends. Such an update has
merged into and been checked against a row that is older by the time its version holds
(section 11). A row's KYC trail and decisions are written in the same transaction.
`CustomersEvolve`: but for a commit that is `Ahead`, what is committed is the patch
applied to the row it replaces, KYC moves along the matrix and CLOSED is final; deleted
is final without exception. `CustomersCoherent`: live customers are distinct, and the
trail is an unbroken path to the present status for customers no such commit concerned
(`outpaced`).

*Notifications*, *NotificationPage*, *Retention*: fan-out by preference (two reads) or
to given recipients, de-duplication by a find before the insert, marks; the page
stitched from unread and read rows; the nightly prune whose lock and unlock may get
different connections of the pool, and whose lock ends with the connection that took
it (`DropConnection`, in *Rollup* `LoseRollupLock`), which the job does not notice.
`NotificationsSound`: who is told is who opted in, a duplicate exists only by the race
between check and insert, a page read while nothing changes is exactly its window.
`NightJobsSound`: what is pruned is past its age or beyond the cap, lock or no lock;
two instances prune at a time only where one has lost its lock (`lost`); and
(*Rollup*) a run during which day and source stay as they are leaves its day's figures
exact whatever earlier, failed or crossed runs left, also beside runs that overlap it
without a lock, if these counted the same (`clean`).

*Throttler*: the Lua script over counter and block flag with their expiries, and
the denial while Redis is down. `RateBounded` is the bound that holds of a counter
whose window starts at its first hit: two budgets in any window.

*LiveEvents*: local subject, Redis bridge with the instance's own echo dropped,
lost publishes, per-subscriber scope, the stream cookie and the browser's one
`EventSource`. `DeliveredOnce`: an open stream gets each event of its scope exactly
once unless the publish failed or is on its way. `stream_identity` is the finding:
the stream survives a sign-out and feeds the next user of the browser.

Bounds of `office`: two concurrent calls, two customers with two addresses and
national ids, versions up to 2 and two edits (a new address with a review and a
re-opening, a rejection with a closing), so that of two that overlap either may find
the customer closed by the other, and a request may carry a version ahead of its row;
three notifications and five inbox rows with pages of two (so the boundary between
unread and read falls inside, before and after a page), two instances with two
connections each and three nights, a limit of 2 in windows of 3 ticks over 9 ticks,
two events, two days with one midnight. Its symmetry permutes the requests, the
customer ids and the national ids. The same names stand for writers, instances and
scheduler runs (q1, q2) and for recipients and operators (c1, c2), which are
interchangeable too.

## 9. The screens

A request is answered by the server some time after it was sent and handled by the
page some time after that; nothing orders two answers unless the code cancels one
of the requests (switchMap) or waits (concatMap). Navigation that keeps a component
keeps its state. What the server does to a request is an action of its own, so a
request may take effect and its answer be lost.

| Module | Code | Property |
| --- | --- | --- |
| `WebSession` | `core/auth/auth.service.ts`, `auth.interceptor.ts` | `SessionSound`: one refresh at a time; principal and token belong to one user, and to nobody after a sign-out, unless a call was on the wire then or one was sent without a token before the server took the refresh cookie back |
| `ForgotPassword` | the wizard and its status poll | `PollOnlyWhileWaiting`: while the screen is open the timer runs exactly in the waiting state and a poll is only answered there |
| `CustomerList` | the page and its NgRx effects | `ListHonest`: masked means masked, what was deleted stays gone, the rows are those of the view on screen |
| `TransactionPanel` | filters, list and posting form | `NewRowShown`: a new transaction is listed, or filters the operator set hide it and it is said so, unless the API's reading of a zone-less bound leaves it out |
| `NotificationFeed` | infinite scroll with live merges | `ItemsDistinct`: no row twice |
| `RiskScreen` | screening, decision, signature | `DecisionMatchesScreening`: a decision carries the signals of the same address, and customer unless the route changed |
| `CustomerDetail` | detail, reveal, wallet limits and `updateLimits` on the server | `DetailHonest`: hidden means hidden; an accepted update replaces the limits that were shown; both but for answers to what was asked before the route changed |
| `SettingsScreen` | trusted devices, MFA actions | `SettingsHonest`: no trusted device is hidden by a failed revoke, delivered backup codes stay until confirmed |
| `CustomerForm` | the edit form and the update it sends | `FormFaithful`: no mask is stored; what was not edited is not changed |
| `ResetDesk` | the administrator's reset requests | run `reset_desk`: the request decided is not always the one the dialog asked about |

Bounds of `screens`: two users, customers, views, devices or requests each, so that
one can be mistaken for the other; up to two requests of a kind on the wire (two
answers suffice to be out of order), three feed rows with pages of one, two minutes
of two ticks for the range inputs, a browser in the API's zone and one a minute to the
west of it, two row versions.

Where a property has an exception ("unless ..."), the exception is what the code
does not rule out; section 11 lists these cases.

## 10. What is proved

`LedgerProofs.tla` proves `LedgerSafe`: `LedgerSpec => []LedgerInv`. `LedgerInv`
is the conjunction of the types, `OncePerKey`, `ReverseOnce`, `NoOverdraft`,
`ReversalMirrors` and `SeqsBounded`; the last is needed so that the maximum in
`NextEntrySeq` exists. The existence of a greatest element is obtained from the
well-foundedness of `<` on `Nat`.

`LedgerPostingProofs.tla` proves `PostingSafe`: `Spec => []PostingInv`.
`OncePerKey` and `NoOverdraft` are not inductive on their own, because a commit
applies what was checked several steps earlier. `PostingInv` therefore says for
each program counter what the attempt may still rely on (`AttemptInv`: its plan
is well formed against the present ledger, its wallets are locked, its balance
check still holds, at `commit` its key, original and entry numbers are free) and
that locks and pending keys have one holder (`Exclusive`). The proof has one
lemma per action; `CommitOthers` is the heart: a commit cannot disturb what
another attempt has checked, since the two share no locked wallet. From it
follow `PostingTypeCorrect`, `PostsOncePerKey`, `ReversesOnce`,
`NeverOverdraws`, the refinement `PostingImplementsLedger`, and, with a
strengthening that a 201 is only present in state `replied`, `AnswersDurable`.
The assumptions are `LedgerAssumption` and `RequestAssumption`: wallet ids are
non-zero numbers, the maps are functions on the right sets, customer wallets
open non-negative. Nothing bounds the number of requests, keys or wallets.

`RefreshTokensProofs.tla` proves `TokensSafe` (`Spec => []TokensInv`). Beside one
live token per family, breadcrumbs in chains and complete revocation, `TokensInv`
needs what a handler may rely on between its statements (`HandlerInv`): the row it
read still names its user and family, and a running revocation has every older row
of its scope in its snapshot. The lemma `RowsKept` (rows never disappear, change
owner or come back to life) carries the argument from one handler to the others
(`OthersKeep`). From it follow `SingleWinner`, `RevocationComplete` and the
refinement `TokensImplementFamilies`. Assumptions: a positive TTL, and that `None`
is not a token.

`AuditChainProofs.tla` proves `GeneratorNeverRegresses` without any assumption on
the clock, and `AuditSafe` and `ChainStaysLinear` under `OneClock`: every writer in
one process, no backward step. Linearity is not inductive: the next append must
find the right row. `ChainInv` adds that rows are linked in the order they are read
in (`Linked`), that rows of the present millisecond have ids the generator is past
(`Dated`), and what each writer has read and minted under the lock. `LinkNext` is
the core: a row that continues the newest row and comes after all of them makes
a chain again. Neither half of `OneClock` can be dropped (sections 6 and 11).

Added to the ledger's theorems: `BooksAlwaysBalance` and, through the refinement,
`PostingBooksBalance`. What a wallet's entries add up to is a recursive function of the
history. The invariant `Derivable` says that some function satisfies its equation and
gives the balance, which each movement extends by one place; that there is only one
such function follows by taking the least place at which two would differ
(well-foundedness of `<`), so no induction principle is needed. `NeverDeadlocks` needs
`WalletAssumption` (wallet ids have a largest one): if all requests of
a set waited for one of the set, then whoever holds the highest wallet waited for would
itself wait for a higher one, since wallets are locked in ascending order; the lock on
an original comes before all wallet locks and the UNIQUE waits after them.
`AnswersMatchWhenPrompt` is about `PromptSpec`, the specification without
`StaleElapses`: it says precisely what the finding `posting_key_reuse` breaks. Its
invariant `PromptInv` has one owner of each pending key, whose body made the row.

`IdentityProofs.tla`. `LoginInv` adds to `LockoutSound` that the stored counter is the
number of failures since the last success, that a request about to lock has itself
counted the limit, and that a row read as "MFA off" implies it was off during the
request. `AccessInv` says what a half-built token and a running administration
transaction may still rely on: what a build has read is current unless a change
slipped past it (`BuildInv`), a token has no version from the future and one of the
present version has the present permissions (`TokenInv`), a transaction at its commit
bumps everybody it concerns but those who gained the role since (`BumpInv`), and what
`assertAdminSurvives` has counted is still so for a revoke on its own (`SurviveInv`).
`SeedAssumption`: the seed gives somebody each of the two administration permissions;
without it there is no administrator to survive.

For the second factor and password reset, in the same module, `MfaInv`: an accepted
backup code is spent in its row, an accepted TOTP code lies under the floor while the
floor only advances, and a request about to open a session is the only one that
consumed its challenge. `ResetInv`: the status of a request is its only decision, only
an approval is ever claimed, and a challenge that changed the password or is older
than a change is consumed. Assumptions: `CodesAssumption` (backup codes and TOTP codes
differ), at least one time step and one attempt, request ids are numbers.

`OfficeProofs.tla`, with one inductive invariant for each component:
- `CustomersInv`: the row an update has read is the present one or an older version,
  so where the stored version is the request's and not ahead of the row read, that row
  is the present one. That is what makes `CustomersEvolve` (no lost update) follow from
  the conditional UPDATE. The trail is a path for customers not `outpaced`.
- `ThrottlerInv`: a window can only reach into the present counter and the one before
  it, and each let at most the limit through. Cardinalities of two intervals add up to
  the bound of two budgets.
- `LiveInv`: what a stream lacks is unpublished or on its way to its instance, and no
  message on its way repeats what is there, unless its own instance will drop it.
- `NotesInv`: between check and insert a fan-out knows that the window was clear of
  duplicates among the rows it saw; later ones are the race.
- `PageInv`: between its statements `list()` knows where the boundary falls. The rest
  is about operators: `NewestFirst` lists every row once (ranks are distinct and every
  rank is taken), and a window of two joined lists is the join of two windows
  (`WindowInUnread`, `WindowInRead`, `WindowAcross`).
- `RetentionInv`: whoever prunes has the advisory lock on a connection of its own pool
  or is among the `lost`, all acquisitions of it are on one connection, and each row
  about to be deleted has `NoteCap` newer ones that stay, also when another instance
  deletes meanwhile. `OverflowCovered` counts them.
- `RollupInv`: what an undisturbed run has counted and written up to its statement,
  and that whoever writes beside it is undisturbed as well and so has counted the same
  (`Agreeing`): the lock is not needed for it. Sums are not evaluated: figures are
  compared as the same total of the same function. `RollupAssumption` includes that no
  run is called "none" and that currencies are finitely many. For the types alone the
  total is evaluated: `SumsExist` and `TotalBound` say what the fold gives and that it
  is at most the bound of a day times the number of currencies; both take a
  counterexample over the fewest currencies (`LeastNat`).

`NotificationServiceSound` and `NightJobsKeepPromises` put these together.

`ScreensProofs.tla`. `ForgotInv` ties the waiting overlay and the request on the wire
to the step of the wizard; `RiskInv` every screening, assessment and decision to the
address and customer they are of; `DevicesInv` an answered revoke to the server's
list, and `CodesInv` confirmed codes to none awaited; `RevealInv` data in clear to the
switch, and `WalletsInv` an update to the limits it was made from, each for answers
that are not `late`: these are about the customer of the route; `FormInv` the baseline
to the stored row of its version and the update on the wire to the controls;
`ListFlow` the one list request to the page's parameters, and `ListGone` a deletion to
every place its row could come back from; `WebInv` everything on the wire, the
token-less calls included, and the cookie to the user on screen; `PanelInv` the one
list request to the filters on the form since the last creation, or to an excuse of
the property.

All of this is for every value of the constants: any number of requests, operators,
rows, instances, browsers and answers on the wire. The bounds of section 2's
conventions are arbitrary numbers in the theorems. Beyond the named assumptions
quoted above, `ASSUME`s say only that bounds are numbers, limits are positive and
sentinels are no members of the sets they are used with.

`PanelInv` is about numbers, the API's instants of the bounds among them (`Instants`:
not earlier than the browser's unless its zone is behind); the panel's types need
besides that the end of the default range is at most a minute past the clock's last
(`DefaultsBound`). `FeedInv` (the notifications page): answers on the wire have no row
twice, and what is added is new (`NewOnesSound`). `DeskInv`: an open dialog asks about
a request.

The order of a listing is proved about in `RowOrderProofs.tla`: ranks are distinct,
bounded and all taken, so `NewestFirst` lists every row once.

*Types.* Each component's type invariant is a theorem, most of them from the
inductive invariant above plus the fields it leaves open (`...Rest`, `...Shape`,
`...Flags`), and `IdentityTypeCorrect`, `OfficeTypeCorrect` and `ScreensTypeCorrect`
conjoin them for the sums.

*What the violated statements need.* Six runs show that something the repository says
of the program does not hold as it stands. For each, a theorem names a condition under
which it does, so that together they say what is behind the violation:

| Run | Statement | Holds |
| --- | --- | --- |
| `posting_key_reuse` | `AnswerMatchesRequest` | if no key in progress outlives the stale limit: `AnswersMatchWhenPrompt` (`PromptSpec`) |
| `tokens_logout` | `LogoutEndsFamily` | if no refresh commits in the family while the logout's UPDATE runs: `LogoutEndsFamilyApart` (`ApartSpec`) |
| `rbac_last_admin` | `AdminSurvives` | as long as no two revokes overlap: `LastAdminSurvivesAlone` |
| `audit_two_processes` | `ChainLinear` | with one process whose clock does not step back: `ChainStaysLinear` (`OneClock`) |
| `stream_identity` | `NoForeignEvent` | if an operator signs in on a page only where neither stream nor cookie is left of another: `ClearedPagesKeepPrivacy` (`ClearedSpec`) |
| `reset_desk` | `DecidesWhatWasAsked` | if no detail of another request is answered while the dialog asks: `FocusedDecisionsMatch` (`FocusedSpec`) |

These conditions are restrictions of the program's behaviours that the code does not
enforce; nothing else in this directory assumes them. `ApartSpec` keeps a running
UPDATE's snapshot complete (`LogoutInv`), and `EndedStays`, drawn from the refinement
of `SessionFamily`, keeps the family ended. `ClearedInv` says that a page's stream and
cookie are of the operator signed in, `FocusInv` that an open dialog is about the
request selected, or none is.

What proving changed in the models. `Access` used to mark a build as raced when the
operator's effective permissions changed after the roles were read. That missed a
change of roles that leaves the permissions as they are and is followed by a grant to
the role left or gained: the token being built then carries a permission the operator
lacks. It also excused changes of grants not read yet. `SlipsPast` now names the window
by what the build has read, so that the exception of `AcceptedTokensCurrent` is no
wider and no narrower than it. The range of the rollup's counters (`Count`) left no room
for a newly enrolled customer on a day without movements, and was wider than needed
elsewhere. Sorted sequences of the community modules have no theorems, so the three
listings use `RowOrder`, where the place of a row is the number of newer ones. The sums
were part of the MC modules and are modules of their own so that theorems can speak of
them.

Only model-checked:
- the liveness properties `EveryRequestEnds` and `AbandonedKeyRecovers`: fairness and
  ENABLED are beyond the installed provers;
- that the six statements are violated without their condition: TLC's counterexamples.

The library's induction theorems cannot be instantiated by the installed provers. Where
a recursive function or a fold had to be evaluated (wallet balances, a day's total) the
proofs take a least counterexample instead, from the well-foundedness of `<` on `Nat`.

## 11. Observations without a run

Met while modelling; each follows from the lines named. Where a property excludes
the case, the property is given.

Posting and audit:
- A reclaimer that read a stale row may delete it after its owner completed it
  (`transactions.service.ts:127`); retries then get 409 instead of the stored
  response that `docs/architecture.md:150` promises. No money moves.
- A clock that is set back forks the audit chain even with one process:
  `created_at` is the raw clock (`audit.service.ts:60`), unlike the ids
  (`uuid.ts:17-19`).

Identity:
- A success that resets the counter and a failure that locks are separate
  statements; a process that dies between counting and locking leaves the limit
  reached without a lock until the next failure (`LockoutSound`, `lost`).
- The TOTP floor is written unconditionally outside sign-in
  (`mfa-management.service.ts:243`) and may go back behind a concurrent sign-in's,
  whose code is then accepted again (`CodesSpentOnce`, `floorBack`).
- `MfaEnrollmentService.start` and `confirm` decide on a row read earlier and write
  unconditionally: a start that writes between a confirm's read and write leaves MFA
  on with a secret no code was confirmed for; one that writes after it turns MFA off
  again. The header of the file says MFA is never active until the first correct
  code is confirmed.
- Each poll of an approval mints a challenge and the earlier ones stay usable, where
  the comment says "latest wins" (`password-reset-request.service.ts:232-233`); the
  first password change ends them all (`ChangeEndsChallenges`).

Back office:
- `update()` checks the KYC step and CLOSED on the row it has read, merges the absent
  fields from it and compares `rowVersion` with the row at the write only
  (`customers.service.ts:385,401-416,423-424`); the DTO takes any integer that is not
  negative (`customer-write.dto.ts:141-144`). A request with a version ahead of the row
  it has read, beside another update that commits in between, passes the WHERE: it can
  reopen a customer just closed, where lines 411-412 say "it must not be reopened via a
  status edit", turn a rejection into a verification, undo the other operator's fields
  and leave a gap in the KYC trail. The form sends the version it was loaded with, which
  is never ahead. `LifecycleLegal`, `UpdatesMerge` and `KycTrailUnbroken` except these
  commits (`Ahead`, `outpaced`) and nothing else.
- The transaction around the notification list is READ COMMITTED, so its statements
  do not share the consistent snapshot the comment at `notification.service.ts:238`
  speaks of (`PageIsWindow` is about pages during which nothing changes).
- The prune lock may be released on a connection that does not hold it
  (`notification-prune.scheduler.ts:64`); no instance prunes until the pool closes
  the one that does. Conversely the lock ends with its connection while the job goes on
  with others of the pool: a second instance may prune (`OnePruner`, `lost`), where the
  header says that exactly one instance acquires it and prunes. The rollup has the same
  gate.
- "A missed or duplicate run is safe" (`analytics-rollup.scheduler.ts:6-9`) does not
  hold of a duplicate run that overlaps: it may have counted before a change and write
  after the other, and the bucket stays stale until the next run (`clean`).
- The rollup of midnight counts the day that has just begun
  (`analytics-rollup.scheduler.ts:6-7,29`): an ended day keeps the value of the last
  run in it, and each statement takes the date for itself.

Browser:
- `auth.interceptor.ts:62-69` signs out when the retried call fails for any reason;
  its header (4-6) says "only if refresh itself fails". A refresh answered after a
  sign-out signs in again (`SessionCoherent`, `overlapped`).
- The interceptor refreshes for calls without a token too (`auth.interceptor.ts:47-62`),
  such as the stream's authorization after a sign-out. If that comes before `/auth/logout`
  took the cookie back, or `/auth/logout` failed, which `logout()` swallows
  (`auth.service.ts:303-306`), the refresh signs the user in again (`overlapped`).
- The panel's bounds travel as wall-clock times without a zone
  (`customer-transactions.component.ts:585-593,617-618`) and are read in the server's
  (`customer-transactions.query.ts:51-56`), while the hint compares them in the
  browser's (382-386). West of the server's zone the default range ends before the
  transaction just posted: it is not listed, and nobody is told (`NewRowShown`).
- An administrator request answered after the forgot-password screen was closed
  starts the poll timer of the destroyed screen, where line 164 of
  `forgot-password.component.ts` says that it must never outlive it.
- The feed may leave a gap: rows read between two pages move others to a page that
  has been loaded (`ItemsDistinct` is about repeats only).
- A reveal on the wire when the customer route changes is painted with the switch
  off (`customer-detail.component.ts:131,162-163`), and a wallet load of the previous
  customer may come in late, be taken for the new one's and its limits be saved over
  them (`DetailHonest`, `late`).
- Every click on "create" draws a fresh Idempotency-Key: a retry by hand after a lost
  answer is a new movement.
- Settings: leaving the page discards unsaved backup codes (line 246); preference
  saves may be answered out of order (644-660); a cancel's reload races a save
  (577-642). Cancelling the MFA wizard while its confirmation is on the wire says
  that nothing changed (703-717), though the server enables MFA and the codes are
  never seen; the late answer puts the codes into the destroyed wizard.
- A customer form whose load failed can be submitted with version 0 and is sent
  whole; after a 409 the form keeps its stale baseline (`UntouchedKept`).

## 12. Not modelled

`PROJECT.json` gives each part's status. Left out, and why:
- generated API types, DTO shapes, seeds, migrations' DDL, environment validation,
  build and developer scripts, Cypress support and tests: no behaviour of the
  running system of their own;
- HTML templates, charts, layout, menus, tables, theming, translations, the generic
  form component: presentation. What a template lets an operator do is in the guards
  of the screens' actions;
- dashboard, analytics page, catalog, transaction list, customer search: reads, with
  switchMap in the browser; the SQL aggregates are out of TLC's reach;
- envelope encryption, masking, e-mail, formatting of amounts, address checksums and
  the wallet provider of the risk screen: stateless conversions or external;
- role creation, operator profile, preferences and risk records on the server:
  single-row writes with an audit append;
- customer creation, profile and preference forms in the browser: one request at a
  time and nothing read before; the MFA enrolment wizard: section 11.

About an eighth of the implementation's lines is mapped. The remainder is mostly the
first four items of this list.
