------------------------------- MODULE Rollup -------------------------------
(***************************************************************************)
(* The daily metrics: AnalyticsRollupScheduler of every API instance runs  *)
(* rollupDailyMetrics behind an advisory lock, statement by statement and  *)
(* outside a transaction, while customers and transactions keep changing.  *)
(* No statement is given a date: each takes the database's day of its own. *)
(* The lock ends with the connection that took it, and runs then overlap.  *)
(***************************************************************************)
EXTENDS Integers, FiniteSets, FiniteSetsExt, Functions

CONSTANTS
    RollupRun,       \* scheduler runs, one of each instance
    VolumeCurrency,  \* currencies
    LastDay,         \* bound on the day
    MovementBound    \* bound on the movements of a currency, and on reversals

ASSUME RollupAssumption ==
    /\ LastDay \in Nat /\ MovementBound \in Nat /\ "none" \notin RollupRun
    /\ IsFiniteSet(VolumeCurrency)

VARIABLES
    day,         \* (now() AT TIME ZONE 'UTC')::date
    posted,      \* day, currency -> transactions POSTED, reversals left out
    reversals,   \* day -> reversals, POSTED too
    enrolled,    \* day -> live customers created on it
    scalars,     \* day, metric -> metric_daily rows without a dimension
    volumes,     \* day, currency -> metric_daily rows of transactions_volume_minor_daily
    rollups,     \* run -> its state
    rollupLock   \* the run whose session holds the advisory lock, or none

rollupVars == <<day, posted, reversals, enrolled, scalars, volumes, rollups, rollupLock>>
sourceVars == <<posted, reversals, enrolled>>

-----------------------------------------------------------------------------
Day == 0..LastDay
NoRow == -1
NoRun == "none"

\* The metrics without a dimension, in the order they are written.  (The totals of
\* customers and of active ones are counted and written like the new ones.)
Scalar == <<"new", "transactions">>

\* One customer, or the movements of a day in every currency and its reversals: a bound.
Count == 0..(MovementBound * Cardinality(VolumeCurrency) + MovementBound + 1)
Counted == [{"new", "transactions"} -> Count]
Volumes == [VolumeCurrency -> 0..MovementBound]

\* day, clean: observers, the day the run began and whether the day and its source
\* have stayed as they were, and no run that counted before was then still writing.
RollupState ==
    [at : {"idle", "volume", "write", "replace", "done"}, ran : Day \cup {NoRow},
     row : Counted, vols : Volumes, next : 1..2, day : Day, clean : BOOLEAN]

RollupTypeOK ==
    /\ day \in Day
    /\ posted \in [Day -> Volumes]
    /\ reversals \in [Day -> 0..MovementBound]
    /\ enrolled \in [Day -> 0..1]
    /\ scalars \in [Day -> [{"new", "transactions"} -> Count \cup {NoRow}]]
    /\ volumes \in [Day -> [VolumeCurrency -> 0..MovementBound \cup {NoRow}]]
    /\ rollups \in [RollupRun -> RollupState]
    /\ rollupLock \in RollupRun \cup {NoRun}

IdleRollup ==
    [at |-> "idle", ran |-> NoRow, row |-> [m \in {"new", "transactions"} |-> 0],
     vols |-> [c \in VolumeCurrency |-> 0], next |-> 1, day |-> 0, clean |-> FALSE]

RollupInit ==
    /\ day = 0
    /\ posted = [d \in Day |-> [c \in VolumeCurrency |-> 0]]
    /\ reversals = [d \in Day |-> 0]
    /\ enrolled = [d \in Day |-> 0]
    /\ scalars = [d \in Day |-> [m \in {"new", "transactions"} |-> NoRow]]
    /\ volumes = [d \in Day |-> [c \in VolumeCurrency |-> NoRow]]
    /\ rollups = [r \in RollupRun |-> IdleRollup]
    /\ rollupLock = NoRun

-----------------------------------------------------------------------------
\* What the statements count: POSTED transactions that occurred on day d, a reversal
\* among them, and the amounts (here one each) of those that are no reversals.
Total(amounts) == FoldFunction(+, 0, amounts)
TransactionsOf(d) == Total(posted[d]) + reversals[d]
CountedOf(d) ==
    [m \in {"new", "transactions"} |-> IF m = "new" THEN enrolled[d] ELSE TransactionsOf(d)]

\* What getDailyMetrics serves for day d: the sum over the dimensions.
ServedVolume(d) ==
    Total([c \in VolumeCurrency |-> IF volumes[d][c] = NoRow THEN 0 ELSE volumes[d][c]])

\* The runs are told (as observers) that the day or something they count has changed.
Disturb == rollups' = [r \in RollupRun |-> [rollups[r] EXCEPT !.clean = FALSE]]

\* post() commits a movement today; new ones come up to the bound of all days.
PostToday(c) ==
    /\ \A d \in Day : posted[d][c] < MovementBound /\ reversals[d] < MovementBound
    /\ posted' = [posted EXCEPT ![day][c] = @ + 1]
    /\ Disturb
    /\ UNCHANGED <<day, reversals, enrolled, scalars, volumes, rollupLock>>

\* A movement of day d is reversed today: it is REVERSED, its reversal is POSTED.
ReverseOf(d, c) ==
    /\ posted[d][c] > 0
    /\ reversals[day] < MovementBound
    /\ posted' = [posted EXCEPT ![d][c] = @ - 1]
    /\ reversals' = [reversals EXCEPT ![day] = @ + 1]
    /\ Disturb
    /\ UNCHANGED <<day, enrolled, scalars, volumes, rollupLock>>

\* A customer is created today, or deleted: one at a time.
Enrol ==
    /\ \A d \in Day : enrolled[d] = 0
    /\ enrolled' = [enrolled EXCEPT ![day] = 1]
    /\ Disturb
    /\ UNCHANGED <<day, posted, reversals, scalars, volumes, rollupLock>>

Leave(d) ==
    /\ enrolled[d] = 1
    /\ enrolled' = [enrolled EXCEPT ![d] = 0]
    /\ Disturb
    /\ UNCHANGED <<day, posted, reversals, scalars, volumes, rollupLock>>

Midnight ==
    /\ day < LastDay
    /\ day' = day + 1
    /\ Disturb
    /\ UNCHANGED <<sourceVars, scalars, volumes, rollupLock>>

-----------------------------------------------------------------------------
\* The run counts and writes.
Writing(r) == rollups[r].at \notin {"idle", "done"}

\* runDailyRollup, once a day of the instance's own clock and time zone.  The lock is
\* free, or held by a session of the same instance; the first statement counts.
StartRollup(r) ==
    /\ rollups[r].at = "idle" /\ rollups[r].ran # day
    /\ rollupLock \in {NoRun, r}
    /\ rollupLock' = r
    /\ rollups' = [rollups EXCEPT ![r] =
         [IdleRollup EXCEPT !.at = "volume", !.ran = day, !.row = CountedOf(day),
                            !.day = day,
                            !.clean = \A s \in RollupRun : Writing(s) => rollups[s].clean]]
    /\ UNCHANGED <<day, sourceVars, scalars, volumes>>

\* Another session holds the lock, of another instance or one this instance has not
\* managed to unlock: skipped until the next day.
SkipRollup(r) ==
    /\ rollups[r].at = "idle" /\ rollups[r].ran # day
    /\ rollupLock # NoRun
    /\ rollups' = [rollups EXCEPT ![r].ran = day]
    /\ UNCHANGED <<day, sourceVars, scalars, volumes, rollupLock>>

CountVolume(r) ==
    /\ rollups[r].at = "volume"
    /\ rollups' = [rollups EXCEPT ![r].at = "write", ![r].vols = posted[day]]
    /\ UNCHANGED <<day, sourceVars, scalars, volumes, rollupLock>>

\* upsertDailyMetric of the next metric, into the bucket of the day it now is.
WriteScalar(r) ==
    LET m == Scalar[rollups[r].next] IN
    /\ rollups[r].at = "write"
    /\ scalars' = [scalars EXCEPT ![day][m] = rollups[r].row[m]]
    /\ \/ rollups[r].next < 2 /\ rollups' = [rollups EXCEPT ![r].next = @ + 1]
       \/ rollups[r].next = 2 /\ rollups' = [rollups EXCEPT ![r].at = "replace"]
    /\ UNCHANGED <<day, sourceVars, volumes, rollupLock>>

\* Mutant: the rows are upserted over those there are.
UpsertOver(old, vols) == [c \in VolumeCurrency |-> IF vols[c] = 0 THEN old[c] ELSE vols[c]]

\* replaceDimensionedDailyMetric, one transaction: the bucket's rows are deleted and
\* one inserted for every currency with a volume.
Replacing(old, vols) == [c \in VolumeCurrency |-> IF vols[c] = 0 THEN NoRow ELSE vols[c]]

ReplaceVolumes(r) ==
    /\ rollups[r].at = "replace"
    /\ volumes' = [volumes EXCEPT ![day] = Replacing(@, rollups[r].vols)]
    /\ rollups' = [rollups EXCEPT ![r] =
         [IdleRollup EXCEPT !.at = "done", !.ran = rollups[r].ran,
                            !.day = rollups[r].day, !.clean = rollups[r].clean]]
    /\ UNCHANGED <<day, sourceVars, scalars, rollupLock>>

\* A statement fails, or the instance dies: whatever has been written stays.
RollupFails(r) ==
    /\ Writing(r)
    /\ rollups' = [rollups EXCEPT ![r] = [IdleRollup EXCEPT !.at = "done", !.ran = rollups[r].ran]]
    /\ UNCHANGED <<day, sourceVars, scalars, volumes, rollupLock>>

\* The finally block: the unlock may run on another connection of the pool than the one
\* that locked, and then releases nothing.
EndRollup(r, released) ==
    /\ rollups[r].at = "done"
    /\ rollups' = [rollups EXCEPT ![r] = [IdleRollup EXCEPT !.ran = rollups[r].ran]]
    /\ rollupLock' = IF released /\ rollupLock = r THEN NoRun ELSE rollupLock
    /\ UNCHANGED <<day, sourceVars, scalars, volumes>>

\* The connection that holds the lock closes or drops, and the lock with it; the run
\* goes on, on the other connections of the pool.
LoseRollupLock ==
    /\ rollupLock # NoRun
    /\ rollupLock' = NoRun
    /\ UNCHANGED <<day, sourceVars, scalars, volumes, rollups>>

RollupNext ==
    \/ \E c \in VolumeCurrency : PostToday(c) \/ \E d \in 0..day : ReverseOf(d, c)
    \/ Enrol \/ Midnight
    \/ \E d \in 0..day : Leave(d)
    \/ LoseRollupLock
    \/ \E r \in RollupRun :
         \/ StartRollup(r) \/ SkipRollup(r) \/ CountVolume(r) \/ WriteScalar(r)
         \/ ReplaceVolumes(r) \/ RollupFails(r)
         \/ \E released \in BOOLEAN : EndRollup(r, released)

RollupSpec == RollupInit /\ [][RollupNext]_rollupVars

-----------------------------------------------------------------------------
\* A run that nothing disturbs leaves the bucket of its day exact, whatever earlier,
\* failed or crossed runs have left there: no count twice, no currency that is gone.
\* It holds too of runs that overlap after a lock was lost, if they counted the same.
RollupConverges ==
    \A r \in RollupRun :
        rollups[r].at = "done" /\ rollups[r].clean =>
            /\ scalars[rollups[r].day] = CountedOf(rollups[r].day)
            /\ ServedVolume(rollups[r].day) = Total(posted[rollups[r].day])
=============================================================================
