------------------------------ MODULE Retention -----------------------------
(***************************************************************************)
(* The nightly retention prune of notifications: NotificationService.prune *)
(* run by NotificationPruneScheduler of every API instance behind a        *)
(* session-level advisory lock, each statement on whichever connection the *)
(* pool hands out.  The lock ends with the connection that took it, which  *)
(* the prune does not notice.  Rows keep arriving.                         *)
(* AnalyticsRollupScheduler gates its rollup with the same code.           *)
(***************************************************************************)
EXTENDS Integers, Sequences, FiniteSets, RowOrder

CONSTANTS
    Recipient,       \* operators with notifications
    PruneCall,       \* scheduler runs, one of each instance
    Connection,      \* [PruneCall -> set]: connections of the instance's pool
    RetentionTicks,  \* NOTIFICATION_RETENTION_DAYS
    NoteCap,         \* NOTIFICATION_RETENTION_MAX_PER_RECIPIENT
    KeptBound,       \* rows ever created
    NightBound       \* last night

ASSUME RetentionAssumption ==
    /\ Connection \in [PruneCall -> SUBSET UNION {Connection[p] : p \in PruneCall}]
    /\ \A p, q \in PruneCall : p # q => Connection[p] \cap Connection[q] = {}
    /\ {RetentionTicks, KeptBound, NightBound} \subseteq Nat
    /\ NoteCap \in Nat \ {0}

VARIABLES
    kept,       \* rows in the order of their creation; live is FALSE once deleted
    night,      \* now
    prunes,     \* scheduler run -> its state
    pruneLock,  \* connections holding the advisory lock, one entry per acquisition
    lost        \* observer: the runs under way whose lock went with its connection

keptVars == <<kept, night, prunes, pruneLock, lost>>

-----------------------------------------------------------------------------
Conn == UNION {Connection[p] : p \in PruneCall}
KeptRow == [to : Recipient, born : 0..NightBound, live : BOOLEAN]
PruneState == [at : {"idle", "locked", "aged", "cap", "unlock"}, ran : 0..NightBound,
               todo : SUBSET Recipient, over : SUBSET (1..KeptBound)]
IdlePrune == [at |-> "idle", ran |-> 0, todo |-> {}, over |-> {}]

RetentionTypeOK ==
    /\ kept \in Seq(KeptRow) /\ Len(kept) <= KeptBound
    /\ night \in 0..NightBound
    /\ prunes \in [PruneCall -> PruneState]
    /\ pruneLock \in Seq(Conn)
    /\ lost \subseteq PruneCall

RetentionInit ==
    /\ kept = <<>>
    /\ night = 0
    /\ prunes = [p \in PruneCall |-> IdlePrune]
    /\ pruneLock = <<>>
    /\ lost = {}

-----------------------------------------------------------------------------
\* Rows of a recipient.
KeptOf(u) == {i \in DOMAIN kept : kept[i].live /\ kept[i].to = u}

\* emit inserts a row.
Arrive(u) ==
    /\ Len(kept) < KeptBound
    /\ kept' = Append(kept, [to |-> u, born |-> night, live |-> TRUE])
    /\ UNCHANGED <<night, prunes, pruneLock, lost>>

Delete(S) == kept' = [i \in DOMAIN kept |-> [kept[i] EXCEPT !.live = @ /\ i \notin S]]

\* pg_try_advisory_lock on connection c: free, or held by the same session.
LockAvailable(c) == \A i \in DOMAIN pruneLock : pruneLock[i] = c

\* runRetentionPrune, once a night, on whichever connection the pool hands out.
StartPrune(p, c) ==
    /\ prunes[p].at = "idle"
    /\ prunes[p].ran < night
    /\ LockAvailable(c)
    /\ pruneLock' = Append(pruneLock, c)
    /\ prunes' = [prunes EXCEPT ![p].at = "locked", ![p].ran = night]
    /\ UNCHANGED <<kept, night, lost>>

\* (a) rows past the retention age, and the recipients over the cap.
PruneByAge(p) ==
    /\ prunes[p].at = "locked"
    /\ prunes' = [prunes EXCEPT ![p].at = "aged"]
    /\ Delete({i \in DOMAIN kept : kept[i].born < night - RetentionTicks})
    /\ UNCHANGED <<night, pruneLock, lost>>

FindOverCap(p) ==
    /\ prunes[p].at = "aged"
    /\ prunes' = [prunes EXCEPT ![p].at = "cap",
                      ![p].todo = {u \in Recipient : Cardinality(KeptOf(u)) > NoteCap}]
    /\ UNCHANGED <<kept, night, pruneLock, lost>>

\* (b) the rows of one recipient beyond the newest NoteCap: ORDER BY created_at DESC,
\* OFFSET NoteCap.
Overflow(u) == {i \in KeptOf(u) : Cardinality(Newer(KeptOf(u), i)) >= NoteCap}

FindOverflow(p, u) ==
    /\ prunes[p].at = "cap"
    /\ prunes[p].over = {}
    /\ u \in prunes[p].todo
    /\ prunes' = [prunes EXCEPT ![p].todo = @ \ {u}, ![p].over = Overflow(u)]
    /\ UNCHANGED <<kept, night, pruneLock, lost>>

DeleteOverflow(p) ==
    /\ prunes[p].over # {}
    /\ prunes' = [prunes EXCEPT ![p].over = {}]
    /\ Delete(prunes[p].over)
    /\ UNCHANGED <<night, pruneLock, lost>>

\* The prune is through, or failed somewhere: the finally block.
EndPrune(p) ==
    /\ prunes[p].at # "idle"
    /\ prunes' = [prunes EXCEPT ![p].at = "unlock", ![p].todo = {}, ![p].over = {}]
    /\ UNCHANGED <<kept, night, pruneLock, lost>>

\* pg_advisory_unlock on whichever connection the pool hands out: it releases
\* nothing when that is not the one that acquired.
UnlockPrune(p, c) ==
    /\ prunes[p].at = "unlock"
    /\ pruneLock' = IF \E i \in DOMAIN pruneLock : pruneLock[i] = c THEN Tail(pruneLock)
                    ELSE pruneLock
    /\ prunes' = [prunes EXCEPT ![p].at = "idle"]
    /\ lost' = lost \ {p}
    /\ UNCHANGED <<kept, night>>

\* The pool closes the connection that holds the lock, which is idle between lock and
\* unlock, or it drops: PostgreSQL releases the lock, and a run goes on without it.
DropConnection(c) ==
    /\ \E i \in DOMAIN pruneLock : pruneLock[i] = c
    /\ pruneLock' = <<>>
    /\ lost' = lost \cup {p \in PruneCall : c \in Connection[p] /\ prunes[p].at # "idle"}
    /\ UNCHANGED <<kept, night, prunes>>

NightFalls ==
    /\ night < NightBound
    /\ night' = night + 1
    /\ UNCHANGED <<kept, prunes, pruneLock, lost>>

RetentionNext ==
    \/ \E u \in Recipient : Arrive(u)
    \/ \E p \in PruneCall :
         \/ \E c \in Connection[p] : StartPrune(p, c) \/ UnlockPrune(p, c)
         \/ PruneByAge(p) \/ FindOverCap(p) \/ DeleteOverflow(p) \/ EndPrune(p)
         \/ \E u \in Recipient : FindOverflow(p, u)
    \/ \E c \in Conn : DropConnection(c)
    \/ NightFalls

RetentionSpec == RetentionInit /\ [][RetentionNext]_keptVars

-----------------------------------------------------------------------------
\* The prune deletes only rows past the retention age or with NoteCap newer rows of the
\* same recipient still there, though rows keep arriving between its statements and,
\* once a lock is lost, another instance deletes in between.
PruneKeepsNewest ==
    [][\A i \in DOMAIN kept :
          kept[i].live /\ ~kept'[i].live =>
            \/ kept[i].born < night - RetentionTicks
            \/ Cardinality({k \in DOMAIN kept' : /\ k > i
                                                  /\ kept'[k].live
                                                  /\ kept'[k].to = kept[i].to}) >= NoteCap]_keptVars

\* Two instances prune at once only if one of them has lost its lock: whichever
\* connections acquire and release, a lock that stays with its connection excludes.
OnePruner ==
    \A p, q \in PruneCall :
        prunes[p].at # "idle" /\ prunes[q].at # "idle" /\ p # q => p \in lost \/ q \in lost
================================================================================
