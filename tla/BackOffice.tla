----------------------------- MODULE BackOffice -----------------------------
(***************************************************************************)
(* The back office's components: the audit chain, customers, notifications *)
(* with their list and their retention, the rate limiter, live events and  *)
(* the nightly rollup.  They share no variable and every property speaks   *)
(* of the notification service, the nightly jobs or one component, so a    *)
(* behaviour in which one acts and the others rest in their initial state  *)
(* shows all there is to see of it; the sum has the behaviours of each.    *)
(***************************************************************************)
EXTENDS AuditChain, Customers, Notifications, NotificationPage, Retention, Rollup,
        Throttler, LiveEvents

VARIABLE acting  \* the component that acts

OfficeInit ==
    /\ acting \in {"audit", "customers", "notes", "page", "retention", "throttler", "live",
                   "rollup"}
    /\ Init /\ CustomersInit /\ NoteInit /\ PageInit /\ RetentionInit
    /\ ThrottlerInit /\ LiveInit /\ RollupInit

Only(part) ==
    /\ acting = part /\ UNCHANGED acting
    /\ part # "audit" => UNCHANGED vars
    /\ part # "customers" => UNCHANGED customerVars
    /\ part # "notes" => UNCHANGED noteVars
    /\ part # "page" => UNCHANGED inboxVars
    /\ part # "retention" => UNCHANGED keptVars
    /\ part # "throttler" => UNCHANGED throttleVars
    /\ part # "live" => UNCHANGED liveVars
    /\ part # "rollup" => UNCHANGED rollupVars

OfficeNext ==
    \/ Only("audit") /\ Next
    \/ Only("customers") /\ CustomersNext
    \/ Only("notes") /\ NoteNext
    \/ Only("page") /\ PageNext
    \/ Only("retention") /\ RetentionNext
    \/ Only("throttler") /\ ThrottlerNext
    \/ Only("live") /\ LiveNext
    \/ Only("rollup") /\ RollupNext

officeVars == <<acting, vars, customerVars, noteVars, inboxVars, keptVars, throttleVars,
                liveVars, rollupVars>>

OfficeSpec == OfficeInit /\ [][OfficeNext]_officeVars

\* The type invariant of the component that acts; AuditChain's is part of ChainInv.
OfficeTypeOK ==
    /\ acting = "customers" => CustomersTypeOK
    /\ acting = "notes" => NoteTypeOK
    /\ acting = "page" => PageTypeOK
    /\ acting = "retention" => RetentionTypeOK
    /\ acting = "throttler" => ThrottlerTypeOK
    /\ acting = "live" => LiveTypeOK
    /\ acting = "rollup" => RollupTypeOK

-----------------------------------------------------------------------------
\* The notification service: who is told, how often, and what a page shows.
NotificationsSound == FanOutReachesOptedIn /\ DuplicatesOnlyByRace /\ PageIsWindow

\* The nightly jobs: the prune gate lets one instance at a time delete as long as its
\* lock lasts, and what is deleted is past its time or beyond the cap even when the lock
\* was lost; the rollup leaves the figures of its day.
NightJobsSound ==
    PruneKeepsNewest /\ [][OnePruner' /\ RollupConverges']_<<keptVars, rollupVars>>
=============================================================================
