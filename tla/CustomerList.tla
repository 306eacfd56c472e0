---------------------------- MODULE CustomerList ----------------------------
(***************************************************************************)
(* The customer list: the page (filter controls, URL, reveal switch,       *)
(* delete dialog) over the store slice that loads with switchMap, deletes  *)
(* with concatMap and reloads after a deletion.  The slice outlives the    *)
(* page.  Filter, page and search are one "view" here.                     *)
(***************************************************************************)
EXTENDS Naturals, Sequences, FiniteSets

CONSTANTS
    ListRow,     \* customers
    ListView,    \* settings of filter, page and search
    FirstView,   \* the view of a URL without parameters
    NoView,      \* no navigation under way
    ShownIn,     \* external: view -> customers the API lists for it
    DeleteBound  \* deletions queued at once

ASSUME CustomerListAssumption ==
    /\ FirstView \in ListView
    /\ NoView \notin ListView
    /\ ShownIn \in [ListView -> SUBSET ListRow]
    /\ DeleteBound \in Nat

VARIABLES
    mounted,     \* the page is open
    view,        \* what its controls show
    navigation,  \* the URL a navigation is bringing, or NoView
    reveal,      \* the reveal switch
    target,      \* the customer of the delete dialog: at most one
    rows,        \* store: data, the customers listed
    unmasked,    \* store: those rows carry personal data in clear
    loadFailed,  \* store: error # null
    lastParams,  \* store: [view, reveal] of the last load; NoView before any
    loads,       \* list requests whose answers will be applied
    deletions,   \* deletions under way, the first one on the wire
    deletingId,  \* store: the customer last sent for deletion: at most one
    listed,      \* external: customers that exist
    rowsOf,      \* observer: the parameters the rows were asked for with
    goneFor      \* observer: customers whose deletion succeeded here

pageVars == <<mounted, view, navigation, reveal, target>>
listVars == <<pageVars, rows, unmasked, loadFailed, lastParams, loads, deletions,
              deletingId, listed, rowsOf, goneFor>>

-----------------------------------------------------------------------------
Params == [view : ListView, reveal : BOOLEAN]
NoParams == [view |-> NoView, reveal |-> FALSE]
ListLoad == [params : Params, at : {"sent", "ok", "error"}, rows : SUBSET ListRow]
Deletion == [id : ListRow, at : {"sent", "ok", "error"}]

ListTypeOK ==
    /\ mounted \in BOOLEAN /\ reveal \in BOOLEAN
    /\ view \in ListView /\ navigation \in ListView \cup {NoView}
    /\ target \subseteq ListRow /\ Cardinality(target) <= 1
    /\ deletingId \subseteq ListRow /\ Cardinality(deletingId) <= 1
    /\ rows \subseteq ListRow /\ listed \subseteq ListRow /\ goneFor \subseteq ListRow
    /\ unmasked \in BOOLEAN /\ loadFailed \in BOOLEAN
    /\ lastParams \in Params \cup {NoParams} /\ rowsOf \in Params \cup {NoParams}
    /\ loads \subseteq ListLoad
    /\ deletions \in Seq(Deletion) /\ Len(deletions) <= DeleteBound

ListInit ==
    /\ mounted = FALSE /\ reveal = FALSE
    /\ view = FirstView /\ navigation = NoView
    /\ target = {} /\ deletingId = {} /\ rows = {} /\ goneFor = {}
    /\ listed = ListRow
    /\ unmasked = FALSE /\ loadFailed = FALSE
    /\ lastParams = NoParams /\ rowsOf = NoParams
    /\ loads = {} /\ deletions = <<>>

-----------------------------------------------------------------------------
\* Mutant: mergeMap, so that an earlier answer is still applied.
MergeTo(load) == loads \cup {load}

\* load$: switchMap drops the request before.
SwitchTo(load) == {load}

\* loadCustomers: revealed rows go when the next load is masked.
RowsWhileLoading(p, base) == IF lastParams.reveal /\ ~p.reveal THEN {} ELSE base

\* The reducer and the effect on loadCustomers, over the rows base.
Load(p, base) ==
    /\ rows' = RowsWhileLoading(p, base)
    /\ unmasked' = (unmasked /\ rows' # {})
    /\ loadFailed' = FALSE
    /\ lastParams' = p
    /\ loads' = SwitchTo([params |-> p, at |-> "sent", rows |-> {}])

StoreRests == UNCHANGED <<rows, unmasked, loadFailed, lastParams, loads, rowsOf>>

\* ngOnInit: the controls take the URL's values and the list loads, masked.
OpenList(v) ==
    /\ ~mounted
    /\ mounted' = TRUE
    /\ view' = v
    /\ reveal' = FALSE
    /\ navigation' = NoView
    /\ target' = {}
    /\ Load([view |-> v, reveal |-> FALSE], rows)
    /\ UNCHANGED <<deletions, deletingId, listed, rowsOf, goneFor>>

LeaveList ==
    /\ mounted
    /\ mounted' = FALSE
    /\ UNCHANGED <<view, navigation, reveal, target, deletions, deletingId, listed, goneFor>>
    /\ StoreRests

\* A control, or the paginator, changes: updateQueryParams starts a navigation,
\* which replaces one that has not finished.
ChangeView(v) ==
    /\ mounted
    /\ v # view
    /\ view' = v
    /\ navigation' = v
    /\ UNCHANGED <<mounted, reveal, target, deletions, deletingId, listed, goneFor>>
    /\ StoreRests

\* The search box, debounced: the list loads at once, and the navigation beside it
\* does nothing when the URL is the same, as the search text never enters it.
Search(v) ==
    /\ mounted
    /\ v # view
    /\ view' = v
    /\ \/ navigation' = v
       \/ navigation = NoView /\ UNCHANGED navigation
    /\ Load([view |-> v, reveal |-> reveal], rows)
    /\ UNCHANGED <<mounted, reveal, target, deletions, deletingId, listed, rowsOf, goneFor>>

\* queryParamMap emits: the controls follow the URL and the list loads.
Navigated ==
    /\ mounted
    /\ navigation # NoView
    /\ view' = navigation
    /\ navigation' = NoView
    /\ Load([view |-> navigation, reveal |-> reveal], rows)
    /\ UNCHANGED <<mounted, reveal, target, deletions, deletingId, listed, rowsOf, goneFor>>

\* toggleReveal.
ToggleReveal ==
    /\ mounted
    /\ reveal' = ~reveal
    /\ Load([view |-> view, reveal |-> ~reveal], rows)
    /\ UNCHANGED <<mounted, view, navigation, target, deletions, deletingId, listed, rowsOf, goneFor>>

\* A signal of the stream: load() with what the controls show.
LiveReload ==
    /\ mounted
    /\ Load([view |-> view, reveal |-> reveal], rows)
    /\ UNCHANGED <<pageVars, deletions, deletingId, listed, rowsOf, goneFor>>

\* external: the API answers a list request with the customers of that moment.
AnswerLoad(l, r) ==
    /\ l.at = "sent"
    /\ loads' = (loads \ {l}) \cup
           {[l EXCEPT !.at = r, !.rows = IF r = "ok" THEN ShownIn[l.params.view] \cap listed
                                         ELSE {}]}
    /\ UNCHANGED <<pageVars, rows, unmasked, loadFailed, lastParams, deletions, deletingId,
                   listed, rowsOf, goneFor>>

\* loadCustomersSuccess and loadCustomersFailure.
ApplyLoad(l) ==
    /\ l.at # "sent"
    /\ loads' = loads \ {l}
    /\ \/ /\ l.at = "ok"
          /\ rows' = l.rows
          /\ unmasked' = (l.params.reveal /\ l.rows # {})
          /\ loadFailed' = FALSE
          /\ rowsOf' = l.params
       \/ /\ l.at = "error"
          /\ loadFailed' = TRUE
          /\ UNCHANGED <<rows, unmasked, rowsOf>>
    /\ UNCHANGED <<pageVars, lastParams, deletions, deletingId, listed, goneFor>>

OpenDelete(c) ==
    /\ mounted
    /\ target = {}
    /\ c \in rows
    /\ target' = {c}
    /\ UNCHANGED <<mounted, view, navigation, reveal, deletions, deletingId, listed, goneFor>>
    /\ StoreRests

CloseDelete ==
    /\ mounted
    /\ target # {}
    /\ target' = {}
    /\ UNCHANGED <<mounted, view, navigation, reveal, deletions, deletingId, listed, goneFor>>
    /\ StoreRests

\* confirmDelete, unless the dialog shows that deletion as loading: delete$ queues
\* behind the deletions before it (concatMap).
ConfirmDelete(c) ==
    /\ mounted
    /\ c \in target
    /\ c \notin deletingId
    /\ Len(deletions) < DeleteBound
    /\ deletions' = Append(deletions, [id |-> c, at |-> "sent"])
    /\ deletingId' = {c}
    /\ UNCHANGED <<pageVars, listed, goneFor>>
    /\ StoreRests

\* external: the API deletes, or refuses.
AnswerDelete ==
    /\ deletions # <<>>
    /\ Head(deletions).at = "sent"
    /\ \/ /\ Head(deletions).id \in listed
          /\ deletions' = [deletions EXCEPT ![1].at = "ok"]
          /\ listed' = listed \ {Head(deletions).id}
       \/ /\ deletions' = [deletions EXCEPT ![1].at = "error"]
          /\ UNCHANGED listed
    /\ UNCHANGED <<pageVars, deletingId, goneFor>>
    /\ StoreRests

\* reloadAfterDelete$: the current view is loaded again.
ReloadAfterDelete(base) == Load(lastParams, base)

\* deleteCustomerSuccess, the reload it triggers and the dialog it closes.
DeleteSucceeds ==
    /\ deletions # <<>>
    /\ Head(deletions).at = "ok"
    /\ deletions' = Tail(deletions)
    /\ deletingId' = {}
    /\ goneFor' = goneFor \cup {Head(deletions).id}
    /\ ReloadAfterDelete(rows \ {Head(deletions).id})
    /\ target' = IF mounted THEN target \ {Head(deletions).id} ELSE target
    /\ UNCHANGED <<mounted, view, navigation, reveal, listed, rowsOf>>

DeleteFails ==
    /\ deletions # <<>>
    /\ Head(deletions).at = "error"
    /\ deletions' = Tail(deletions)
    /\ deletingId' = {}
    /\ UNCHANGED <<pageVars, listed, goneFor>>
    /\ StoreRests

ListNext ==
    \/ \E v \in ListView : OpenList(v) \/ ChangeView(v) \/ Search(v)
    \/ LeaveList \/ Navigated \/ ToggleReveal \/ LiveReload
    \/ \E l \in loads : ApplyLoad(l) \/ \E r \in {"ok", "error"} : AnswerLoad(l, r)
    \/ \E c \in ListRow : OpenDelete(c) \/ ConfirmDelete(c)
    \/ CloseDelete \/ AnswerDelete \/ DeleteSucceeds \/ DeleteFails

ListSpec == ListInit /\ [][ListNext]_listVars

-----------------------------------------------------------------------------
\* A page with the reveal switch off never shows personal data in clear, whatever was
\* revealed before, by this visit or an earlier one, and whichever answers are late.
MaskedMeansMasked == mounted /\ ~reveal => ~unmasked

\* A customer whose deletion succeeded never comes back into the list, also when a list
\* request was on the wire at that moment.
DeletedStaysGone == rows \cap goneFor = {}

\* When nothing is under way and the last load did not fail, the rows belong to the view
\* and the reveal switch on screen.
ListShowsView ==
    mounted /\ navigation = NoView /\ loads = {} /\ ~loadFailed =>
        rowsOf = [view |-> view, reveal |-> reveal]

\* The list on screen is the one asked for, without what was deleted or hidden.
ListHonest == MaskedMeansMasked /\ DeletedStaysGone /\ ListShowsView
=============================================================================
