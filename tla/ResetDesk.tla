----------------------------- MODULE ResetDesk -----------------------------
(***************************************************************************)
(* The administrator's desk for password-reset requests: the list, the     *)
(* detail of one request, and the confirm dialog of a decision.  Details   *)
(* are fetched by row clicks, deep links and reloads; no fetch cancels     *)
(* another, and the last answer to arrive is the one selected.             *)
(***************************************************************************)
EXTENDS Naturals, FiniteSets

CONSTANTS
    DeskRequest,   \* password-reset requests
    NoRequest,     \* null
    FetchBound     \* bound on lists, and on details, on the wire

ASSUME DeskAssumption == NoRequest \notin DeskRequest /\ FetchBound \in Nat

VARIABLES
    decisions,      \* request -> its status on the server
    requestsShown,          \* items(): the list has been shown
    selected,       \* selected()
    lists,          \* list answers on the wire, with the detail to fetch after each
    listLoading,    \* loading()
    details,        \* details on the wire
    detailLoading,  \* detailLoading()
    preselected,    \* lastPreselectId
    confirmAction,  \* confirmAction()
    asked,          \* observer: the request shown when the dialog was opened
    deciding,       \* deciding(): the decision on the wire
    decided         \* observer: the last decision sent, and what was asked

deskVars == <<decisions, requestsShown, selected, lists, listLoading, details, detailLoading,
              preselected, confirmAction, asked, deciding, decided>>

-----------------------------------------------------------------------------
DeskStatus == {"PENDING", "APPROVED", "DENIED", "EXPIRED"}
Detail == [id : DeskRequest, status : DeskStatus]
Nothing == [id |-> NoRequest]
NoDecision == [id |-> NoRequest]

DeskTypeOK ==
    /\ decisions \in [DeskRequest -> DeskStatus]
    /\ {requestsShown, listLoading, detailLoading} \subseteq BOOLEAN
    /\ selected \in Detail \cup {Nothing}
    /\ lists \subseteq DeskRequest \cup {NoRequest}
    /\ details \subseteq Detail
    /\ {preselected, asked} \subseteq DeskRequest \cup {NoRequest}
    /\ confirmAction \in {"none", "APPROVED", "DENIED"}
    /\ deciding \in [id : DeskRequest, as : {"APPROVED", "DENIED"},
                     at : {"sent", "done", "stale"}] \cup {NoDecision}
    /\ decided \in [asked : DeskRequest, sent : DeskRequest] \cup {NoDecision}

\* The constructor loads the list, with the request of the deep link if there is one.
DeskInit ==
    /\ decisions = [q \in DeskRequest |-> "PENDING"]
    /\ requestsShown = FALSE
    /\ selected = Nothing
    /\ preselected \in DeskRequest \cup {NoRequest}
    /\ lists = {preselected} /\ listLoading = TRUE
    /\ details = {} /\ detailLoading = FALSE
    /\ confirmAction = "none" /\ asked = NoRequest
    /\ deciding = NoDecision
    /\ decided = NoDecision

-----------------------------------------------------------------------------
\* load(): the list, then the detail of q if any.
LoadRequests(q) ==
    /\ Cardinality(lists) < FetchBound
    /\ lists' = lists \cup {q}
    /\ listLoading' = TRUE

\* fetchDetail()
FetchDetail(q) ==
    /\ Cardinality(details) < FetchBound
    /\ details' = details \cup {[id |-> q, status |-> decisions[q]]}
    /\ detailLoading' = TRUE

\* A list is answered, or fails.
ListAnswered(q, ok) ==
    /\ lists' = lists \ {q}
    /\ listLoading' = FALSE
    /\ requestsShown' = (requestsShown \/ ok)
    /\ IF ok /\ q # NoRequest THEN FetchDetail(q) ELSE UNCHANGED <<details, detailLoading>>
    /\ UNCHANGED <<decisions, selected, preselected, confirmAction, asked, deciding, decided>>

\* A detail is answered and selected, or fails and nothing is; the flag of all of them
\* is cleared.
DetailAnswered(d, ok) ==
    /\ details' = details \ {d}
    /\ detailLoading' = FALSE
    /\ selected' = IF ok THEN d ELSE Nothing
    /\ UNCHANGED <<decisions, requestsShown, lists, listLoading, preselected, confirmAction, asked,
                   deciding, decided>>

\* The query parameter changes on the open page.
Preselect(q) ==
    /\ q # preselected
    /\ preselected' = q
    /\ FetchDetail(q)
    /\ UNCHANGED <<decisions, requestsShown, selected, lists, listLoading, confirmAction, asked,
                   deciding, decided>>

\* A row is clicked (the open dialog covers the page), unless a decision is on the wire.
SelectRequest(q) ==
    /\ requestsShown /\ confirmAction = "none" /\ deciding = NoDecision
    /\ FetchDetail(q)
    /\ UNCHANGED <<decisions, requestsShown, selected, lists, listLoading, preselected,
                   confirmAction, asked, deciding, decided>>

Refresh ==
    /\ ~listLoading /\ confirmAction = "none"
    /\ LoadRequests(selected.id)
    /\ UNCHANGED <<decisions, requestsShown, selected, details, detailLoading, preselected,
                   confirmAction, asked, deciding, decided>>

\* askDecision(): the buttons belong to the detail, which is not drawn while one loads.
AskDecision(a) ==
    /\ ~detailLoading /\ confirmAction = "none"
    /\ selected # Nothing /\ selected.status = "PENDING" /\ deciding = NoDecision
    /\ confirmAction' = a
    /\ asked' = selected.id
    /\ UNCHANGED <<decisions, requestsShown, selected, lists, listLoading, details, detailLoading,
                   preselected, deciding, decided>>

CancelDecision ==
    /\ confirmAction # "none" /\ deciding = NoDecision
    /\ confirmAction' = "none" /\ asked' = NoRequest
    /\ UNCHANGED <<decisions, requestsShown, selected, lists, listLoading, details, detailLoading,
                   preselected, deciding, decided>>

\* confirmDecision(): what is decided is what is selected now.
ConfirmDecision ==
    /\ confirmAction # "none" /\ selected # Nothing /\ deciding = NoDecision
    /\ deciding' = [id |-> selected.id, as |-> confirmAction, at |-> "sent"]
    /\ decided' = [asked |-> asked, sent |-> selected.id]
    /\ confirmAction' = "none" /\ asked' = NoRequest
    /\ UNCHANGED <<decisions, requestsShown, selected, lists, listLoading, details, detailLoading,
                   preselected>>

\* The server decides a PENDING request and refuses any other (see PasswordReset).
DecisionExecutes ==
    /\ deciding # NoDecision /\ deciding.at = "sent"
    /\ IF decisions[deciding.id] = "PENDING"
       THEN /\ decisions' = [decisions EXCEPT ![deciding.id] = deciding.as]
            /\ deciding' = [deciding EXCEPT !.at = "done"]
       ELSE deciding' = [deciding EXCEPT !.at = "stale"] /\ UNCHANGED decisions
    /\ UNCHANGED <<requestsShown, selected, lists, listLoading, details, detailLoading, preselected,
                   confirmAction, asked, decided>>

\* Success selects the refreshed detail and reloads the list; a stale decision reloads
\* the list and the detail.
DecisionAnswered ==
    /\ deciding # NoDecision /\ deciding.at # "sent"
    /\ deciding' = NoDecision
    /\ IF deciding.at = "done"
       THEN selected' = [id |-> deciding.id, status |-> deciding.as] /\ LoadRequests(NoRequest)
       ELSE LoadRequests(deciding.id) /\ UNCHANGED selected
    /\ UNCHANGED <<decisions, requestsShown, details, detailLoading, preselected, confirmAction,
                   asked, decided>>

\* Refused for another reason (a request of one's own), or lost: only a message.
DecisionFails ==
    /\ deciding # NoDecision
    /\ deciding' = NoDecision
    /\ UNCHANGED <<decisions, requestsShown, selected, lists, listLoading, details, detailLoading,
                   preselected, confirmAction, asked, decided>>

\* Another administrator decides, or the request expires.
DecidedElsewhere(q, as) ==
    /\ decisions[q] = "PENDING"
    /\ decisions' = [decisions EXCEPT ![q] = as]
    /\ UNCHANGED <<requestsShown, selected, lists, listLoading, details, detailLoading, preselected,
                   confirmAction, asked, deciding, decided>>

DeskNext ==
    \/ \E q \in lists, ok \in BOOLEAN : ListAnswered(q, ok)
    \/ \E d \in details, ok \in BOOLEAN : DetailAnswered(d, ok)
    \/ \E q \in DeskRequest : Preselect(q) \/ SelectRequest(q)
    \/ Refresh \/ CancelDecision \/ ConfirmDecision
    \/ \E a \in {"APPROVED", "DENIED"} : AskDecision(a)
    \/ DecisionExecutes \/ DecisionAnswered \/ DecisionFails
    \/ \E q \in DeskRequest, as \in {"APPROVED", "EXPIRED"} : DecidedElsewhere(q, as)

DeskSpec == DeskInit /\ [][DeskNext]_deskVars

-----------------------------------------------------------------------------
\* The request that is approved or denied is the one on the screen when the dialog
\* asked whether to decide "this reset request".
DecidesWhatWasAsked == decided # NoDecision => decided.sent = decided.asked

\* The same screen as long as no detail of another request is answered while the dialog
\* asks.
FocusedNext ==
    DeskNext /\ (confirmAction # "none" => selected'.id \in {asked, NoRequest})
FocusedSpec == DeskInit /\ [][FocusedNext]_deskVars
=============================================================================
