-------------------------- MODULE NotificationFeed --------------------------
(***************************************************************************)
(* The notifications page: a list grown by infinite scroll, replaced by a  *)
(* reset load, and merged with page 1 on every live event.  Its requests   *)
(* are independent of each other: none cancels another and they may be     *)
(* answered in any order.  The optimistic read mark of a row is left out.  *)
(***************************************************************************)
EXTENDS Integers, Sequences, FiniteSets, RowOrder

CONSTANTS
    FeedPage,    \* PAGE_SIZE
    FeedBound,   \* notifications ever created
    WireBound    \* list requests on the wire at once

ASSUME FeedAssumption ==
    /\ FeedPage \in Nat \ {0}
    /\ FeedBound \in Nat /\ WireBound \in Nat

VARIABLES
    unreadOnly,   \* the filter: unread rows, or all
    items,        \* rows on screen, by number
    total,        \* rows the API counted
    page,         \* last page asked for
    errored,      \* a reset load failed since the last one was started
    loading,      \* a reset load was started and none has ended since
    wire,         \* list requests on the wire
    feedRows,     \* external: number of notifications of this operator
    feedUnread    \* external: the unread ones

feedVars == <<unreadOnly, items, total, page, errored, loading, wire,
              feedRows, feedUnread>>

-----------------------------------------------------------------------------
\* data and total are the answer, once there is one.
Request == [kind : {"load", "more", "top"}, unreadOnly : BOOLEAN, page : Nat,
            at : {"sent", "ok", "error"}, data : Seq(1..FeedBound), total : 0..FeedBound]

FeedTypeOK ==
    /\ unreadOnly \in BOOLEAN /\ errored \in BOOLEAN /\ loading \in BOOLEAN
    /\ items \in Seq(1..FeedBound)
    /\ total \in 0..FeedBound /\ page \in Nat \ {0}
    /\ wire \subseteq Request
    /\ feedRows \in 0..FeedBound /\ feedUnread \subseteq 1..feedRows

FeedInit ==
    /\ unreadOnly = FALSE /\ errored = FALSE /\ loading = TRUE
    /\ items = <<>> /\ total = 0 /\ page = 1
    /\ feedRows \in 0..FeedBound /\ feedUnread = 1..feedRows
    /\ wire = {[kind |-> "load", unreadOnly |-> FALSE, page |-> 1, at |-> "sent",
                data |-> <<>>, total |-> 0]}

-----------------------------------------------------------------------------
LoadingMore == \E r \in wire : r.kind = "more"
AllLoaded == total > 0 /\ Len(items) >= total

\* A list request with the filter f.
Ask(kind, f, p) ==
    /\ Cardinality(wire) < WireBound
    /\ wire' = wire \cup {[kind |-> kind, unreadOnly |-> f, page |-> p, at |-> "sent",
                           data |-> <<>>, total |-> 0]}

\* load(): first paint, a changed filter, retry and mark-all start over at page 1.
FeedLoad(f) ==
    /\ unreadOnly' = f
    /\ page' = 1
    /\ errored' = FALSE /\ loading' = TRUE
    /\ Ask("load", f, 1)
    /\ UNCHANGED <<items, total, feedRows, feedUnread>>

\* loadMore().
LoadMore ==
    /\ ~loading /\ ~LoadingMore /\ ~errored /\ ~AllLoaded
    /\ page <= FeedBound
    /\ page' = page + 1
    /\ Ask("more", unreadOnly, page + 1)
    /\ UNCHANGED <<unreadOnly, items, total, errored, loading, feedRows, feedUnread>>

\* refreshTop(), on a live event.
RefreshTop ==
    /\ Ask("top", unreadOnly, 1)
    /\ UNCHANGED <<unreadOnly, items, total, page, errored, loading, feedRows, feedUnread>>

\* external: unread rows first, each group newest first; one page of it.
Listed(f) ==
    NewestFirst(feedUnread) \o
        (IF f THEN <<>> ELSE NewestFirst((1..feedRows) \ feedUnread))
PageOf(f, p) ==
    SubSeq(Listed(f), (p - 1) * FeedPage + 1,
           IF p * FeedPage < Len(Listed(f)) THEN p * FeedPage ELSE Len(Listed(f)))

AnswerRequest(r) ==
    /\ r.at = "sent"
    /\ \/ wire' = (wire \ {r}) \cup {[r EXCEPT !.at = "ok", !.data = PageOf(r.unreadOnly, r.page),
                                              !.total = Len(Listed(r.unreadOnly))]}
       \/ wire' = (wire \ {r}) \cup {[r EXCEPT !.at = "error"]}
    /\ UNCHANGED <<unreadOnly, items, total, page, errored, loading, feedRows, feedUnread>>

\* Mutant: rows are added whether or not they are on screen.
AllOf(data) == data

\* The rows not on screen yet, in the order of the answer.
InFeed(n) == \E i \in DOMAIN items : items[i] = n
NewOnes(data) ==
    LET places == OldestFirst({i \in DOMAIN data : ~InFeed(data[i])})
    IN  [i \in DOMAIN places |-> data[places[i]]]

\* The answer replaces, extends or heads the list.
ApplyAnswer(r) ==
    /\ r.at = "ok"
    /\ wire' = wire \ {r}
    /\ total' = r.total
    /\ items' = CASE r.kind = "load" -> r.data
                  [] r.kind = "more" -> items \o NewOnes(r.data)
                  [] r.kind = "top"  -> NewOnes(r.data) \o items
    /\ loading' = (loading /\ r.kind # "load")
    /\ UNCHANGED <<unreadOnly, page, errored, feedRows, feedUnread>>

\* Mutant: every failed request rolls the page back.
RollBackAlways(r) == r.page - 1

\* A failed append rolls the page back.
RollBack(r) == IF r.kind = "more" THEN r.page - 1 ELSE page

\* A failed load shows the error; a failed merge is ignored.
ApplyError(r) ==
    /\ r.at = "error"
    /\ wire' = wire \ {r}
    /\ errored' = (errored \/ r.kind = "load")
    /\ loading' = (loading /\ r.kind # "load")
    /\ page' = RollBack(r)
    /\ UNCHANGED <<unreadOnly, items, total, feedRows, feedUnread>>

\* external: a notification is created; rows are marked read, here or elsewhere.
NotificationCreated ==
    /\ feedRows < FeedBound
    /\ feedRows' = feedRows + 1
    /\ feedUnread' = feedUnread \cup {feedRows + 1}
    /\ UNCHANGED <<unreadOnly, items, total, page, errored, loading, wire>>

RowsRead(S) ==
    /\ S # {}
    /\ feedUnread' = feedUnread \ S
    /\ UNCHANGED <<unreadOnly, items, total, page, errored, loading, wire, feedRows>>

FeedNext ==
    \/ \E f \in BOOLEAN : FeedLoad(f)
    \/ LoadMore \/ RefreshTop
    \/ \E r \in wire : AnswerRequest(r) \/ ApplyAnswer(r) \/ ApplyError(r)
    \/ NotificationCreated
    \/ RowsRead(feedUnread)
    \/ \E n \in feedUnread : RowsRead({n})

FeedSpec == FeedInit /\ [][FeedNext]_feedVars

-----------------------------------------------------------------------------
\* No row is on screen twice, whatever arrives, is read or is answered late: reading a
\* row moves it to another page while the list is being scrolled.
ItemsDistinct == \A i, k \in DOMAIN items : items[i] = items[k] => i = k
=============================================================================
