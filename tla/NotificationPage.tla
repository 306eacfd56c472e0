-------------------------- MODULE NotificationPage --------------------------
(***************************************************************************)
(* NotificationService.list for one recipient: a page of the unread rows   *)
(* followed by the read ones, each group newest first, stitched from       *)
(* several statements of one READ COMMITTED transaction while rows arrive  *)
(* and are marked read.                                                    *)
(***************************************************************************)
EXTENDS Integers, Sequences, FiniteSets, RowOrder

CONSTANTS
    PageSize,    \* rows of a page
    InboxBound   \* rows ever created

ASSUME PageAssumption == PageSize \in Nat \ {0} /\ InboxBound \in Nat

VARIABLES
    inbox,    \* rows in the order of their creation: whether each was read
    listing   \* the list() call

inboxVars == <<inbox, listing>>

-----------------------------------------------------------------------------
\* same is TRUE while no row changed since the call began.
IdleListing == [at |-> "idle", skip |-> 0, unread |-> 0, rows |-> <<>>, same |-> TRUE]

PageTypeOK ==
    /\ inbox \in Seq(BOOLEAN) /\ Len(inbox) <= InboxBound
    /\ listing.at \in {"idle", "page", "head", "done"}
    /\ listing.skip \in Nat /\ listing.unread \in 0..InboxBound
    /\ listing.rows \in Seq(DOMAIN inbox) /\ Len(listing.rows) <= PageSize
    /\ listing.same \in BOOLEAN

PageInit == inbox = <<>> /\ listing = IdleListing

-----------------------------------------------------------------------------
\* Mutant: one row more, to see whether there is a next page.
WindowAndOne(s, skip, take) ==
    SubSeq(s, skip + 1, IF skip + take + 1 < Len(s) THEN skip + take + 1 ELSE Len(s))

\* OFFSET skip, LIMIT take of a listing.
Window(s, skip, take) == SubSeq(s, skip + 1, IF skip + take < Len(s) THEN skip + take ELSE Len(s))

RowsChange == listing' = [listing EXCEPT !.same = listing.at = "idle"]

UnreadRows == {i \in DOMAIN inbox : ~inbox[i]}
ReadRows == DOMAIN inbox \ UnreadRows

\* emit inserts a row.
NewNote ==
    /\ Len(inbox) < InboxBound
    /\ inbox' = Append(inbox, FALSE)
    /\ RowsChange

\* markRead and markAll.
NotesRead(S) ==
    /\ S # {}
    /\ inbox' = [i \in DOMAIN inbox |-> inbox[i] \/ i \in S]
    /\ RowsChange

\* list: count of the unread rows, in a READ COMMITTED transaction.
StartList(nth) ==
    /\ listing.at \in {"idle", "done"}
    /\ listing' = [at |-> "page", skip |-> (nth - 1) * PageSize,
                   unread |-> Cardinality(UnreadRows), rows |-> <<>>, same |-> TRUE]
    /\ UNCHANGED inbox

\* The offset past the unread block.
ReadOffset == listing.skip - listing.unread

\* The window inside the unread rows, inside the read rows, or across the boundary.
ReadPage ==
    /\ listing.at = "page"
    /\ LET skip == listing.skip
           unread == listing.unread
       IN \/ /\ skip + PageSize <= unread
             /\ listing' = [listing EXCEPT !.at = "done",
                    !.rows = Window(NewestFirst(UnreadRows), skip, PageSize)]
          \/ /\ skip >= unread
             /\ listing' = [listing EXCEPT !.at = "done",
                    !.rows = Window(NewestFirst(ReadRows), ReadOffset, PageSize)]
          \/ /\ skip < unread /\ unread < skip + PageSize
             /\ listing' = [listing EXCEPT !.at = "head",
                    !.rows = Window(NewestFirst(UnreadRows), skip, unread - skip)]
    /\ UNCHANGED inbox

\* Across the boundary: the newest read rows fill the page.
ReadHead ==
    /\ listing.at = "head"
    /\ listing' = [listing EXCEPT !.at = "done",
           !.rows = @ \o Window(NewestFirst(ReadRows), 0,
                                PageSize - (listing.unread - listing.skip))]
    /\ UNCHANGED inbox

PageNext ==
    \/ NewNote
    \/ NotesRead(UnreadRows)
    \/ \E i \in UnreadRows : NotesRead({i})
    \/ \E nth \in 1..(InboxBound \div PageSize + 1) : StartList(nth)
    \/ ReadPage \/ ReadHead

PageSpec == PageInit /\ [][PageNext]_inboxVars

-----------------------------------------------------------------------------
\* A page read while no row changed is the window of the whole list, unread rows first
\* and each group newest first, wherever the boundary between the groups falls.
PageIsWindow ==
    listing.at = "done" /\ listing.same =>
        listing.rows = Window(NewestFirst(UnreadRows) \o NewestFirst(ReadRows),
                              listing.skip, PageSize)
=============================================================================
