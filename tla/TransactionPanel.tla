-------------------------- MODULE TransactionPanel --------------------------
(***************************************************************************)
(* The transactions panel of a customer: the filter form with its date     *)
(* range, the list it loads (switchMap, page 1 of the newest), and the     *)
(* form that posts a transaction and must then show it.  Inputs hold whole *)
(* minutes; time runs in ticks of a fraction of a minute.  A bound travels *)
(* as a wall-clock time without its zone, which the API reads in its own.  *)
(***************************************************************************)
EXTENDS Integers, Sequences, FiniteSets

CONSTANTS
    TicksPerMinute,  \* finer than the inputs
    MinuteBound,     \* last minute of the clock
    PostBound,       \* transactions posted
    ZoneShift        \* minutes by which a browser's zone may be ahead of the API's

ASSUME TransactionPanelAssumption ==
    /\ TicksPerMinute \in Nat \ {0}
    /\ MinuteBound \in Nat /\ PostBound \in Nat
    /\ ZoneShift \subseteq Int

VARIABLES
    shift,       \* constant: how far this browser's zone is ahead of the API's
    txNow,       \* now, in ticks
    from,        \* the range: a minute, or Blank
    to,
    dirty,       \* the operator edited a bound
    hides,       \* the kind, status or currency filter excludes what is created
    edited,      \* a change of the form waits for its debounce
    posting,     \* the creation: "none", "sent", or "ok" once posted
    postedAt,    \* external: times of the transactions of this wallet
    txLoad,      \* the list request whose answer will be applied: at most one
    txRows,      \* transactions listed
    noticed,     \* the operator was told that the filters hide the last one created
    latest       \* observer: the last one created, 0 once the form changed since

panelVars == <<shift, txNow, from, to, dirty, hides, edited, posting, postedAt, txLoad,
               txRows, noticed, latest>>

-----------------------------------------------------------------------------
Blank == MinuteBound + 2
Bound == 0..Blank
Tick(minute) == minute * TicksPerMinute

\* Mutant: up to the minute that is running.
FlooredTo == txNow \div TicksPerMinute

\* defaultTxRange: 364 days back, and up to the next full minute.
DefaultFrom == 0
DefaultTo == txNow \div TicksPerMinute + 1

TxLoad == [from : Bound, to : Bound, hides : BOOLEAN]

\* parseDate: the instants the API makes of the bounds.  (The default start, 364 days
\* back, lies before every transaction here in any zone.)
EndInstant(minute) == Tick(minute + shift)
StartInstant(minute) == IF minute = DefaultFrom THEN 0 ELSE Tick(minute + shift)

PanelTypeOK ==
    /\ shift \in ZoneShift
    /\ txNow \in 0..Tick(MinuteBound)
    /\ from \in Bound /\ to \in Bound
    /\ dirty \in BOOLEAN /\ hides \in BOOLEAN /\ edited \in BOOLEAN /\ noticed \in BOOLEAN
    /\ posting \in {"none", "sent", "ok"}
    /\ postedAt \in Seq(0..Tick(MinuteBound)) /\ Len(postedAt) <= PostBound
    /\ txLoad \subseteq TxLoad /\ Cardinality(txLoad) <= 1
    /\ txRows \subseteq DOMAIN postedAt
    /\ latest \in 0..Len(postedAt)

PanelInit ==
    /\ shift \in ZoneShift
    /\ txNow = 0
    /\ from = DefaultFrom /\ to = 1
    /\ dirty = FALSE /\ hides = FALSE /\ edited = FALSE /\ noticed = FALSE
    /\ posting = "none"
    /\ postedAt = <<>>
    /\ txLoad = {[from |-> DefaultFrom, to |-> 1, hides |-> FALSE]}
    /\ txRows = {}
    /\ latest = 0

-----------------------------------------------------------------------------
\* syncTxRangeValidity: an empty range is seeded anew, half a range and an inverted
\* one are refused.
RangeEmpty == from = Blank /\ to = Blank
RangeValid == from # Blank /\ to # Blank /\ from <= to

\* dispatchTransactionsLoad with the range f, t.
Dispatch(f, t) == txLoad' = {[from |-> f, to |-> t, hides |-> hides]}

\* The operator edits a bound or another filter.
EditRange(f, t) ==
    /\ <<f, t>> # <<from, to>>
    /\ from' = f /\ to' = t
    /\ dirty' = TRUE /\ edited' = TRUE
    /\ latest' = 0
    /\ UNCHANGED <<txNow, hides, posting, postedAt, txLoad, txRows, noticed>>

EditFilter ==
    /\ hides' = ~hides
    /\ edited' = TRUE
    /\ latest' = 0
    /\ UNCHANGED <<txNow, from, to, dirty, posting, postedAt, txLoad, txRows, noticed>>

\* A reload through the range guard: after the debounce, or by the pager.
GuardedReload ==
    /\ \/ /\ RangeEmpty
          /\ from' = DefaultFrom /\ to' = DefaultTo
          /\ Dispatch(DefaultFrom, DefaultTo)
       \/ /\ RangeValid
          /\ Dispatch(from, to)
          /\ UNCHANGED <<from, to>>
       \/ /\ ~RangeEmpty /\ ~RangeValid
          /\ UNCHANGED <<from, to, txLoad>>
    /\ edited' = FALSE
    /\ latest' = IF RangeEmpty THEN 0 ELSE latest
    /\ UNCHANGED <<txNow, dirty, hides, posting, postedAt, txRows, noticed>>

\* clearTxFilters resets the form, pristine again, and reloads.
ClearTxFilters ==
    /\ from' = DefaultFrom /\ to' = DefaultTo
    /\ dirty' = FALSE /\ hides' = FALSE
    /\ latest' = 0
    /\ txLoad' = {[from |-> DefaultFrom, to |-> DefaultTo, hides |-> FALSE]}
    /\ UNCHANGED <<txNow, edited, posting, postedAt, txRows, noticed>>

\* external: the API lists what the filters let through, or fails.
LoadAnswers(l, ok) ==
    /\ txLoad' = txLoad \ {l}
    /\ txRows' = IF ok THEN {n \in DOMAIN postedAt : /\ ~l.hides
                                                    /\ StartInstant(l.from) <= postedAt[n]
                                                    /\ postedAt[n] <= EndInstant(l.to)}
                 ELSE txRows
    /\ latest' = IF ok THEN latest ELSE 0
    /\ UNCHANGED <<txNow, from, to, dirty, hides, edited, posting, postedAt, noticed>>

-----------------------------------------------------------------------------
\* createTransaction: one at a time, each click with a key of its own.
CreateTransaction ==
    /\ posting = "none"
    /\ posting' = "sent"
    /\ UNCHANGED <<txNow, from, to, dirty, hides, edited, postedAt, txLoad, txRows, noticed, latest>>

\* external: the API posts it.
Posted ==
    /\ posting = "sent"
    /\ Len(postedAt) < PostBound
    /\ posting' = "ok"
    /\ postedAt' = Append(postedAt, txNow)
    /\ UNCHANGED <<txNow, from, to, dirty, hides, edited, txLoad, txRows, noticed, latest>>

\* The request, or its answer, is lost: an error on screen.
CreateFails ==
    /\ posting # "none"
    /\ posting' = "none"
    /\ UNCHANGED <<txNow, from, to, dirty, hides, edited, postedAt, txLoad, txRows, noticed, latest>>

\* refreshTxRangeForCreate keeps only a complete range the operator typed.
KeepsRange == dirty /\ RangeValid

\* createdTxHiddenByFilters, as of now and of the browser's zone.
Hidden(f, t) == hides \/ Tick(f) > txNow \/ Tick(t) < txNow

\* The answer: reloadAfterCreate.
Created ==
    /\ posting = "ok"
    /\ posting' = "none"
    /\ LET f == IF KeepsRange THEN from ELSE DefaultFrom
           t == IF KeepsRange THEN to ELSE DefaultTo
       IN /\ from' = f /\ to' = t
          /\ Dispatch(f, t)
          /\ noticed' = Hidden(f, t)
    /\ latest' = Len(postedAt)
    /\ UNCHANGED <<txNow, dirty, hides, edited, postedAt, txRows>>

PanelTick ==
    /\ txNow < Tick(MinuteBound)
    /\ txNow' = txNow + 1
    /\ UNCHANGED <<from, to, dirty, hides, edited, posting, postedAt, txLoad, txRows, noticed, latest>>

PanelNext ==
    /\ UNCHANGED shift
    /\ \/ \E f \in Bound, t \in Bound : EditRange(f, t)
       \/ EditFilter \/ GuardedReload \/ ClearTxFilters
       \/ \E l \in txLoad, ok \in BOOLEAN : LoadAnswers(l, ok)
       \/ CreateTransaction \/ Posted \/ CreateFails \/ Created
       \/ PanelTick

PanelSpec == PanelInit /\ [][PanelNext]_panelVars

-----------------------------------------------------------------------------
\* Once the reload after a creation is answered the new transaction is listed.  Only
\* filters the operator set may hide it, and the operator is then told, unless the API
\* takes the range typed to start after the posting.  In a browser whose zone is behind
\* the API's the range may also end too early for the API, even the default one, and then
\* nobody is told.
NewRowShown ==
    latest # 0 /\ txLoad = {} =>
        \/ latest \in txRows
        \/ noticed /\ (hides \/ dirty)
        \/ dirty /\ StartInstant(from) > postedAt[latest]
        \/ shift < 0 /\ EndInstant(to) < postedAt[latest]
=============================================================================
