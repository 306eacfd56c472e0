----------------------------- MODULE MCScreens -----------------------------
(***************************************************************************)
(* An instance of the screens for TLC.                                     *)
(***************************************************************************)
EXTENDS Screens

\* One view shows every customer, the other only the first.
TwoViews == [v \in ListView |-> IF v = "all" THEN ListRow ELSE {"c1"}]

\* A browser in the API's zone, and one to the west of it.
Zones == {-1, 0}

\* The customer of an edit form at rest.
OneCustomer == [contact |-> "x", address |-> "x", status |-> "ACTIVE", version |-> 0]

\* A part that rests does so in one state, also where it has several initial states.
AtRest ==
    /\ acting # "panel" => shift = 0
    /\ acting # "feed" => feedRows = 0
    /\ acting # "risk" => route = "c1"
    /\ acting # "detail" => detailId = "c1"
    /\ acting # "desk" => preselected = NoRequest
    /\ acting # "form" => stored = OneCustomer /\ mayReveal

MCScreensInit == ScreensInit /\ AtRest

MCScreensSpec == MCScreensInit /\ [][ScreensNext]_screensVars
=============================================================================
