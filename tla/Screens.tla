------------------------------ MODULE Screens ------------------------------
(***************************************************************************)
(* The web application's stateful parts: the session client and nine       *)
(* screens.  They share no variable and every property speaks of one of    *)
(* them, so a behaviour in which one part acts and the others rest in      *)
(* their initial state shows all there is to see of that part; the sum has *)
(* the behaviours of each.                                                 *)
(***************************************************************************)
EXTENDS WebSession, ForgotPassword, CustomerList, TransactionPanel,
        NotificationFeed, RiskScreen, CustomerDetail, SettingsScreen, ResetDesk,
        CustomerForm

VARIABLE acting  \* the part that acts

ScreensInit ==
    /\ acting \in {"session", "forgot", "list", "panel", "feed", "risk", "detail",
                   "settings", "desk", "form"}
    /\ WebInit /\ ForgotInit /\ ListInit /\ PanelInit /\ FeedInit /\ RiskInit
    /\ DetailInit /\ SettingsInit /\ DeskInit /\ FormInit

Only(part) ==
    /\ acting = part /\ UNCHANGED acting
    /\ part # "session" => UNCHANGED webVars
    /\ part # "forgot" => UNCHANGED forgotVars
    /\ part # "list" => UNCHANGED listVars
    /\ part # "panel" => UNCHANGED panelVars
    /\ part # "feed" => UNCHANGED feedVars
    /\ part # "risk" => UNCHANGED riskVars
    /\ part # "detail" => UNCHANGED detailVars
    /\ part # "settings" => UNCHANGED settingsVars
    /\ part # "desk" => UNCHANGED deskVars
    /\ part # "form" => UNCHANGED formVars

ScreensNext ==
    \/ Only("session") /\ WebNext
    \/ Only("forgot") /\ ForgotNext
    \/ Only("list") /\ ListNext
    \/ Only("panel") /\ PanelNext
    \/ Only("feed") /\ FeedNext
    \/ Only("risk") /\ RiskNext
    \/ Only("detail") /\ DetailNext
    \/ Only("settings") /\ SettingsNext
    \/ Only("desk") /\ DeskNext
    \/ Only("form") /\ FormNext

screensVars == <<acting, webVars, forgotVars, listVars, panelVars, feedVars, riskVars,
                 detailVars, settingsVars, deskVars, formVars>>

ScreensSpec == ScreensInit /\ [][ScreensNext]_screensVars

\* The type invariant of the part that acts; the others rest.
ScreensTypeOK ==
    /\ acting = "session" => WebTypeOK
    /\ acting = "forgot" => ForgotTypeOK
    /\ acting = "list" => ListTypeOK
    /\ acting = "panel" => PanelTypeOK
    /\ acting = "feed" => FeedTypeOK
    /\ acting = "risk" => RiskTypeOK
    /\ acting = "detail" => DetailTypeOK
    /\ acting = "settings" => SettingsTypeOK
    /\ acting = "desk" => DeskTypeOK
    /\ acting = "form" => FormTypeOK
=============================================================================
