--------------------------- MODULE CustomerDetail ---------------------------
(***************************************************************************)
(* The customer detail screen with its wallet-limits panel, and the limits *)
(* on the server.  The screen is kept when the route goes from one         *)
(* customer to another; the panel is destroyed with the customer shown.    *)
(* Other operators change limits too.  A version of a wallet stands for    *)
(* the limits it has: every update stores new ones.                        *)
(***************************************************************************)
EXTENDS Naturals, FiniteSets

CONSTANTS
    DetailCustomer,  \* customers, each with its default wallet
    None,            \* a null signal, a request that is not on the wire
    LimitsBound,     \* bound on rowVersion
    ReloadBound      \* bound on the reloads of the wallet on the wire

ASSUME DetailAssumption ==
    None \notin DetailCustomer /\ LimitsBound \in Nat /\ ReloadBound \in Nat

VARIABLES
    limitsVersion,    \* wallets.row_version on the server
    detailId,         \* id: the customer in the URL
    detail,           \* customer(): whose data, and whether unmasked
    revealOn,         \* reveal()
    loadingCustomer,  \* the getById of the route, or None
    skeleton,         \* loadingCustomer(): nothing else is drawn
    revealing,        \* the getById of the reveal switch, or None
    loadingWallet,    \* the wallet's load after the customer's, or None
    reloads,          \* wallets read for reloadWallet() and not delivered yet
    wallet,           \* wallet() of the screen and the limits the form was seeded with
    saving,           \* the PATCH on the wire, or the wallet read after it
    overwritten       \* observer: the update just accepted and the limits it replaced

detailVars == <<limitsVersion, detailId, detail, revealOn, loadingCustomer, skeleton,
                revealing, loadingWallet, reloads, wallet, saving, overwritten>>

-----------------------------------------------------------------------------
\* late: asked for before the route last changed.
Shown == [of : DetailCustomer, clear : BOOLEAN, late : BOOLEAN]
Limits == [of : DetailCustomer, version : 0..LimitsBound, late : BOOLEAN]
Update == [path : DetailCustomer, shown : Limits]

DetailTypeOK ==
    /\ limitsVersion \in [DetailCustomer -> 0..LimitsBound]
    /\ detailId \in DetailCustomer
    /\ detail \in Shown \cup {None}
    /\ revealOn \in BOOLEAN
    /\ loadingCustomer \in DetailCustomer \cup {None}
    /\ skeleton \in BOOLEAN
    /\ revealing \in Shown \cup {None}
    /\ loadingWallet \in Limits \cup {None}
    /\ reloads \subseteq Limits
    /\ wallet \in Limits \cup {None}
    /\ saving \in Update \cup [read : DetailCustomer] \cup [answer : Limits] \cup {None}
    /\ overwritten \in [shown : Limits, replaced : Limits] \cup {None}

DetailInit ==
    /\ limitsVersion = [c \in DetailCustomer |-> 0]
    /\ detailId \in DetailCustomer
    /\ detail = None /\ wallet = None
    /\ revealOn = FALSE
    /\ loadingCustomer = detailId /\ skeleton = TRUE
    /\ revealing = None /\ loadingWallet = None
    /\ reloads = {}
    /\ saving = None
    /\ overwritten = None

\* What the server answers now: wallets.service getForCustomer.
Stored(c) == [of |-> c, version |-> limitsVersion[c], late |-> FALSE]

\* An answer that comes after the route has changed.
Late(answer) == IF answer = None THEN None ELSE [answer EXCEPT !.late = TRUE]

\* The customer, its switch and its panels are drawn.
Drawn == detail # None /\ ~skeleton

-----------------------------------------------------------------------------
\* paramMap emits another id: what is shown of the customer before goes, the panel with
\* it, and switchMap drops the load of the customer, whose finalize takes the skeleton of
\* the new one away.  A load of the wallet is dropped when the next customer is there; the
\* requests of the reveal switch and of reloadWallet() are not tied to the route.  (An
\* update the panel no longer waits for may still be executed: to this screen it is
\* another operator's.)
GoTo(c) ==
    /\ c # detailId
    /\ detailId' = c
    /\ detail' = None /\ wallet' = None /\ revealOn' = FALSE
    /\ loadingCustomer' = c
    /\ skeleton' = (loadingCustomer = None)
    /\ saving' = None
    /\ revealing' = Late(revealing)
    /\ loadingWallet' = Late(loadingWallet)
    /\ reloads' = {[w EXCEPT !.late = TRUE] : w \in reloads}
    /\ overwritten' = None
    /\ UNCHANGED limitsVersion

\* getById answers masked; the wallet is asked for, in place of one still on its way.
DetailLoaded ==
    /\ loadingCustomer # None
    /\ detail' = [of |-> loadingCustomer, clear |-> FALSE, late |-> FALSE]
    /\ loadingWallet' = Stored(loadingCustomer)
    /\ loadingCustomer' = None /\ skeleton' = FALSE
    /\ UNCHANGED <<limitsVersion, detailId, revealOn, revealing, reloads, wallet, saving,
                   overwritten>>

DetailFails ==
    /\ loadingCustomer # None
    /\ loadingCustomer' = None /\ skeleton' = FALSE
    /\ UNCHANGED <<limitsVersion, detailId, detail, revealOn, revealing, loadingWallet,
                   reloads, wallet, saving, overwritten>>

WalletLoaded(ok) ==
    /\ loadingWallet # None
    /\ wallet' = IF ok THEN loadingWallet ELSE wallet
    /\ loadingWallet' = None
    /\ UNCHANGED <<limitsVersion, detailId, detail, revealOn, loadingCustomer, skeleton,
                   revealing, reloads, saving, overwritten>>

\* Mutant: the revealed customer stays until the masked answer arrives.
KeepShown(next) == detail

\* revealToggle$: switching off drops the revealed customer at once.
ShownWhile(next) == IF next THEN detail ELSE None

\* toggleReveal(): the switch is drawn with a customer only.  The panel goes with it.
ToggleDetailReveal ==
    /\ Drawn
    /\ revealOn' = ~revealOn
    /\ detail' = ShownWhile(~revealOn)
    /\ revealing' = [of |-> detailId, clear |-> ~revealOn, late |-> FALSE]
    /\ saving' = IF revealOn THEN None ELSE saving
    /\ UNCHANGED <<limitsVersion, detailId, loadingCustomer, skeleton, loadingWallet,
                   reloads, wallet, overwritten>>

\* The answer paints what was asked for; a failure leaves the screen.
RevealAnswers(ok) ==
    /\ revealing # None
    /\ detail' = IF ok THEN revealing ELSE detail
    /\ revealing' = None
    /\ UNCHANGED <<limitsVersion, detailId, revealOn, loadingCustomer, skeleton,
                   loadingWallet, reloads, wallet, saving, overwritten>>

-----------------------------------------------------------------------------
\* reloadWallet(): a posting of the transactions panel changed the balance.
ReloadWallet ==
    /\ Drawn
    /\ Cardinality(reloads) < ReloadBound
    /\ reloads' = reloads \cup {Stored(detailId)}
    /\ UNCHANGED <<limitsVersion, detailId, detail, revealOn, loadingCustomer, skeleton,
                   revealing, loadingWallet, wallet, saving, overwritten>>

\* Reloads are answered in any order; the form is seeded with each.
WalletReloaded(w, ok) ==
    /\ reloads' = reloads \ {w}
    /\ wallet' = IF ok THEN w ELSE wallet
    /\ UNCHANGED <<limitsVersion, detailId, detail, revealOn, loadingCustomer, skeleton,
                   revealing, loadingWallet, saving, overwritten>>

\* saveLimits$ with exhaustMap: one PATCH, of the typed limits with the version shown.
SaveLimits ==
    /\ Drawn /\ wallet # None
    /\ saving = None
    /\ saving' = [path |-> detailId, shown |-> wallet]
    /\ UNCHANGED <<limitsVersion, detailId, detail, revealOn, loadingCustomer, skeleton,
                   revealing, loadingWallet, reloads, wallet, overwritten>>

\* updateLimits: UPDATE ... WHERE row_version = the version sent.
LimitsCurrent(u) == limitsVersion[u.path] = u.shown.version

\* The PATCH has reached the server.
Patching == saving # None /\ "path" \in DOMAIN saving

\* updateLimits commits; the answer is the wallet read after the commit.
LimitsCommitted ==
    /\ Patching /\ LimitsCurrent(saving)
    /\ limitsVersion[saving.path] < LimitsBound
    /\ limitsVersion' = [limitsVersion EXCEPT ![saving.path] = @ + 1]
    /\ overwritten' = [shown |-> saving.shown, replaced |-> Stored(saving.path)]
    /\ saving' = [read |-> saving.path]
    /\ UNCHANGED <<detailId, detail, revealOn, loadingCustomer, skeleton, revealing,
                   loadingWallet, reloads, wallet>>

\* 409 Wallets.Conflict: recoverFromConflict asks for the wallet again.
LimitsConflict ==
    /\ Patching /\ ~LimitsCurrent(saving)
    /\ saving' = [read |-> saving.path]
    /\ UNCHANGED <<limitsVersion, detailId, detail, revealOn, loadingCustomer, skeleton,
                   revealing, loadingWallet, reloads, wallet, overwritten>>

\* Refused otherwise (limits, customer gone), or the request is lost: the form stays.
LimitsRefused ==
    /\ Patching
    /\ saving' = None
    /\ UNCHANGED <<limitsVersion, detailId, detail, revealOn, loadingCustomer, skeleton,
                   revealing, loadingWallet, reloads, wallet, overwritten>>

\* getForCustomer, after the update or after the conflict.
LimitsRead ==
    /\ saving # None /\ "read" \in DOMAIN saving
    /\ saving' = [answer |-> Stored(saving.read)]
    /\ overwritten' = None
    /\ UNCHANGED <<limitsVersion, detailId, detail, revealOn, loadingCustomer, skeleton,
                   revealing, loadingWallet, reloads, wallet>>

\* The form is seeded with the wallet read, or the answer is lost and it stays.
LimitsAnswered(ok) ==
    /\ saving # None /\ "answer" \in DOMAIN saving
    /\ wallet' = IF ok THEN saving.answer ELSE wallet
    /\ saving' = None
    /\ UNCHANGED <<limitsVersion, detailId, detail, revealOn, loadingCustomer, skeleton,
                   revealing, loadingWallet, reloads, overwritten>>

\* Another operator's update.
LimitsChangedElsewhere(c) ==
    /\ limitsVersion[c] < LimitsBound
    /\ limitsVersion' = [limitsVersion EXCEPT ![c] = @ + 1]
    /\ UNCHANGED <<detailId, detail, revealOn, loadingCustomer, skeleton, revealing,
                   loadingWallet, reloads, wallet, saving, overwritten>>

DetailNext ==
    \/ \E c \in DetailCustomer : GoTo(c) \/ LimitsChangedElsewhere(c)
    \/ DetailLoaded \/ DetailFails \/ ToggleDetailReveal \/ ReloadWallet
    \/ SaveLimits \/ LimitsCommitted \/ LimitsConflict \/ LimitsRefused \/ LimitsRead
    \/ \E ok \in BOOLEAN : WalletLoaded(ok) \/ RevealAnswers(ok) \/ LimitsAnswered(ok)
    \/ \E w \in reloads, ok \in BOOLEAN : WalletReloaded(w, ok)

DetailSpec == DetailInit /\ [][DetailNext]_detailVars

-----------------------------------------------------------------------------
\* With the reveal switch off no unmasked customer is on the screen, however late the
\* answers come, unless the answer is to a request of before the route changed.
HiddenMeansHidden == detail # None /\ detail.clear => revealOn \/ detail.late

\* An accepted update of the limits replaces the very limits the operator was shown, of
\* the same customer: no other operator's change is undone unseen and no customer gets the
\* limits typed for another, also after conflicts, reloads and lost answers.  Only a
\* wallet asked for before the route changed may come in late and be taken for another's.
UpdatesReplaceShown ==
    overwritten # None => overwritten.shown = overwritten.replaced \/ overwritten.shown.late

\* What the operator was shown is what the screen is about.
DetailHonest == HiddenMeansHidden /\ UpdatesReplaceShown
=============================================================================
