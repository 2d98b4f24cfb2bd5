------------------------------- MODULE Views -------------------------------
(***************************************************************************)
(* The root of the popup and the side panel (ui/LatchRoot.tsx) with the    *)
(* hook that learns the accounts (ui/hooks/useAccountsHydration.ts) and    *)
(* the routes (ui/routing/routes.ts): which screen is shown, when a locked *)
(* seed account sends the user to the unlock screen, and when a wallet     *)
(* without accounts opens the set-up tab.  The accounts change in other    *)
(* pages, the worker stops with the loaded seeds, and GET_ACCOUNTS answers *)
(* come late, out of order, or never.                                      *)
(***************************************************************************)
EXTENDS Naturals

CONSTANTS ViewWallets,  \* accounts by position in the stored list: 1 .. n
          SeedWallets,  \* those that sign with a seed kept in a vault
          MaxGets,      \* bound on GET_ACCOUNTS requests
          MaxOrders,    \* bound on the user's messages
          MaxViewStops  \* bound on stops of the service worker

ASSUME ViewsAssumption ==
    /\ ViewWallets \subseteq Nat \ {0} /\ SeedWallets \subseteq ViewWallets
    /\ MaxGets \in Nat /\ MaxOrders \in Nat /\ MaxViewStops \in Nat

VARIABLES
    stored,    \* the worker: account rows, the active one, the seeds in memory
    view,      \* the state of the root and its hook
    gets,      \* GET_ACCOUNTS on their way: why, and the answer once there is one
    orders,    \* other messages on their way: what, and the account
    getsMade,
    ordersMade,
    viewStops,
    wasEmpty,  \* the worker stored no account at some time
    tabOpened  \* OPEN_ONBOARDING_TAB was sent by the effect

viewsVars == <<stored, view, gets, orders, getsMade, ordersMade, viewStops, wasEmpty,
              tabOpened>>

NoWallet == 0
NoAnswer == [rows |-> {}, active |-> NoWallet, vault |-> FALSE, loaded |-> FALSE, ok |-> FALSE]

(* Routes with the same behaviour are one: "gated" stands for the screens  *)
(* of the account (explore, history, swap, send, receive, fund, a dApp     *)
(* approval), "wallets" for those of multisigs and signers.                *)
Routes == {"home", "gated", "migration", "migrationSuccess", "wallets", "joinMultisig",
           "addAccount", "addAccountPasskey", "importSeed", "unlockMnemonic"}
GatedRoutes == {"home", "gated", "migration", "migrationSuccess"}
OnboardingRoutes == {"importSeed"}

FreshView(route) ==
    [rows |-> {}, active |-> NoWallet, vault |-> FALSE, loaded |-> FALSE,
     hydrated |-> FALSE, succeeded |-> FALSE, failed |-> FALSE, gen |-> 1,
     opened |-> FALSE, route |-> route, settings |-> FALSE, busy |-> FALSE,
     back |-> "home", open |-> TRUE, result |-> "none"]

ViewsInit ==
    /\ \E rows \in {{}, ViewWallets} :
          stored = [rows |-> rows, loaded |-> {},
                    active |-> IF rows = {} THEN NoWallet ELSE CHOOSE w \in rows : TRUE]
    /\ \/ view = FreshView("joinMultisig")
       \/ \E to \in {"none", "gated"} : view = [FreshView("home") EXCEPT !.result = to]
    /\ gets = {[why |-> "load", gen |-> 1, answer |-> NoAnswer]}
    /\ orders = {}
    /\ getsMade = 1 /\ ordersMade = 0 /\ viewStops = 0
    /\ wasEmpty = (stored.rows = {})
    /\ tabOpened = FALSE

-----------------------------------------------------------------------------
(* What the root makes of its state.                                       *)

(* The account on screen: the active one, or the first of the list.        *)
ActiveOf(v) ==
    IF v.active \in v.rows THEN v.active
    ELSE IF v.rows = {} THEN NoWallet
    ELSE CHOOSE w \in v.rows : \A x \in v.rows : w <= x

(* The memo of the hook.                                                   *)
NeedsUnlock(v) == ActiveOf(v) \in SeedWallets /\ v.vault /\ ~v.loaded

(* needsMnemonicUnlockFromAccounts, of an answer.                          *)
LockedIn(answer) ==
    answer.active \in answer.rows \cap SeedWallets /\ answer.vault /\ ~answer.loaded

ResolveMainRoute(locked, preferred) == IF locked THEN "unlockMnemonic" ELSE preferred

(* The set-up prompt that covers the screens.                              *)
ShowsSetup(v) ==
    v.hydrated /\ v.succeeded /\ v.rows = {} /\ v.route # "joinMultisig" /\ ~v.busy

(* The effect on the unlock state: settings close, gated screens give way. *)
Gate(v) ==
    IF ~NeedsUnlock(v) THEN v
    ELSE [v EXCEPT !.settings = FALSE,
                   !.route = IF @ \in GatedRoutes THEN "unlockMnemonic" ELSE @]

(* No accounts, and the worker said so: not after a timeout or an error.   *)
KnowsItIsEmpty(v) == v.rows = {} /\ v.succeeded

OpensSetup(v) ==
    v.hydrated /\ KnowsItIsEmpty(v) /\ v.route # "joinMultisig" /\ ~v.opened

(* The effect on the accounts: leave the screens of the set-up once there  *)
(* are any, open the set-up tab once when there are none.                  *)
Redirect(v) ==
    IF ~v.hydrated THEN v
    ELSE IF v.rows # {}
    THEN [v EXCEPT !.opened = FALSE,
                   !.route = IF @ \in OnboardingRoutes
                             THEN ResolveMainRoute(NeedsUnlock(v), "home") ELSE @]
    ELSE [v EXCEPT !.opened = @ \/ OpensSetup(v)]

(* A change of the root's state is followed by its effects.                *)
Renders(v) ==
    /\ view' = Gate(Redirect(v))
    /\ tabOpened' = (tabOpened \/ OpensSetup(v))

-----------------------------------------------------------------------------
(* The accounts.                                                           *)

Ask(why, gen) == [why |-> why, gen |-> gen, answer |-> NoAnswer]

Asks(r) ==
    /\ getsMade < MaxGets
    /\ getsMade' = getsMade + 1
    /\ gets' = gets \cup {r}

(* GET_ACCOUNTS in the worker; the flags only of an active seed account.   *)
ReadAccounts(r) ==
    /\ ~r.answer.ok
    /\ LET seed == stored.active \in stored.rows \cap SeedWallets IN
        gets' = (gets \ {r}) \cup {[r EXCEPT !.answer =
            [rows |-> stored.rows, active |-> stored.active, vault |-> seed,
             loaded |-> seed /\ stored.active \in stored.loaded, ok |-> TRUE]]}
    /\ UNCHANGED <<stored, view, orders, getsMade, ordersMade, viewStops, wasEmpty, tabOpened>>

(* applyLoadedAccounts: the answer to the current load; the route follows  *)
(* the lock unless the user came to join a wallet.                         *)
Loaded(r) ==
    /\ r.why = "load" /\ r.answer.ok
    /\ gets' = gets \ {r}
    /\ IF r.gen # view.gen THEN UNCHANGED <<view, tabOpened>>
       ELSE LET v == [view EXCEPT !.rows = r.answer.rows, !.active = r.answer.active,
                          !.vault = r.answer.vault, !.loaded = r.answer.loaded,
                          !.succeeded = TRUE, !.failed = FALSE, !.hydrated = TRUE]
                to == ResolveMainRoute(LockedIn(r.answer),
                         IF view.route \in OnboardingRoutes THEN "home" ELSE view.route)
            IN Renders(IF r.answer.rows = {} \/ view.route = "joinMultisig" THEN v
                       ELSE [v EXCEPT !.route = to])
    /\ UNCHANGED <<stored, orders, getsMade, ordersMade, viewStops, wasEmpty>>

(* The load failed or timed out: an error with a retry instead of the      *)
(* loader.                                                                 *)
LoadFailed(r) ==
    /\ r.why = "load"
    /\ gets' = gets \ {r}
    /\ IF r.gen # view.gen THEN UNCHANGED <<view, tabOpened>>
       ELSE Renders([view EXCEPT !.succeeded = FALSE, !.failed = TRUE, !.hydrated = TRUE])
    /\ UNCHANGED <<stored, orders, getsMade, ordersMade, viewStops, wasEmpty>>

(* A popup reopened while the result of a confirm waits goes to the screen *)
(* of that result, a gated one of most, before or after the accounts come. *)
ReopenResult ==
    /\ view.open /\ view.result # "none"
    /\ Renders([view EXCEPT !.route = view.result, !.result = "none"])
    /\ UNCHANGED <<stored, gets, orders, getsMade, ordersMade, viewStops, wasEmpty>>

RetryLoad ==
    /\ view.open /\ view.failed /\ view.rows = {}
    /\ Asks(Ask("load", view.gen + 1))
    /\ view' = [view EXCEPT !.gen = @ + 1, !.failed = FALSE]
    /\ UNCHANGED <<stored, orders, ordersMade, viewStops, wasEmpty, tabOpened>>

(* applyAccountsSnapshot: whatever was applied before.                     *)
Snapshot(v, answer) ==
    [v EXCEPT !.rows = answer.rows, !.active = answer.active, !.vault = answer.vault,
              !.loaded = answer.loaded, !.succeeded = TRUE, !.hydrated = TRUE]

(* What follows a refresh that was awaited: a switch in the account menu   *)
(* keeps a gated screen, an unlock goes where it was asked for.            *)
After(v, why, locked) ==
    CASE why = "menu"   -> [v EXCEPT !.route = ResolveMainRoute(locked,
                                          IF @ \in GatedRoutes THEN @ ELSE "home")]
      [] why = "unlock" -> [v EXCEPT !.route = v.back, !.back = "home", !.busy = FALSE]
      [] why = "login"  -> [v EXCEPT !.route = "home", !.busy = FALSE]
      [] OTHER          -> v

Refreshed(r) ==
    /\ r.why # "load" /\ r.answer.ok
    /\ gets' = gets \ {r}
    /\ Renders(After(Snapshot(view, r.answer), r.why, LockedIn(r.answer)))
    /\ UNCHANGED <<stored, orders, getsMade, ordersMade, viewStops, wasEmpty>>

(* The worker answered with an error: an unlock or a login goes on, with   *)
(* what the root knew.                                                     *)
RefreshRefused(r) ==
    /\ r.why # "load"
    /\ gets' = gets \ {r}
    /\ Renders(IF r.why = "menu" THEN view ELSE After(view, r.why, FALSE))
    /\ UNCHANGED <<stored, orders, getsMade, ordersMade, viewStops, wasEmpty>>

(* The worker never answered.                                              *)
RefreshTimesOut(r) ==
    /\ r.why # "load"
    /\ gets' = gets \ {r}
    /\ Renders([view EXCEPT !.busy = @ /\ r.why \notin {"unlock", "login"}])
    /\ UNCHANGED <<stored, orders, getsMade, ordersMade, viewStops, wasEmpty>>

(* The sync of the multisig wallets found news: once the accounts are      *)
(* known, on every screen.                                                 *)
SyncBringsNews ==
    /\ view.open /\ view.succeeded
    /\ Asks(Ask("news", 0))
    /\ UNCHANGED <<stored, view, orders, ordersMade, viewStops, wasEmpty, tabOpened>>

-----------------------------------------------------------------------------
(* The user.                                                               *)

(* The screen is reachable by a click.                                     *)
Clickable == view.open /\ view.hydrated /\ ~ShowsSetup(view) /\ ~view.busy
                /\ ~(view.failed /\ view.rows = {})

(* The settings lie over the home screen.                                  *)
InSettings == view.settings /\ view.route = "home"

Doors ==
    {<<"home", "gated">>, <<"gated", "home">>, <<"gated", "migration">>, <<"home", "wallets">>,
     <<"wallets", "home">>, <<"joinMultisig", "home">>, <<"migration", "migrationSuccess">>,
     <<"migration", "addAccount">>, <<"addAccount", "addAccountPasskey">>,
     <<"addAccountPasskey", "addAccount">>, <<"addAccount", "importSeed">>,
     <<"addAccount", "home">>, <<"migration", "home">>, <<"migrationSuccess", "home">>}

Navigate(to) ==
    /\ Clickable /\ ~InSettings
    /\ <<view.route, to>> \in Doors
    /\ Renders([view EXCEPT !.route = to])
    /\ UNCHANGED <<stored, gets, orders, getsMade, ordersMade, viewStops, wasEmpty>>

ToggleSettings ==
    /\ Clickable /\ view.route = "home" /\ ~NeedsUnlock(view)
    /\ Renders([view EXCEPT !.settings = ~@])
    /\ UNCHANGED <<stored, gets, orders, getsMade, ordersMade, viewStops, wasEmpty>>

Sends(what, w) ==
    /\ ordersMade < MaxOrders
    /\ ordersMade' = ordersMade + 1
    /\ orders' = orders \cup {[what |-> what, w |-> w]}

(* A message of the root: from the settings, the account menu of the       *)
(* migration screen, the unlock screen, or a multisig screen that makes    *)
(* its wallet active at once.                                              *)
SelectAccount(w) ==
    /\ Clickable /\ w \in view.rows
    /\ \/ InSettings /\ Sends("select", w) /\ UNCHANGED view
       \/ view.route = "migration" /\ Sends("menu", w) /\ UNCHANGED view
       \/ /\ view.route = "wallets" /\ Sends("pick", w)
          /\ view' = [view EXCEPT !.active = w]
    /\ UNCHANGED <<stored, gets, getsMade, viewStops, wasEmpty, tabOpened>>

DeleteAccount(w) ==
    /\ Clickable /\ InSettings /\ w \in view.rows
    /\ Sends("delete", w)
    /\ UNCHANGED <<stored, view, gets, getsMade, viewStops, wasEmpty, tabOpened>>

LogoutOrder ==
    /\ Clickable /\ InSettings
    /\ Sends("logout", NoWallet)
    /\ view' = [view EXCEPT !.busy = TRUE]
    /\ UNCHANGED <<stored, gets, getsMade, viewStops, wasEmpty, tabOpened>>

UnlockVault ==
    /\ Clickable /\ view.route = "unlockMnemonic" /\ view.rows # {}
    /\ Sends("unlock", ActiveOf(view))
    /\ view' = [view EXCEPT !.busy = TRUE]
    /\ UNCHANGED <<stored, gets, getsMade, viewStops, wasEmpty, tabOpened>>

(* The migration screen found the seed not loaded.                         *)
MigrationNeedsUnlock ==
    /\ Clickable /\ view.route = "migration"
    /\ Renders([view EXCEPT !.back = "migration", !.route = "unlockMnemonic"])
    /\ UNCHANGED <<stored, gets, orders, getsMade, ordersMade, viewStops, wasEmpty>>

-----------------------------------------------------------------------------
(* The messages in the worker, and what the root does with the answer.     *)

(* SET_ACTIVE_ACCOUNT; all but a multisig screen ask for the accounts      *)
(* then.                                                                   *)
Selected(m) ==
    /\ m.what \in {"select", "menu", "pick"}
    /\ orders' = orders \ {m}
    /\ stored' = [stored EXCEPT !.active = m.w]
    /\ IF m.what = "pick" THEN UNCHANGED <<gets, getsMade>> ELSE Asks(Ask(m.what, 0))
    /\ UNCHANGED <<view, ordersMade, viewStops, wasEmpty, tabOpened>>

(* exitToOnboardingTab: the root opens the tab itself and goes away.       *)
Exit(v) == [v EXCEPT !.settings = FALSE, !.route = "home", !.opened = TRUE, !.busy = FALSE,
                     !.open = FALSE]

(* The answer to a delete carries the accounts, but not the flags of the   *)
(* new active one: a refresh follows.                                      *)
Deleted(m) ==
    /\ m.what = "delete"
    /\ orders' = orders \ {m}
    /\ LET rows == stored.rows \ {m.w}
           next == IF stored.active \in rows \/ rows = {} THEN stored.active
                   ELSE CHOOSE w \in rows : \A x \in rows : w <= x
           v == Snapshot(view, [NoAnswer EXCEPT !.rows = rows, !.active = next])
       IN /\ stored' = [rows |-> rows, loaded |-> stored.loaded \ {m.w},
                        active |-> IF rows = {} THEN NoWallet ELSE next]
          /\ wasEmpty' = (wasEmpty \/ rows = {})
          /\ IF rows = {} THEN Renders(Exit([v EXCEPT !.opened = TRUE])) /\ UNCHANGED <<gets, getsMade>>
             ELSE Renders(v) /\ Asks(Ask("delete", 0))
    /\ UNCHANGED <<ordersMade, viewStops>>

LoggedOut(m) ==
    /\ m.what = "logout"
    /\ orders' = orders \ {m}
    /\ stored' = [rows |-> {}, active |-> NoWallet, loaded |-> {}]
    /\ wasEmpty' = TRUE
    /\ Renders(Exit([Snapshot(view, NoAnswer) EXCEPT !.opened = TRUE]))
    /\ UNCHANGED <<gets, getsMade, ordersMade, viewStops>>

(* UNLOCK_MNEMONIC_VAULT with the right password.                          *)
Unlocked(m) ==
    /\ m.what = "unlock" /\ m.w \in stored.rows \cap SeedWallets
    /\ orders' = orders \ {m}
    /\ stored' = [stored EXCEPT !.loaded = @ \cup {m.w}]
    /\ Asks(Ask("unlock", 0))
    /\ UNCHANGED <<view, ordersMade, viewStops, wasEmpty, tabOpened>>

(* The worker refused the message or never answered it.                    *)
OrderFails(m) ==
    /\ orders' = orders \ {m}
    /\ Renders([view EXCEPT !.busy = @ /\ m.what \notin {"unlock", "logout"}])
    /\ UNCHANGED <<stored, gets, getsMade, ordersMade, viewStops, wasEmpty>>

(* The passkey login of the account views stored its account: a refresh,   *)
(* then home.                                                              *)
LoginStored(w) ==
    /\ view.open /\ view.route = "addAccountPasskey" /\ ~view.busy
    /\ w \in ViewWallets \ SeedWallets
    /\ stored' = [stored EXCEPT !.rows = @ \cup {w}, !.active = w]
    /\ Asks(Ask("login", 0))
    /\ view' = [view EXCEPT !.busy = TRUE]
    /\ UNCHANGED <<orders, ordersMade, viewStops, wasEmpty, tabOpened>>

-----------------------------------------------------------------------------
(* The set-up tab or another page adds an account; an imported seed is     *)
(* loaded.                                                                 *)
OtherPageAdds(w) ==
    /\ w \in ViewWallets \ stored.rows
    /\ stored' = [rows |-> stored.rows \cup {w}, active |-> w,
                  loaded |-> stored.loaded \cup ({w} \cap SeedWallets)]
    /\ UNCHANGED <<view, gets, orders, getsMade, ordersMade, viewStops, wasEmpty, tabOpened>>

(* Chrome stops the worker: the seeds are gone, and nobody answers what it *)
(* had not answered.                                                       *)
ViewsStop ==
    /\ viewStops < MaxViewStops
    /\ viewStops' = viewStops + 1
    /\ stored' = [stored EXCEPT !.loaded = {}]
    /\ UNCHANGED <<view, gets, orders, getsMade, ordersMade, wasEmpty, tabOpened>>

ViewsAnswer ==
    \/ \E r \in gets : ReadAccounts(r) \/ Loaded(r) \/ LoadFailed(r) \/ Refreshed(r)
                         \/ RefreshRefused(r) \/ RefreshTimesOut(r)
    \/ \E m \in orders : Selected(m) \/ Deleted(m) \/ LoggedOut(m) \/ Unlocked(m)
                           \/ OrderFails(m)

Whys == {"load", "select", "menu", "pick", "delete", "unlock", "login", "news", "logout"}

ViewsNext ==
    \/ ViewsAnswer
    \/ ReopenResult \/ RetryLoad \/ SyncBringsNews
    \/ \E d \in Doors : Navigate(d[2])
    \/ ToggleSettings \/ LogoutOrder \/ UnlockVault \/ MigrationNeedsUnlock
    \/ \E w \in ViewWallets :
          SelectAccount(w) \/ DeleteAccount(w) \/ LoginStored(w) \/ OtherPageAdds(w)
    \/ ViewsStop

-----------------------------------------------------------------------------
ViewsTypeOK ==
    /\ stored.rows \subseteq ViewWallets /\ stored.loaded \subseteq SeedWallets
    /\ stored.active \in ViewWallets \cup {NoWallet}
    /\ view.rows \subseteq ViewWallets /\ view.route \in Routes
    /\ \A r \in gets : r.why \in Whys
    /\ \A m \in orders : m.what \in Whys
    /\ view.settings => ~NeedsUnlock(view)

(* A wallet with accounts is never taken for a new one: the set-up tab is  *)
(* opened, and its prompt covers the screens, only if the worker has had   *)
(* no account, whatever request failed, was retried or came late.          *)
SetupOnlyWhenEmpty == tabOpened \/ ShowsSetup(view) => wasEmpty

(* The loader over the screens.                                            *)
Loading == view.open /\ ~view.busy /\ ~view.failed
              /\ (~view.hydrated \/ (~view.succeeded /\ view.rows = {}))
=============================================================================
