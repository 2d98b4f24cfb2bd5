------------------------------ MODULE Toolbar -------------------------------
(***************************************************************************)
(* What a click on the toolbar button does (background/actionBehavior.ts): *)
(* the page of first-time setup while the network has no wallet, then the  *)
(* popup or the side panel, as the user chose.  Every change of the stored *)
(* wallets, of the choice and of the network starts a run of its own, that *)
(* reads again and sets the button with several calls; runs overlap.       *)
(***************************************************************************)
EXTENDS Naturals, FiniteSets, SequencesExt

CONSTANTS ToolNets,         \* networks
          Runs,             \* runs at a time
          MaxToolChanges,   \* bound on changes
          MaxToolStops      \* bound on restarts of the service worker

ASSUME ToolbarAssumption ==
    ToolNets # {} /\ 1 \in Runs /\ Runs \subseteq Nat /\ {MaxToolChanges, MaxToolStops} \subseteq Nat

VARIABLES
    funded,     \* networks this install has wallets on
    setUp,      \* networks whose setup state says so
    toolNet,    \* the active network
    surface,    \* the stored choice
    button,     \* the popup of the button, whether it opens the panel, who listens to its clicks
    runs,       \* the runs in progress
    setupTabs,  \* pages of first-time setup, and the openings in progress
    toolMoves,  \* changes so far
    toolStops,  \* restarts so far
    muddled     \* history: the button was set by a run that had read before a change, or in part

toolbarVars == <<funded, setUp, toolNet, surface, button, runs, setupTabs, toolMoves, toolStops,
                 muddled>>

NoRun == [at |-> "none", stale |-> FALSE]
NewRun(at) == [at |-> at, stale |-> FALSE]

ToolbarInit ==
    /\ funded \in SUBSET ToolNets /\ setUp = {} /\ toolNet \in ToolNets /\ surface = "unset"
    /\ button = [popup |-> "popup", panel |-> FALSE, listening |-> FALSE]
    /\ runs = [r \in Runs |-> IF r = 1 THEN NewRun("init") ELSE NoRun]
    /\ setupTabs = [open |-> 0, asking |-> 0]
    /\ toolMoves = 0 /\ toolStops = 0 /\ muddled = TRUE

FreeRuns == {r \in Runs : runs[r].at = "none"}
Begun(rs) == [rs EXCEPT ![CHOOSE r \in FreeRuns : TRUE] = NewRun("match")]
HasRead(r) == runs[r].at \in {"pref", "popup", "panel"}
Staled == [r \in Runs |-> [runs[r] EXCEPT !.stale = @ \/ HasRead(r)]]

-----------------------------------------------------------------------------
(* A run.                                                                  *)

(* initExtensionActionBehavior: the popup is the choice until there is one.*)
RunInits(r) ==
    /\ runs[r].at = "init" /\ (surface = "unset" => FreeRuns # {})
    /\ LET next == [runs EXCEPT ![r] = NewRun("match")]
       IN IF surface = "unset" THEN surface' = "popup" /\ runs' = Begun(next)
          ELSE runs' = next /\ UNCHANGED surface
    /\ UNCHANGED <<funded, setUp, toolNet, button, setupTabs, toolMoves, toolStops, muddled>>

(* ensureSetupStateMatchesAccounts: the wallets, then the setup state, of  *)
(* the network that is active when each is read, and written.              *)
RunMatches(r) ==
    /\ runs[r].at = "match"
    /\ runs' = [runs EXCEPT ![r].at = IF toolNet \in funded THEN "state" ELSE "apply"]
    /\ UNCHANGED <<funded, setUp, toolNet, surface, button, setupTabs, toolMoves, toolStops, muddled>>

RunReadsState(r) ==
    /\ runs[r].at = "state"
    /\ runs' = [runs EXCEPT ![r].at = IF toolNet \in setUp THEN "apply" ELSE "write"]
    /\ UNCHANGED <<funded, setUp, toolNet, surface, button, setupTabs, toolMoves, toolStops, muddled>>

(* setSetupState: what is written starts one more run.                     *)
RunWritesState(r) ==
    /\ runs[r].at = "write" /\ (toolNet \notin setUp => FreeRuns # {})
    /\ setUp' = setUp \cup {toolNet}
    /\ LET next == [runs EXCEPT ![r].at = "apply"]
       IN runs' = IF toolNet \in setUp THEN next ELSE Begun(next)
    /\ UNCHANGED <<funded, toolNet, surface, button, setupTabs, toolMoves, toolStops, muddled>>

(* needsOnboardingFlow and syncOnboardingActionClickListener: a listener   *)
(* keeps the click from the panel, so it is there only while it must be.   *)
RunReads(r) ==
    /\ runs[r].at = "apply"
    /\ LET needs == toolNet \notin funded
       IN /\ button' = [button EXCEPT !.listening = needs]
          /\ runs' = [runs EXCEPT ![r] = IF needs THEN [at |-> "popup", stale |-> FALSE, sets |-> "setup"]
                                         ELSE NewRun("pref")]
    /\ muddled' = FALSE
    /\ UNCHANGED <<funded, setUp, toolNet, surface, setupTabs, toolMoves, toolStops>>

RunReadsPref(r) ==
    /\ runs[r].at = "pref"
    /\ runs' = [runs EXCEPT ![r] = [at |-> "popup", stale |-> @.stale,
                   sets |-> IF surface = "sidepanel" THEN "sidepanel" ELSE "popup"]]
    /\ UNCHANGED <<funded, setUp, toolNet, surface, button, setupTabs, toolMoves, toolStops, muddled>>

(* applyUiSurfacePreference and the same of first-time setup: one call for *)
(* the popup, one for the panel.                                           *)
RunSetsPopup(r) ==
    /\ runs[r].at = "popup"
    /\ button' = [button EXCEPT !.popup = IF runs[r].sets = "popup" THEN "popup" ELSE "none"]
    /\ runs' = [runs EXCEPT ![r].at = "panel"]
    /\ muddled' = (muddled \/ runs[r].stale)
    /\ UNCHANGED <<funded, setUp, toolNet, surface, setupTabs, toolMoves, toolStops>>

RunSetsPanel(r) ==
    /\ runs[r].at = "panel"
    /\ button' = [button EXCEPT !.panel = runs[r].sets = "sidepanel"]
    /\ runs' = [runs EXCEPT ![r] = NoRun]
    /\ muddled' = (muddled \/ runs[r].stale)
    /\ UNCHANGED <<funded, setUp, toolNet, surface, setupTabs, toolMoves, toolStops>>

(* A call of the browser fails: the rest is left.                          *)
RunFails(r) ==
    /\ runs[r].at \in {"popup", "panel"}
    /\ runs' = [runs EXCEPT ![r] = NoRun] /\ muddled' = TRUE
    /\ UNCHANGED <<funded, setUp, toolNet, surface, button, setupTabs, toolMoves, toolStops>>

-----------------------------------------------------------------------------
(* What the runs follow.                                                   *)

(* Variant: a switch of the network starts no run. *)
NetIsNotFollowed(rs) == rs

(* chrome.storage.onChanged: of the wallets and their setup state, of the  *)
(* choice, of the network.                                                 *)
Followed(rs) == Begun(rs)

ToolMoves ==
    /\ toolMoves < MaxToolChanges /\ FreeRuns # {}
    /\ toolMoves' = toolMoves + 1
    /\ UNCHANGED <<button, setupTabs, toolStops, muddled>>

(* The first wallet of the network, or its last is removed, which takes    *)
(* its setup state along.                                                  *)
WalletsMove ==
    /\ ToolMoves
    /\ \/ toolNet \notin funded /\ funded' = funded \cup {toolNet} /\ UNCHANGED setUp
       \/ toolNet \in funded /\ funded' = funded \ {toolNet} /\ setUp' = setUp \ {toolNet}
    /\ runs' = Followed(Staled)
    /\ UNCHANGED <<toolNet, surface>>

NetMoves ==
    /\ ToolMoves
    /\ toolNet' \in ToolNets \ {toolNet} /\ runs' = Followed(Staled)
    /\ UNCHANGED <<funded, setUp, surface>>

(* useUiSurfacePreference, OPEN_WALLET_AFTER_ONBOARDING and an update of   *)
(* the extension, which goes back to the popup; the last two run it        *)
(* themselves, too.                                                        *)
SurfaceMoves ==
    /\ ToolMoves
    /\ \E to \in {"popup", "sidepanel"} : surface' = to /\ to # surface
    /\ runs' = Followed(Staled)
    /\ UNCHANGED <<funded, setUp, toolNet>>

WorkerRuns ==
    /\ ToolMoves /\ runs' = Begun(runs)
    /\ UNCHANGED <<funded, setUp, toolNet, surface>>

-----------------------------------------------------------------------------
(* A click, and the page of first-time setup: handleOnboardingActionClick  *)
(* and openOnboardingTab, which looks for a page that is open.             *)

Clicked ==
    /\ button.popup = "none" /\ button.listening /\ setupTabs.asking < 2
    /\ toolNet \notin funded
    /\ setupTabs' = [setupTabs EXCEPT !.asking = @ + 1]
    /\ UNCHANGED <<funded, setUp, toolNet, surface, button, runs, toolMoves, toolStops, muddled>>

SetupTabShown ==
    /\ setupTabs.asking > 0
    /\ setupTabs' = [open |-> IF setupTabs.open = 0 THEN 1 ELSE setupTabs.open,
                     asking |-> setupTabs.asking - 1]
    /\ UNCHANGED <<funded, setUp, toolNet, surface, button, runs, toolMoves, toolStops, muddled>>

(* The worker stops: its runs and its listener are gone; it starts anew.   *)
ToolbarRestart ==
    /\ toolStops < MaxToolStops /\ toolStops' = toolStops + 1
    /\ runs' = [r \in Runs |-> IF r = 1 THEN NewRun("init") ELSE NoRun]
    /\ button' = [button EXCEPT !.listening = FALSE]
    /\ setupTabs' = [setupTabs EXCEPT !.asking = 0] /\ muddled' = TRUE
    /\ UNCHANGED <<funded, setUp, toolNet, surface, toolMoves>>

ToolbarNext ==
    \/ \E r \in Runs : \/ RunInits(r) \/ RunMatches(r) \/ RunReadsState(r) \/ RunWritesState(r)
                       \/ RunReads(r) \/ RunReadsPref(r) \/ RunSetsPopup(r) \/ RunSetsPanel(r)
                       \/ RunFails(r)
    \/ WalletsMove \/ NetMoves \/ SurfaceMoves \/ WorkerRuns
    \/ Clicked \/ SetupTabShown \/ ToolbarRestart

-----------------------------------------------------------------------------
ToolbarTypeOK ==
    /\ funded \subseteq ToolNets /\ setUp \subseteq ToolNets /\ toolNet \in ToolNets
    /\ surface \in {"unset", "popup", "sidepanel"}
    /\ button.popup \in {"popup", "none"}

(* Once the runs are over, and the last to read was the last to set, the   *)
(* button does what the network's wallets and the user's choice ask for,   *)
(* and a network with a wallet is known to be set up: no change goes       *)
(* without a run, and what one run writes is undone by no other.           *)
ButtonOpensTheWallet ==
    (\A r \in Runs : runs[r].at = "none") /\ ~muddled =>
        /\ toolNet \in funded => toolNet \in setUp
        /\ button = [popup |-> IF toolNet \in funded /\ surface # "sidepanel" THEN "popup" ELSE "none",
                     panel |-> toolNet \in funded /\ surface = "sidepanel",
                     listening |-> toolNet \notin funded]
=============================================================================
