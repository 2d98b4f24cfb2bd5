--------------------------- MODULE PasskeyBridge ---------------------------
(***************************************************************************)
(* The ceremony window: runPasskeyBridgeAndWait in the service worker      *)
(* (background/webauthn/passkeyBridge.ts), the extension page it opens     *)
(* (tabs/passkey-bridge.tsx) and the publication of its result             *)
(* (ui/webauthn/passkeyBridge.ts).  The worker stores the options under a  *)
(* fresh ticket, opens a window, and waits for the first of a runtime      *)
(* message, a change of the result key in session storage, a failure to    *)
(* open the window, and a timer.  Session storage outlives the worker;     *)
(* the waiters do not.                                                     *)
(***************************************************************************)
EXTENDS Naturals, FiniteSets

CONSTANTS Tickets,          \* one per call of runPasskeyBridgeAndWait
          MaxBridgeRestarts \* bound on stops of the service worker

ASSUME BridgeAssumption == MaxBridgeRestarts \in Nat

VARIABLES
    waiter,      \* Tickets -> the call that waits, and what it answered
    ceremony,    \* Tickets -> what the user's authenticator did in the window
    bridgeTab,   \* Tickets -> the page in the window
    optionKeys,  \* tickets whose options are in session storage
    resultKeys,  \* Tickets -> the stored result, or "none"
    bridgeNews,  \* <<kind, ticket>> notifications on their way to the worker
    bridgeStops  \* stops of the worker so far

bridgeVars == <<waiter, ceremony, bridgeTab, optionKeys, resultKeys, bridgeNews, bridgeStops>>

Outcomes == {"ok", "failed"}
Answered == {"ok", "failed", "timedout", "noWindow"}
Unsettled == {"storing", "opening", "waiting"}
WindowNews == {"stored", "window", "id", "close"}   \* callbacks that run settled or not

BridgeInit ==
    /\ waiter = [t \in Tickets |-> "idle"]
    /\ ceremony = [t \in Tickets |-> "none"]
    /\ bridgeTab = [t \in Tickets |-> "none"]
    /\ optionKeys = {}
    /\ resultKeys = [t \in Tickets |-> "none"]
    /\ bridgeNews = {}
    /\ bridgeStops = 0

-----------------------------------------------------------------------------
(* The waiter in the service worker.                                       *)

(* finish: the first outcome wins; both keys are dropped, the listeners    *)
(* are removed, and the window is asked to close when its id is known.     *)
Finish(t, answer) ==
    /\ waiter[t] \in Unsettled
    /\ waiter' = [waiter EXCEPT ![t] = answer]
    /\ optionKeys' = optionKeys \ {t}
    /\ resultKeys' = [resultKeys EXCEPT ![t] = "none"]
    /\ bridgeNews' = {n \in bridgeNews : n[2] # t \/ n[1] \in WindowNews}
                         \cup (IF waiter[t] = "waiting" THEN {<<"close", t>>} ELSE {})
    /\ UNCHANGED <<ceremony, bridgeTab, bridgeStops>>

(* Store the options, subscribe, start the timer and look for a result.    *)
OpenBridge(t) ==
    /\ waiter[t] = "idle"
    /\ waiter' = [waiter EXCEPT ![t] = "storing"]
    /\ optionKeys' = optionKeys \cup {t}
    /\ bridgeNews' = bridgeNews \cup {<<"stored", t>>}
    /\ UNCHANGED <<ceremony, bridgeTab, resultKeys, bridgeStops>>

(* The options are stored: ask for the window, even when the timer ended   *)
(* the call meanwhile.                                                     *)
OptionsStored(t) ==
    /\ <<"stored", t>> \in bridgeNews
    /\ waiter' = [waiter EXCEPT ![t] = IF @ = "storing" THEN "opening" ELSE @]
    /\ bridgeNews' = (bridgeNews \ {<<"stored", t>>}) \cup {<<"window", t>>}
    /\ UNCHANGED <<ceremony, bridgeTab, optionKeys, resultKeys, bridgeStops>>

(* Session storage refused the options.                                    *)
OptionsRefused(t) ==
    /\ waiter[t] = "storing"
    /\ waiter' = [waiter EXCEPT ![t] = "noWindow"]
    /\ optionKeys' = optionKeys \ {t}
    /\ bridgeNews' = bridgeNews \ {<<"stored", t>>}
    /\ UNCHANGED <<ceremony, bridgeTab, resultKeys, bridgeStops>>

(* The browser opens the page, before the worker learns the window's id.   *)
WindowOpens(t) ==
    /\ <<"window", t>> \in bridgeNews
    /\ bridgeTab[t] = "none"
    /\ bridgeTab' = [bridgeTab EXCEPT ![t] = "loading"]
    /\ bridgeNews' = (bridgeNews \ {<<"window", t>>}) \cup {<<"id", t>>}
    /\ UNCHANGED <<waiter, ceremony, optionKeys, resultKeys, bridgeStops>>

(* The callback of windows.create: a call already settled closes it.       *)
WindowKnown(t) ==
    /\ <<"id", t>> \in bridgeNews
    /\ waiter' = [waiter EXCEPT ![t] = IF @ = "opening" THEN "waiting" ELSE @]
    /\ bridgeNews' = (bridgeNews \ {<<"id", t>>})
                         \cup (IF waiter[t] \in Answered THEN {<<"close", t>>} ELSE {})
    /\ UNCHANGED <<ceremony, bridgeTab, optionKeys, resultKeys, bridgeStops>>

(* ... and a failure to open it ends a call that still waits.              *)
WindowFailed(t) ==
    /\ <<"window", t>> \in bridgeNews
    /\ waiter' = [waiter EXCEPT ![t] = IF @ = "opening" THEN "noWindow" ELSE @]
    /\ optionKeys' = IF waiter[t] = "opening" THEN optionKeys \ {t} ELSE optionKeys
    /\ bridgeNews' = bridgeNews \ {<<"window", t>>}
    /\ UNCHANGED <<ceremony, bridgeTab, resultKeys, bridgeStops>>

(* onMsg and onStorage: either brings the result of the call's own ticket. *)
ResultArrives(t, kind) ==
    \E r \in Outcomes : <<kind, t, r>> \in bridgeNews /\ Finish(t, r)

BridgeTimesOut(t) == Finish(t, "timedout")

(* The worker stops: its waiters, timers and listeners are gone.           *)
BridgeStop ==
    /\ bridgeStops < MaxBridgeRestarts
    /\ bridgeStops' = bridgeStops + 1
    /\ waiter' = [t \in Tickets |-> IF waiter[t] \in Unsettled THEN "lost" ELSE waiter[t]]
    /\ bridgeNews' = {n \in bridgeNews : n[1] \in {"window", "close"}}
    /\ UNCHANGED <<ceremony, bridgeTab, optionKeys, resultKeys>>

-----------------------------------------------------------------------------
(* The page in the window.                                                 *)

(* The page takes the options out of session storage, once.                *)
TakeOptions(t) ==
    /\ bridgeTab[t] = "loading"
    /\ bridgeTab' = [bridgeTab EXCEPT ![t] = IF t \in optionKeys THEN "ready" ELSE "expired"]
    /\ optionKeys' = optionKeys \ {t}
    /\ UNCHANGED <<waiter, ceremony, resultKeys, bridgeNews, bridgeStops>>

(* runCeremony: the user presses Continue and answers the prompt.          *)
RunCeremony(t) ==
    /\ bridgeTab[t] = "ready"
    /\ bridgeTab' = [bridgeTab EXCEPT ![t] = "done"]
    /\ \E r \in Outcomes : ceremony' = [ceremony EXCEPT ![t] = r]
    /\ UNCHANGED <<waiter, optionKeys, resultKeys, bridgeNews, bridgeStops>>

(* Variant: every failure of the page is published as a success. *)
PublishAlwaysOk(t) ==
    /\ bridgeTab[t] = "done"
    /\ bridgeTab' = [bridgeTab EXCEPT ![t] = "published"]
    /\ resultKeys' = [resultKeys EXCEPT ![t] = "ok"]
    /\ bridgeNews' = bridgeNews \cup
          (IF waiter[t] \in Unsettled THEN {<<"storage", t, "ok">>} ELSE {})
    /\ UNCHANGED <<waiter, ceremony, optionKeys, bridgeStops>>

(* publishPasskeyBridgeResult, first half: store the result.               *)
PublishResult(t) ==
    /\ bridgeTab[t] = "done"
    /\ bridgeTab' = [bridgeTab EXCEPT ![t] = "published"]
    /\ resultKeys' = [resultKeys EXCEPT ![t] = ceremony[t]]
    /\ bridgeNews' = bridgeNews \cup
          (IF waiter[t] \in Unsettled THEN {<<"storage", t, ceremony[t]>>} ELSE {})
    /\ UNCHANGED <<waiter, ceremony, optionKeys, bridgeStops>>

(* Second half: send it as a message too, then close the window.           *)
TellTheWorker(t) ==
    /\ bridgeTab[t] = "published"
    /\ bridgeTab' = [bridgeTab EXCEPT ![t] = "closed"]
    /\ bridgeNews' = bridgeNews \cup
          (IF waiter[t] \in Unsettled THEN {<<"message", t, ceremony[t]>>} ELSE {})
    /\ UNCHANGED <<waiter, ceremony, optionKeys, resultKeys, bridgeStops>>

(* The window closes, by the worker's request or by the user: nothing      *)
(* tells the waiter about the second.                                      *)
CloseWindow(t) ==
    /\ bridgeTab[t] \in {"loading", "ready", "expired", "done", "published"}
    /\ bridgeTab' = [bridgeTab EXCEPT ![t] = "closed"]
    /\ bridgeNews' = bridgeNews \ {<<"close", t>>}
    /\ UNCHANGED <<waiter, ceremony, optionKeys, resultKeys, bridgeStops>>

BridgeStep(t) ==
    \/ OptionsStored(t) \/ WindowOpens(t) \/ WindowKnown(t) \/ TakeOptions(t)
    \/ PublishResult(t) \/ TellTheWorker(t)
    \/ \E kind \in {"storage", "message"} : ResultArrives(t, kind)

BridgeNext ==
    \/ \E t \in Tickets :
        \/ OpenBridge(t) \/ OptionsRefused(t) \/ WindowFailed(t)
        \/ RunCeremony(t) \/ BridgeTimesOut(t) \/ CloseWindow(t)
        \/ BridgeStep(t)
    \/ BridgeStop

-----------------------------------------------------------------------------
BridgeTypeOK ==
    /\ waiter \in [Tickets -> Answered \cup Unsettled \cup {"idle", "lost"}]
    /\ ceremony \in [Tickets -> Outcomes \cup {"none"}]
    /\ bridgeTab \in [Tickets -> {"none", "loading", "ready", "expired", "done",
                                  "published", "closed"}]
    /\ optionKeys \subseteq Tickets
    /\ resultKeys \in [Tickets -> Outcomes \cup {"none"}]
    /\ bridgeStops \in 0 .. MaxBridgeRestarts

(* A call answers with a credential only when the user's authenticator     *)
(* gave one in the window of that very ticket, and reports a failed        *)
(* ceremony only when one failed, whatever the messages, storage events,   *)
(* timers and closed windows do on the way.                                *)
BridgeTellsTheOutcome ==
    \A t \in Tickets : waiter[t] \in Outcomes => ceremony[t] = waiter[t]
=============================================================================
