---------------------------- MODULE MCDappSystem ----------------------------
(***************************************************************************)
(* Instances of DappSystem for TLC: which provider methods the calls use,  *)
(* what else may happen, and whose page makes which call.                  *)
(***************************************************************************)
EXTENDS DappSystem, TLC

CONSTANTS o1, c1, c2, c3

SlotSymmetry == Permutations(Tasks)

OneOrigin == [c \in Calls |-> o1]

\* Which methods each call may use.
Connect         == [c \in Calls |-> {"DAPP_GET_PUBLIC_KEY"}]
ConnectThenSign == [c \in Calls |-> IF c = c1 THEN {"DAPP_GET_PUBLIC_KEY"}
                                              ELSE {"DAPP_SIGN_TRANSACTION"}]
ConnectAndLeave == [c \in Calls |-> IF c = c3 THEN {"DAPP_DISCONNECT"}
                                              ELSE {"DAPP_GET_PUBLIC_KEY"}]

\* What may happen besides the calls: the user decides; a surface goes away;
\* the service worker is stopped; time passes.
UserOps   == DappOps \cup {"RESOLVE_PENDING_DAPP_REQUEST", "EXECUTE_DAPP_EXTERNAL_SIGN",
                           "LIST_PENDING_DAPP_REQUESTS", "DECIDE"}
HideOps   == UserOps \cup {"HIDE"}
SettleOps == HideOps \cup {"SW_RESTART", "TICK"}
FaultOps  == HideOps \cup {"WINDOW_CLOSED", "SW_RESTART"}
=============================================================================
