--------------------------- MODULE MCDappApproval ---------------------------
(***************************************************************************)
(* Instances of DappApproval for TLC: which messages and faults a run lets *)
(* happen.  Slots are interchangeable, and so are origins.                 *)
(***************************************************************************)
EXTENDS DappApproval, TLC

SlotSymmetry   == Permutations(Tasks)
OriginSymmetry == {p @@ q : p \in SlotSymmetry, q \in Permutations(Origins)}

\* Everything that reads or writes a key another handler also writes.
OverlapOps ==
    {"DAPP_GET_PUBLIC_KEY", "DAPP_SIGN_TRANSACTION", "DAPP_POLL_REQUEST_RESULT",
     "DAPP_DISCONNECT", "RESOLVE_PENDING_DAPP_REQUEST", "EXECUTE_DAPP_EXTERNAL_SIGN"}

\* Every message, time and both restarts.
SerialOps ==
    HandlerOps \cup {"TICK", "SW_RESTART", "BROWSER_RESTART"}
=============================================================================
