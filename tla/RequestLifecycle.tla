-------------------------- MODULE RequestLifecycle --------------------------
(***************************************************************************)
(* What requestState.ts promises of a dApp request, whoever asks, decides, *)
(* polls or restarts: one direction, one decision ("first writer wins"),   *)
(* and an id that is gone never comes back.                                *)
(***************************************************************************)
CONSTANT Reqs
VARIABLE status

Unanswered == {"awaiting_user", "signing"}
Answered   == {"approved", "rejected", "expired"}
States     == {"new"} \cup Unanswered \cup Answered \cup {"gone"}

LInit == status = [r \in Reqs |-> "new"]

Becomes(r, s) == status' = [status EXCEPT ![r] = s]

Ask(r)          == status[r] = "new" /\ Becomes(r, "awaiting_user")
StartSigning(r) == status[r] = "awaiting_user" /\ Becomes(r, "signing")
Decide(r)       == status[r] \in Unanswered /\ \E d \in {"approved", "rejected"} : Becomes(r, d)

\* One sweep expires unanswered requests and drops answered ones.
Sweep(S) ==
    /\ \A r \in S : status[r] \in Unanswered \cup Answered
    /\ status' = [r \in Reqs |-> IF r \notin S THEN status[r]
                                 ELSE IF status[r] \in Unanswered THEN "expired" ELSE "gone"]

\* Requests lost with a restart, a closed window or a logout.
Lose(S) ==
    status' = [r \in Reqs |-> IF r \in S THEN "gone" ELSE status[r]]

LNext ==
    \/ \E r \in Reqs : Ask(r) \/ StartSigning(r) \/ Decide(r)
    \/ \E S \in SUBSET Reqs : Sweep(S) \/ Lose(S)

LSpec == LInit /\ [][LNext]_status
=============================================================================
