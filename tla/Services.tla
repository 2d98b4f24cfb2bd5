------------------------------ MODULE Services ------------------------------
(***************************************************************************)
(* The services of the worker that share no state with each other, each    *)
(* with the screens it serves: a behaviour exercises one of them.          *)
(***************************************************************************)
EXTENDS PasskeyBridge, Migration, Reads, Activity, ApiSession, Enrolment, MultisigDrafts,
        Proposals, Sending

CONSTANT Slots    \* numbers the concurrent calls of a service

VARIABLE part     \* the service of this behaviour

vars == <<part, bridgeVars, migrationVars, readsVars, activityVars, apiVars, enrolVars,
          draftVars, proposalVars, sendVars>>

Parts == {"bridge", "migration", "reads", "activity", "tokens", "rites", "enrol",
          "drafts", "proposals", "sending"}

ServicesInit ==
    /\ part \in Parts
    /\ BridgeInit /\ ReadsInit /\ ActivityInit /\ ApiInit
    /\ MigrationInit /\ (part # "migration" => classic.xlm = 0 /\ classic.coins = {} /\ seedLoaded)
    /\ EnrolInit /\ (part # "enrol" => flow = "login")
    /\ DraftInit /\ (part # "drafts" => ~invited /\ ~draft.exists)
    /\ ProposalInit /\ (part # "proposals" => pageShown = "home" /\ signer = "passkey")
    /\ SendInit /\ (part # "sending" => ~send.multi)

(* The step of one service: the others stand still.                        *)
Only(p) ==
    /\ part = p /\ part' = p
    /\ IF p = "bridge" THEN TRUE ELSE UNCHANGED bridgeVars
    /\ IF p = "migration" THEN TRUE ELSE UNCHANGED migrationVars
    /\ IF p = "reads" THEN TRUE ELSE UNCHANGED readsVars
    /\ IF p = "activity" THEN TRUE ELSE UNCHANGED activityVars
    /\ IF p \in {"tokens", "rites"} THEN TRUE ELSE UNCHANGED apiVars
    /\ IF p = "enrol" THEN TRUE ELSE UNCHANGED enrolVars
    /\ IF p = "drafts" THEN TRUE ELSE UNCHANGED draftVars
    /\ IF p = "proposals" THEN TRUE ELSE UNCHANGED proposalVars
    /\ IF p = "sending" THEN TRUE ELSE UNCHANGED sendVars

ServicesNext ==
    \/ Only("bridge") /\ BridgeNext
    \/ Only("migration") /\ MigrationNext
    \/ Only("reads") /\ ReadsNext
    \/ Only("activity") /\ ActivityNext
    \/ Only("tokens") /\ TokensNext
    \/ Only("rites") /\ RitesNext
    \/ Only("enrol") /\ EnrolNext
    \/ Only("drafts") /\ DraftNext
    \/ Only("proposals") /\ ProposalNext
    \/ Only("sending") /\ SendNext

(* What a service owes its k-th call: timers fire, storage and requests    *)
(* answer or fail.  The calls of the last four are bounded in number and   *)
(* owed together.  Users owe nothing.                                      *)
ServiceOwes(k) ==
    \/ part = "bridge" /\ BridgeTimesOut(k) /\ Only("bridge")
    \/ part = "migration" /\ SweepStep(k) /\ Only("migration")
    \/ part = "activity" /\ ScanStep(k) /\ Only("activity")
    \/ part = "tokens" /\ CallStep(k) /\ Only("tokens")
    \/ part = "enrol" /\ EnrolAnswers(k) /\ Only("enrol")
    \/ k = 1 /\ \/ part = "reads" /\ (\E i \in Ids : ReadEnds(i)) /\ Only("reads")
                \/ part = "drafts" /\ (\E c \in calls : CallMoves(c)) /\ Only("drafts")
                \/ part = "proposals" /\ (\E t \in tickets : TicketMoves(t)) /\ Only("proposals")
                \/ part = "sending" /\ (\E a \in sendAsks : SendMoves(a)) /\ Only("sending")

ServicesSpec ==
    /\ ServicesInit /\ [][ServicesNext]_vars
    /\ \A k \in Slots : WF_vars(ServiceOwes(k))

-----------------------------------------------------------------------------
ServicesTypeOK ==
    /\ part \in Parts
    /\ part = "bridge" => BridgeTypeOK
    /\ part = "migration" => MigrationTypeOK
    /\ part = "reads" => ReadsTypeOK
    /\ part = "activity" => ActivityTypeOK
    /\ part \in {"tokens", "rites"} => ApiTypeOK
    /\ part = "enrol" => EnrolTypeOK
    /\ part = "drafts" => DraftTypeOK
    /\ part = "proposals" => ProposalTypeOK
    /\ part = "sending" => SendTypeOK

(* The k-th call of the service is under way.                              *)
Pending(k) ==
    \/ waiter[k] \in Unsettled
    \/ sweep[k].at # "idle"
    \/ pane.id = k /\ pane.loading
    \/ scan[k].at \in {"scanning", "joined", "found", "merging"}
    \/ call[k].at # "idle"
    \/ \E a \in prefetches : a.visit = k
    \/ \E c \in calls : c.k = k
    \/ part = "sending" /\ k = 1 /\ SendBusy

(* Every call of a service ends: a ceremony window is answered, a sweep    *)
(* confirmed or given up, a request shown or failed, a scan stored or not, *)
(* an API call or a click of a wizard answered, whatever the others do.    *)
ServicesAnswer == \A k \in Slots : Pending(k) ~> ~Pending(k)

-----------------------------------------------------------------------------
(* A late answer shows up only where it was asked for: balances under the  *)
(* account they are of, a price for the token it is of.                    *)
AnswersFindTheirPlace == RowsAreOfTheAccount /\ PriceIsOfTheToken

(* What is signed is what its screen showed at the click, whatever answers *)
(* changed the screen meanwhile: a multisig's proposal, a payment's token, *)
(* amount and recipient.                                                   *)
SignedIsShown == ApprovedIsShown /\ ReviewIsOfTheDraft
=============================================================================
