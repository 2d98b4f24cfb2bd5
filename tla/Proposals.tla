----------------------------- MODULE Proposals -----------------------------
(***************************************************************************)
(* The proposals of a multisig wallet                                      *)
(* (ui/multisig/MultisigProposalsViews.tsx): read, approved with a passkey *)
(* or a seed account (ui/lib/multisigApprove.ts,                           *)
(* background/confirm/executeMultisigApprove.ts) and executed.  The screen    *)
(* keeps what it shows and which proposal is open apart; answers set       *)
(* either when they come, and a popup dies under the passkey window.       *)
(***************************************************************************)
EXTENDS Naturals, FiniteSets

CONSTANTS ProposalIds,       \* proposals of the wallet, numbered
          MaxProposalCalls,  \* bound on the calls made
          MaxVersions        \* bound on the simulations of a proposal

ASSUME ProposalsAssumption ==
    MaxProposalCalls \in Nat /\ MaxVersions \in Nat \ {0} /\ ProposalIds \subseteq Nat \ {0}

VARIABLES
    pageShown,    \* "home", "list", "detail" or "closed"
    shownProposal, \* the proposal shown, as it was answered
    openId,    \* the proposal that is open: executed and refreshed
    acting,    \* proposalBusy
    linked,    \* the proposal a link or a new send opens with the screen
    proposal,  \* the backend's: simulation, who approved, executed
    tickets,   \* calls under way
    asked,     \* how many were made
    outcome,   \* the stored outcome of an approval: status and proposal
    signer,    \* how this member signs
    approvals  \* the approvals the backend was sent

proposalVars == <<pageShown, shownProposal, openId, acting, linked, proposal, tickets, asked, outcome,
                  signer, approvals>>

NoId == 0
Kinds == {"passkey", "delegated", "unknown"}
NoOutcome == [status |-> "none", of |-> NoId]
NotShown == [of |-> NoId, sim |-> 0, mine |-> FALSE, ready |-> FALSE]

Get(p) == [op |-> "get", of |-> p, sim |-> 0, seen |-> NoId, at |-> "sent", lost |-> FALSE]

(* At home, or on a proposal just clicked while another one was linked.    *)
ProposalInit ==
    /\ pageShown \in {"home", "detail"} /\ shownProposal = NotShown /\ openId = NoId
    /\ acting = (pageShown = "detail")
    /\ linked \in IF pageShown = "home" THEN {NoId} ELSE ProposalIds \ {1}
    /\ proposal = [p \in ProposalIds |-> [sim |-> 1, mine |-> FALSE, others |-> p = 1,
                                          executed |-> FALSE]]
    /\ tickets = IF pageShown = "home" THEN {} ELSE {Get(p) : p \in ProposalIds}
    /\ asked = 0
    /\ outcome = NoOutcome /\ approvals = {}
    /\ signer \in IF pageShown = "home" THEN Kinds ELSE {"delegated"}

-----------------------------------------------------------------------------
(* What the screen makes of a proposal.                                    *)

(* Two approvals are enough, until it was executed.                        *)
ReadyToExecute(p) == p.mine /\ p.others /\ ~p.executed

Normalized(i) ==
    [of |-> i, sim |-> proposal[i].sim,
     mine |-> proposal[i].mine \/ proposal[i].executed, ready |-> ReadyToExecute(proposal[i])]

NeedsMyApproval == shownProposal.of # NoId /\ ~shownProposal.mine

(* A call that is under way is not sent twice at once.                     *)
AsksFor(op, of, sim, at) ==
    LET t == [op |-> op, of |-> of, sim |-> sim, seen |-> shownProposal.of, at |-> at, lost |-> FALSE]
    IN  /\ asked < MaxProposalCalls /\ t \notin tickets
        /\ asked' = asked + 1
        /\ tickets' = tickets \cup {t}
        /\ acting' = TRUE

(* The component is left: its state is lost and so is what it waits for;   *)
(* a chain of calls of its own ends with the page only.                    *)
Left(gone) == {[t EXCEPT !.lost = TRUE] : t \in {t \in tickets : ~gone \/ t.at \notin {"begin", "sign"}}}

-----------------------------------------------------------------------------
(* The clicks.                                                             *)

(* The list, from home.                                                    *)
OpenList ==
    /\ pageShown = "home" /\ pageShown' = "list"
    /\ UNCHANGED <<shownProposal, openId, acting, linked, proposal, tickets, asked, outcome, signer, approvals>>

(* A proposal of the list.  The effect of the screen asks for the linked   *)
(* one as well, whichever was clicked: nothing clears the link.            *)
OpenProposal(i) ==
    /\ pageShown = "list"
    /\ pageShown' = "detail"
    /\ LET wants == {i} \cup IF linked = NoId THEN {} ELSE {linked}
       IN  /\ asked + Cardinality(wants) <= MaxProposalCalls
           /\ asked' = asked + Cardinality(wants)
           /\ tickets' = tickets \cup {Get(w) : w \in wants}
    /\ acting' = TRUE
    /\ UNCHANGED <<shownProposal, openId, linked, proposal, outcome, signer, approvals>>

BackToList ==
    /\ pageShown = "detail" /\ pageShown' = "list"
    /\ UNCHANGED <<shownProposal, openId, acting, linked, proposal, tickets, asked, outcome, signer, approvals>>

(* Home, or the popup closes: by the user or under the passkey window.     *)
LeaveProposals(to) ==
    /\ pageShown # "closed" /\ pageShown # to
    /\ to = "home" => pageShown = "list"
    /\ pageShown' = to
    /\ shownProposal' = NotShown /\ openId' = NoId /\ acting' = FALSE
    /\ linked' = IF to = "closed" THEN NoId ELSE linked
    /\ tickets' = Left(to = "closed")
    /\ UNCHANGED <<proposal, asked, outcome, signer, approvals>>

(* Variant: the open proposal is approved, as it is the one executed. *)
ApprovesTheOpen == openId

(* runApprove takes the proposal on screen, its digest with it.            *)
Approves == shownProposal.of

(* A member of unknown kind cannot sign; the popup notes that it began.    *)
ClickApprove ==
    /\ pageShown = "detail" /\ NeedsMyApproval /\ ~acting /\ signer # "unknown" /\ Approves # NoId
    /\ AsksFor("approve", Approves, shownProposal.sim,
             IF signer = "passkey" THEN "window" ELSE "begin")
    /\ outcome' = [status |-> "in_progress", of |-> Approves]
    /\ UNCHANGED <<pageShown, shownProposal, openId, linked, proposal, signer, approvals>>

(* The proposal that is open, which need not be the one on screen.         *)
ClickExecute ==
    /\ pageShown = "detail" /\ shownProposal.ready /\ ~acting /\ openId # NoId
    /\ AsksFor("execute", openId, 0, "sent")
    /\ UNCHANGED <<pageShown, shownProposal, openId, linked, proposal, outcome, signer, approvals>>

ClickRefresh ==
    /\ pageShown = "detail" /\ shownProposal.of # NoId /\ ~acting /\ openId # NoId
    /\ AsksFor("refresh", openId, 0, "sent")
    /\ UNCHANGED <<pageShown, shownProposal, openId, linked, proposal, outcome, signer, approvals>>

(* The popup is opened again.  An outcome leads to its proposal and is     *)
(* consumed; one in progress stays, and the popup is at home.              *)
ReopenPopup ==
    /\ pageShown = "closed"
    /\ IF outcome.status \in {"success", "failure"}
       THEN /\ pageShown' = "detail" /\ openId' = outcome.of /\ outcome' = NoOutcome
            /\ IF asked < MaxProposalCalls
               THEN tickets' = tickets \cup {Get(outcome.of)} /\ asked' = asked + 1 /\ acting' = TRUE
               ELSE UNCHANGED <<tickets, asked, acting>>
       ELSE pageShown' = "home" /\ UNCHANGED <<openId, outcome, tickets, asked, acting>>
    /\ UNCHANGED <<shownProposal, linked, proposal, signer, approvals>>

-----------------------------------------------------------------------------
(* The backend and the worker.                                             *)

Moves(t, at) == tickets' = (tickets \ {t}) \cup {[t EXCEPT !.at = at]}

OnlyMoves == UNCHANGED <<pageShown, shownProposal, openId, acting, linked, proposal, asked, outcome,
                         signer, approvals>>

(* The passkey signed the digest it was given and the worker checked it.   *)
PasskeySigned(t) == t.at = "window" /\ Moves(t, "sent") /\ OnlyMoves

(* A seed account signs the entry the backend names at its begin.          *)
SeedGetsTemplate(t) ==
    /\ t.at = "begin"
    /\ tickets' = (tickets \ {t}) \cup {[t EXCEPT !.at = "sign", !.sim = proposal[t.of].sim]}
    /\ OnlyMoves

SeedSigned(t) == t.at = "sign" /\ Moves(t, "sent") /\ OnlyMoves

BackendActs(t) ==
    /\ t.at = "sent"
    /\ LET p == proposal[t.of]
           q == CASE t.op = "approve" -> [p EXCEPT !.mine = TRUE]
                  [] t.op = "execute" -> [p EXCEPT !.executed = TRUE]
                  [] t.op = "refresh" -> [p EXCEPT !.sim = IF @ < MaxVersions THEN @ + 1 ELSE @]
                  [] OTHER            -> p
       IN  /\ t.op = "approve" => t.sim = p.sim /\ ~p.mine /\ ~p.executed
           /\ t.op = "execute" => ReadyToExecute(p)
           /\ proposal' = [proposal EXCEPT ![t.of] = q]
    /\ approvals' = IF t.op = "approve"
                    THEN approvals \cup {[of |-> t.of, seen |-> t.seen]}
                    ELSE approvals
    /\ Moves(t, "answered")
    /\ UNCHANGED <<pageShown, shownProposal, openId, acting, linked, asked, outcome, signer>>

(* Another owner approves or executes.                                     *)
OthersAct(i) ==
    /\ ~proposal[i].executed
    /\ \/ ~proposal[i].others /\ proposal' = [proposal EXCEPT ![i].others = TRUE]
       \/ ReadyToExecute(proposal[i]) /\ proposal' = [proposal EXCEPT ![i].executed = TRUE]
    /\ UNCHANGED <<pageShown, shownProposal, openId, acting, linked, tickets, asked, outcome, signer, approvals>>

(* Only a passkey's approval runs in the worker, which notes how it ended. *)
OutcomeAfter(t, status) ==
    IF t.op # "approve" THEN outcome
    ELSE IF ~t.lost /\ status = "success" THEN NoOutcome
    ELSE IF t.lost /\ signer # "passkey" THEN outcome
    ELSE [status |-> status, of |-> t.of]

(* The answer: a read opens and shows the proposal, an approval and a      *)
(* refresh show theirs, an execution reads it again.                       *)
ProposalAnswered(t) ==
    /\ t.at = "answered"
    /\ IF t.op = "execute" /\ ~t.lost
       THEN /\ tickets' = (tickets \ {t}) \cup {Get(t.of)}
            /\ UNCHANGED <<shownProposal, openId, acting>>
       ELSE /\ tickets' = tickets \ {t}
            /\ shownProposal' = IF t.lost THEN shownProposal ELSE Normalized(t.of)
            /\ openId' = IF t.op = "get" /\ ~t.lost THEN t.of ELSE openId
            /\ acting' = (acting /\ t.lost)
    /\ outcome' = OutcomeAfter(t, "success")
    /\ UNCHANGED <<pageShown, linked, proposal, asked, signer, approvals>>

(* Refused, dismissed or timed out, also after it took effect.             *)
ProposalFails(t) ==
    /\ tickets' = tickets \ {t}
    /\ acting' = (acting /\ t.lost)
    /\ outcome' = OutcomeAfter(t, "failure")
    /\ UNCHANGED <<pageShown, shownProposal, openId, linked, proposal, asked, signer, approvals>>

TicketMoves(t) ==
    \/ PasskeySigned(t) \/ SeedGetsTemplate(t) \/ SeedSigned(t)
    \/ BackendActs(t) \/ ProposalAnswered(t) \/ ProposalFails(t)

ProposalNext ==
    \/ \E t \in tickets : TicketMoves(t)
    \/ OpenList \/ BackToList \/ ClickApprove \/ ClickExecute \/ ClickRefresh \/ ReopenPopup
    \/ \E i \in ProposalIds : OpenProposal(i) \/ OthersAct(i)
    \/ \E to \in {"home", "closed"} : LeaveProposals(to)

-----------------------------------------------------------------------------
ProposalTypeOK ==
    /\ pageShown \in {"home", "list", "detail", "closed"}
    /\ shownProposal.of \in ProposalIds \cup {NoId} /\ openId \in ProposalIds \cup {NoId}
    /\ linked \in ProposalIds \cup {NoId}
    /\ acting \in BOOLEAN
    /\ \A i \in ProposalIds : proposal[i].sim \in 1 .. MaxVersions
    /\ \A t \in tickets : t.of \in ProposalIds /\ t.at \in {"sent", "window", "begin", "sign", "answered"}
    /\ outcome.of \in ProposalIds \cup {NoId}

(* What an owner approves is the proposal that was on screen at the click, *)
(* whatever answers open or show another one meanwhile.                    *)
ApprovedIsShown == \A a \in approvals : a.of = a.seen
=============================================================================
