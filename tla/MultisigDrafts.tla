--------------------------- MODULE MultisigDrafts ---------------------------
(***************************************************************************)
(* Creating a multisig wallet with others and joining one                  *)
(* (ui/multisig/MultisigCreateWizard.tsx, MultisigJoinFlow.tsx,            *)
(* MultisigRouteViews.tsx).  The draft lives in the backend; each click    *)
(* sends calls there through the worker (ui/lib/multisigFlow.ts,           *)
(* background/multisig/handlers.ts), Back is never disabled, and an answer *)
(* still routes when the screen that asked is gone.                        *)
(***************************************************************************)
EXTENDS Naturals, FiniteSets

CONSTANT MaxDraftCalls    \* bound on the calls made: past it a page asks for nothing

ASSUME MultisigDraftsAssumption == MaxDraftCalls \in Nat

VARIABLES
    place,    \* the route
    wizard,   \* the state of the screens: lost when their component is left
    draft,    \* the backend's draft
    calls,    \* calls under way, numbered
    made,     \* how many were made
    invites,  \* the credentials of the invites this wallet keeps
    joined,   \* the credentials it was accepted with
    invited   \* the draft is another's, and this wallet has the invite

draftVars == <<place, wizard, draft, calls, made, invites, joined, invited>>

NoOne == "nobody"
Own == {"stored", "new"}      \* a passkey of this wallet, one created on the way
Owners == Own \cup {"friend", "address"}

(* A wizard without a draft; "you" is the owner the wizard added for the   *)
(* user; the address of the review, or the preview of the invite, may be   *)
(* loading and may be known.                                               *)
NoWizard == [on |-> FALSE, you |-> NoOne, threshold |-> 2, owners |-> {}, loading |-> FALSE,
             known |-> FALSE]

(* A draft of its own not yet created, or with an owner beside the user    *)
(* when the threshold is asked for or reviewed; a draft of another with an *)
(* invite, or one joined with a stored passkey and deployed by now.        *)
DraftInit ==
    /\ invited \in BOOLEAN
    /\ draft \in [exists : BOOLEAN, members : {{}, {"friend"}, {"friend", "stored"}}, threshold : {2},
                  deployed : BOOLEAN]
    /\ draft.exists <=> draft.members # {}
    /\ invited \/ "stored" \in draft.members <=> draft.exists
    /\ draft.deployed <=> invited /\ "stored" \in draft.members
    /\ joined = IF draft.deployed THEN {"stored"} ELSE {}
    /\ invites = joined
    /\ IF draft.exists /\ ~invited
       THEN /\ place \in {"multisigThreshold", "multisigReviewDeploy"}
            /\ wizard = [NoWizard EXCEPT !.on = TRUE, !.you = "stored", !.owners = draft.members,
                                         !.known = place = "multisigReviewDeploy"]
       ELSE place = "home" /\ wizard = NoWizard
    /\ calls = {} /\ made = 0

WizardPages == {"createMultisig", "addMultisigOwners", "multisigThreshold", "multisigReviewDeploy",
                "multisigSuccess", "multisigDeployFailure"}
HubPages == {"multisigWallets", "addExistingMultisig"}
Pages == WizardPages \cup HubPages \cup {"home", "joinMultisig"}

(* The component that shows a page.                                        *)
Component(p) == IF p \in WizardPages THEN "wizard" ELSE IF p \in HubPages THEN "hub" ELSE p

DraftCall(op, who, n, at, k) ==
    [op |-> op, who |-> who, n |-> n, at |-> at, list |-> {}, lost |-> FALSE, k |-> k]

(* What the effects of a page ask for when it is entered.                  *)
Effect(p, w) ==
    CASE p = "addMultisigOwners" /\ w.on    -> {"refresh"}
      [] p = "multisigReviewDeploy" /\ w.on -> {"predict"}
      [] p = "joinMultisig"                 -> {"preview"}
      [] p = "multisigWallets"              -> {"hub"}
      [] OTHER                              -> {}

(* A change of the route, w and left being the state and the calls after   *)
(* it: leaving a component loses its state, and answers to it.             *)
GoesTo(p, w, left) ==
    LET away == Component(p) # Component(place)
        here == IF away THEN NoWizard ELSE w
        asks == IF p = place \/ made >= MaxDraftCalls THEN {} ELSE Effect(p, here)
        kept == IF away THEN {[c EXCEPT !.lost = TRUE] : c \in left} ELSE left
    IN  /\ place' = p
        /\ wizard' = IF asks \cap {"predict", "preview"} = {} THEN here ELSE [here EXCEPT !.loading = TRUE]
        /\ calls' = kept \cup {DraftCall(op, NoOne, 0, "sent", made + 1) : op \in asks}
        /\ made' = made + Cardinality(asks)

Stays(w, left) == place' = place /\ wizard' = w /\ calls' = left /\ made' = made

(* A call that a screen waits for.                                         *)
Waits(ops) == \E c \in calls : c.op \in ops /\ ~c.lost

Adding == Waits({"enroll", "address"})

Starts(op, who, n, at) ==
    /\ made < MaxDraftCalls
    /\ made' = made + 1
    /\ calls' = calls \cup {DraftCall(op, who, n, at, made + 1)}
    /\ UNCHANGED <<place, wizard, draft, invites, joined, invited>>

-----------------------------------------------------------------------------
(* The clicks.                                                             *)

Turn(p) == GoesTo(p, wizard, calls) /\ UNCHANGED <<draft, invites, joined, invited>>

OpenPage(p) ==
    /\ place = "home"
    /\ p \in HubPages \cup {IF invited THEN "joinMultisig" ELSE "createMultisig"}
    /\ Turn(p)

BackOf == [createMultisig |-> "home", addMultisigOwners |-> "createMultisig",
           multisigThreshold |-> "addMultisigOwners", multisigReviewDeploy |-> "multisigThreshold",
           multisigSuccess |-> "home", multisigDeployFailure |-> "multisigReviewDeploy",
           joinMultisig |-> "home", multisigWallets |-> "home", addExistingMultisig |-> "home"]

(* A page of the wizard without a draft is blank.                          *)
Blank == Component(place) = "wizard" /\ place # "createMultisig" /\ ~wizard.on

Back == place # "home" /\ ~Blank /\ Turn(BackOf[place])

(* One draft is created in a behaviour.                                    *)
CreateDraft ==
    /\ place = "createMultisig" /\ ~draft.exists /\ ~Waits({"create"})
    /\ Starts("create", NoOne, 0, "sent")

OnOwners == place = "addMultisigOwners" /\ wizard.on

(* addExistingPasskeyOwner, addNewPasskeyOwner: once per draft, a ceremony *)
(* first.                                                                  *)
AddPasskey(who) ==
    /\ OnOwners /\ wizard.you = NoOne /\ ~Adding
    /\ Starts("enroll", who, 0, "ceremony")

AddByAddress == OnOwners /\ ~Adding /\ Starts("address", "address", 0, "sent")

RemoveMember(who) == OnOwners /\ who \in wizard.owners /\ Starts("remove", who, 0, "sent")

(* The button, the interval and the return of the page to the foreground.  *)
Poll == OnOwners /\ ~Adding /\ ~Waits({"refresh"}) /\ Starts("refresh", NoOne, 0, "sent")

ContinueToThreshold ==
    /\ OnOwners /\ ~Adding /\ Cardinality(wizard.owners) >= 2
    /\ Turn("multisigThreshold")

(* The button stays enabled while an update is under way.                  *)
ChooseThreshold(n) ==
    /\ place = "multisigThreshold" /\ wizard.on /\ n <= Cardinality(wizard.owners)
    /\ Starts("threshold", NoOne, n, "sent")

Deploy ==
    /\ place = "multisigReviewDeploy" /\ wizard.on
    /\ wizard.known /\ ~wizard.loading /\ ~Waits({"deploy"})
    /\ Starts("deploy", NoOne, 0, "sent")

Join(who) ==
    /\ place = "joinMultisig" /\ wizard.known /\ ~wizard.loading /\ ~Waits({"join"})
    /\ Starts("join", who, 0, "ceremony")

AddExisting == place = "addExistingMultisig" /\ ~Waits({"existing"}) /\ Starts("existing", NoOne, 0, "sent")

OpenDeployed == place = "multisigWallets" /\ draft.deployed /\ Starts("open", NoOne, 0, "sent")

ForgetInvite(who) == place = "multisigWallets" /\ who \in invites /\ Starts("forget", who, 0, "sent")

-----------------------------------------------------------------------------
(* The backend, and the worker for what it keeps itself.                   *)

Adds(c) == c.op \in {"enroll", "address", "join"}

DraftAccepts(c) ==
    /\ Adds(c) => c.who \notin draft.members
    /\ c.op \in {"enroll", "address", "join", "remove", "threshold", "deploy"} => ~draft.deployed
    /\ c.op = "deploy" => Cardinality(draft.members) >= draft.threshold

DraftAfter(c) ==
    CASE c.op = "create"    -> [draft EXCEPT !.exists = TRUE]
      [] Adds(c)            -> [draft EXCEPT !.members = @ \cup {c.who}]
      [] c.op = "remove"    -> [draft EXCEPT !.members = @ \ {c.who}]
      [] c.op = "threshold" -> [draft EXCEPT !.threshold = c.n]
      [] c.op = "deploy"    -> [draft EXCEPT !.deployed = TRUE]
      [] OTHER              -> draft

MovedOn(c, at) == (calls \ {c}) \cup {[c EXCEPT !.at = at]}

(* The ceremony of an enrolment: begin, the window, finish, and the commit *)
(* of the number of a new passkey.                                         *)
CeremonyMade(c) ==
    /\ c.at = "ceremony"
    /\ Stays(wizard, MovedOn(c, "sent"))
    /\ UNCHANGED <<draft, invites, joined, invited>>

Acts(c) ==
    /\ c.at = "sent" /\ DraftAccepts(c)
    /\ draft' = DraftAfter(c)
    /\ calls' = (calls \ {c}) \cup {[c EXCEPT !.at = "answered", !.list = draft'.members]}
    /\ joined' = IF c.op = "join" THEN joined \cup {c.who} ELSE joined
    /\ invites' = IF c.op = "forget" THEN invites \ {c.who} ELSE invites
    /\ UNCHANGED <<place, wizard, made, invited>>

(* Another owner joins or is added, or this one is removed, elsewhere.     *)
OthersChange(m) ==
    /\ draft.exists /\ ~draft.deployed
    /\ m \in {draft.members \cup {"friend"}} \cup IF invited THEN {draft.members \ Own} ELSE {}
    /\ draft' = [draft EXCEPT !.members = m]
    /\ UNCHANGED <<place, wizard, calls, made, invites, joined, invited>>

-----------------------------------------------------------------------------
(* The answers.                                                            *)

(* What an answer leaves on the screens: nothing when they are gone.       *)
Sees(c) ==
    IF c.lost THEN wizard
    ELSE CASE c.op = "create"    -> [wizard EXCEPT !.on = TRUE, !.owners = c.list]
           [] c.op = "enroll"    -> [wizard EXCEPT !.owners = c.list, !.you = c.who]
           [] c.op = "address"   -> [wizard EXCEPT !.owners = c.list]
           [] c.op = "remove"    -> [wizard EXCEPT !.owners = c.list,
                                       !.you = IF @ = c.who THEN NoOne ELSE @]
           [] c.op = "refresh"   -> [wizard EXCEPT !.owners = c.list,
                                       !.you = IF @ \in c.list THEN @
                                               ELSE IF "stored" \in c.list THEN "stored" ELSE NoOne]
           [] c.op = "threshold" -> [wizard EXCEPT !.threshold = c.n]
           [] c.op \in {"predict", "preview"} -> [wizard EXCEPT !.loading = FALSE, !.known = TRUE]
           [] OTHER              -> wizard

(* Where an answer leads, whatever is on screen.                           *)
Leads == [threshold |-> "multisigReviewDeploy", existing |-> "home", open |-> "home"]

DraftAnswered(c) ==
    /\ c.at = "answered"
    /\ IF c.op \in {"create", "deploy", "join"} THEN Stays(Sees(c), MovedOn(c, "next"))
       ELSE IF c.op \in DOMAIN Leads THEN GoesTo(Leads[c.op], Sees(c), calls \ {c})
       ELSE Stays(Sees(c), calls \ {c})
    /\ UNCHANGED <<draft, invites, joined, invited>>

(* The draft's name is noted, the wallet of a deployed draft is stored,    *)
(* synced and made active: then the wizard moves on.                       *)
Noted(c) ==
    /\ c.at = "next" /\ c.op \in {"create", "deploy"}
    /\ GoesTo(IF c.op = "create" THEN "addMultisigOwners" ELSE "multisigSuccess", wizard, calls \ {c})
    /\ UNCHANGED <<draft, invites, joined, invited>>

(* Variant: the invite is kept as soon as the ceremony was made. *)
KeepInviteEarly(c) ==
    /\ c.at \in {"sent", "next"} /\ c.op = "join"
    /\ invites' = invites \cup {c.who}
    /\ Stays(wizard, MovedOn(c, "sync"))
    /\ UNCHANGED <<draft, joined, invited>>

(* completeJoin: the invite is kept with the credential the backend took,  *)
(* whether or not the preview could be loaded again.                       *)
KeepInvite(c) ==
    /\ c.at = "next" /\ c.op = "join"
    /\ invites' = invites \cup {c.who}
    /\ Stays(wizard, MovedOn(c, "sync"))
    /\ UNCHANGED <<draft, joined, invited>>

(* The credential was accepted before: its member is looked up in the      *)
(* preview, for the passkey that is selected.                              *)
Recheck(c) ==
    /\ c.at = "sent" /\ c.op = "join" /\ c.who \in draft.members
    /\ IF "stored" \in draft.members
       THEN /\ invites' = invites \cup {"stored"}
            /\ Stays(wizard, MovedOn(c, "sync"))
       ELSE Stays(wizard, calls \ {c}) /\ UNCHANGED invites
    /\ UNCHANGED <<draft, joined, invited>>

(* The wallets were synced after the invite was kept.                      *)
JoinSynced(c) ==
    /\ c.at = "sync"
    /\ GoesTo("multisigWallets", wizard, calls \ {c})
    /\ UNCHANGED <<draft, invites, joined, invited>>

(* A call fails before or after it took effect: an error is shown, a       *)
(* preview without data disables the join, and a deployment, done or not,  *)
(* leads to its failure page.                                              *)
DraftCallFails(c) ==
    /\ IF c.op = "deploy" THEN GoesTo("multisigDeployFailure", wizard, calls \ {c})
       ELSE Stays(IF c.op \notin {"predict", "preview"} \/ c.lost THEN wizard
                  ELSE [wizard EXCEPT !.loading = FALSE, !.known = @ /\ c.op = "predict"],
                  calls \ {c})
    /\ UNCHANGED <<draft, invites, joined, invited>>

CallMoves(c) ==
    \/ CeremonyMade(c) \/ Acts(c) \/ DraftAnswered(c) \/ Noted(c)
    \/ KeepInvite(c) \/ Recheck(c) \/ JoinSynced(c) \/ DraftCallFails(c)

DraftNext ==
    \/ \E c \in calls : CallMoves(c)
    \/ \E m \in SUBSET Owners : OthersChange(m)
    \/ \E p \in Pages : OpenPage(p)
    \/ Back \/ CreateDraft \/ AddByAddress \/ Poll \/ ContinueToThreshold \/ Deploy
    \/ AddExisting \/ OpenDeployed
    \/ \E who \in Own : AddPasskey(who) \/ Join(who) \/ ForgetInvite(who)
    \/ \E who \in Owners : RemoveMember(who)
    \/ \E n \in 1 .. 2 : ChooseThreshold(n)

-----------------------------------------------------------------------------
DraftTypeOK ==
    /\ place \in Pages
    /\ wizard.you \in Owners \cup {NoOne} /\ wizard.owners \subseteq Owners
    /\ draft.members \subseteq Owners /\ draft.threshold \in 1 .. 2
    /\ \A c \in calls : c.k \in 1 .. made /\ c.who \in Owners \cup {NoOne}
    /\ invites \subseteq Own

(* An invite is kept only with a credential the backend accepted into its  *)
(* draft, whatever was answered twice, left or failed meanwhile: the sync  *)
(* takes the membership of a kept invite as proven.                        *)
InvitesAreAccepted == invites \subseteq joined
=============================================================================
