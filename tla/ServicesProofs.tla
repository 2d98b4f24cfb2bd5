--------------------------- MODULE ServicesProofs ---------------------------
(***************************************************************************)
(* What the services of the worker promise, for every number of calls,     *)
(* visits, tokens, proposals and requests.  A behaviour of Services        *)
(* exercises one service and leaves the others where they started, so it   *)
(* is a behaviour of each: the invariant of a service is proved from its   *)
(* own initial states and steps, and carried over.                         *)
(***************************************************************************)
EXTENDS Services, FiniteSetTheorems, WellFoundedInduction, TLAPS

\* Every step of a behaviour is a step, or none, of each of its services.
LEMMA BridgeOnly == [ServicesNext]_vars => [BridgeNext]_bridgeVars
BY DEF ServicesNext, vars, Only
LEMMA MigrationOnly == [ServicesNext]_vars => [MigrationNext]_migrationVars
BY DEF ServicesNext, vars, Only
LEMMA ActivityOnly == [ServicesNext]_vars => [ActivityNext]_activityVars
BY DEF ServicesNext, vars, Only
LEMMA ReadsOnly == [ServicesNext]_vars => [ReadsNext]_readsVars
BY DEF ServicesNext, vars, Only
LEMMA ApiOnly == [ServicesNext]_vars => [TokensNext \/ RitesNext]_apiVars
BY DEF ServicesNext, vars, Only
LEMMA EnrolOnly == [ServicesNext]_vars => [EnrolNext]_enrolVars
BY DEF ServicesNext, vars, Only
LEMMA DraftsOnly == [ServicesNext]_vars => [DraftNext]_draftVars
BY DEF ServicesNext, vars, Only
LEMMA ProposalsOnly == [ServicesNext]_vars => [ProposalNext]_proposalVars
BY DEF ServicesNext, vars, Only
LEMMA SendingOnly == [ServicesNext]_vars => [SendNext]_sendVars
BY DEF ServicesNext, vars, Only

-----------------------------------------------------------------------------
\* The inductive invariant of the ceremony window: whatever is stored, on its
\* way or answered is what the authenticator did under that ticket, and it did
\* something only after the page had taken its options.
BridgeKept ==
    /\ waiter \in [Tickets -> Answered \cup Unsettled \cup {"idle", "lost"}]
    /\ ceremony \in [Tickets -> Outcomes \cup {"none"}]
    /\ resultKeys \in [Tickets -> Outcomes \cup {"none"}]
    /\ bridgeTab \in [Tickets -> {"none", "loading", "ready", "expired", "done",
                                  "published", "closed"}]
    /\ \A t \in Tickets :
         /\ bridgeTab[t] \in {"none", "loading", "ready"} => ceremony[t] = "none"
         /\ bridgeTab[t] \in {"done", "published"} => ceremony[t] \in Outcomes
         /\ resultKeys[t] # "none" => resultKeys[t] = ceremony[t]
         /\ waiter[t] \in Outcomes => ceremony[t] = waiter[t]
         /\ \A kind \in {"storage", "message"}, r \in Outcomes :
              <<kind, t, r>> \in bridgeNews => r = ceremony[t]

LEMMA BridgeStarts == BridgeInit => BridgeKept
BY DEF BridgeInit, BridgeKept, Outcomes

LEMMA BridgeKeeps == BridgeKept /\ [BridgeNext]_bridgeVars => BridgeKept'
<1>. SUFFICES ASSUME BridgeKept, [BridgeNext]_bridgeVars PROVE BridgeKept'
  OBVIOUS
<1>. USE DEF BridgeKept, Outcomes, Answered, Unsettled, WindowNews
<1>1. ASSUME NEW t \in Tickets, OpenBridge(t) PROVE BridgeKept'
  BY <1>1 DEF OpenBridge
<1>2. ASSUME NEW t \in Tickets, OptionsRefused(t) PROVE BridgeKept'
  BY <1>2 DEF OptionsRefused
<1>3. ASSUME NEW t \in Tickets, WindowFailed(t) PROVE BridgeKept'
  BY <1>3 DEF WindowFailed
<1>4. ASSUME NEW t \in Tickets, RunCeremony(t) PROVE BridgeKept'
  BY <1>4 DEF RunCeremony
<1>5. ASSUME NEW t \in Tickets, BridgeTimesOut(t) PROVE BridgeKept'
  BY <1>5 DEF BridgeTimesOut, Finish
<1>6. ASSUME NEW t \in Tickets, CloseWindow(t) PROVE BridgeKept'
  BY <1>6 DEF CloseWindow
<1>7. ASSUME NEW t \in Tickets, OptionsStored(t) PROVE BridgeKept'
  BY <1>7 DEF OptionsStored
<1>8. ASSUME NEW t \in Tickets, WindowOpens(t) PROVE BridgeKept'
  BY <1>8 DEF WindowOpens
<1>9. ASSUME NEW t \in Tickets, WindowKnown(t) PROVE BridgeKept'
  BY <1>9 DEF WindowKnown
<1>10. ASSUME NEW t \in Tickets, TakeOptions(t) PROVE BridgeKept'
  BY <1>10 DEF TakeOptions
<1>11. ASSUME NEW t \in Tickets, PublishResult(t) PROVE BridgeKept'
  BY <1>11 DEF PublishResult
<1>12. ASSUME NEW t \in Tickets, TellTheWorker(t) PROVE BridgeKept'
  BY <1>12 DEF TellTheWorker
<1>13. ASSUME NEW t \in Tickets, NEW kind \in {"storage", "message"}, ResultArrives(t, kind)
       PROVE BridgeKept'
  BY <1>13 DEF ResultArrives, Finish
<1>14. CASE BridgeStop
  BY <1>14 DEF BridgeStop
<1>15. CASE UNCHANGED bridgeVars
  BY <1>15 DEF bridgeVars
<1>. QED
  BY <1>1, <1>2, <1>3, <1>4, <1>5, <1>6, <1>7, <1>8, <1>9, <1>10, <1>11, <1>12, <1>13, <1>14,
     <1>15 DEF BridgeNext, BridgeStep

\* A call answers with a credential only when the user's authenticator gave
\* one in the window of that ticket, and with a failure only when it failed.
THEOREM OutcomeTold == ServicesSpec => []BridgeTellsTheOutcome
<1>1. ServicesInit => BridgeKept
  BY BridgeStarts DEF ServicesInit
<1>2. BridgeKept /\ [ServicesNext]_vars => BridgeKept'
  BY BridgeOnly, BridgeKeeps
<1>3. BridgeKept => BridgeTellsTheOutcome
  BY DEF BridgeKept, BridgeTellsTheOutcome
<1>. QED
  BY <1>1, <1>2, <1>3, PTL DEF ServicesSpec

-----------------------------------------------------------------------------
Requests == [acct : Accounts \cup {Nobody},
             at : {"unused", "over", "sent", "warming", "joined", "won", "failed", "late", "lost",
                   "data", "error", "cancelled"}]
Panes == [rows : Accounts \cup {Nobody}, id : 0 .. MaxReads, loading : BOOLEAN, error : BOOLEAN]

\* No answer of such a request can reach the screen any more.
Unheeded == {"unused", "over", "lost", "late"}

\* The inductive invariant of the wallet screen: an answer that is still to
\* come for the current request is of the account on screen.
ReadsKept ==
    /\ active \in Accounts
    /\ pane \in Panes
    /\ readsMade \in 0 .. MaxReads
    /\ requests \in [Ids -> Requests]
    /\ pane.rows \in {Nobody, active}
    /\ \A i \in Ids :
         pane.id = i /\ requests[i].at \notin Unheeded => requests[i].acct = active

LEMMA ReadsStarts == ReadsInit => ReadsKept
BY ReadsAssumption DEF ReadsInit, ReadsKept, Requests, Panes, Unheeded, NoRead, Ids, Nobody, NoRequest

\* A step of the worker moves requests on, or ends them, and leaves the screen.
LEMMA WorkerKeepsReads ==
    ASSUME ReadsKept, UNCHANGED <<active, pane, readsMade>>,
           requests' \in [Ids -> Requests],
           \A i \in Ids : \/ requests'[i].at \in Unheeded
                          \/ /\ requests'[i].acct = requests[i].acct
                             /\ requests[i].at \notin Unheeded
    PROVE  ReadsKept'
BY DEF ReadsKept

LEMMA ReadsKeeps == ReadsKept /\ [ReadsNext]_readsVars => ReadsKept'
<1>. SUFFICES ASSUME ReadsKept, [ReadsNext]_readsVars PROVE ReadsKept'
  OBVIOUS
<1>. USE ReadsAssumption DEF ReadsKept, Requests, Panes, Unheeded, Ids, paneVars, cacheVars, NoRequest, ReadOver
<1>1. ASSUME NEW a \in Accounts, ShowAccount(a) PROVE ReadsKept'
  <2>0. pane \in Panes /\ pane' = [pane EXCEPT !.rows = Nobody, !.id = 0, !.error = FALSE]
    BY <1>1 DEF ShowAccount
  <2>1. pane' = [rows |-> Nobody, id |-> 0, loading |-> pane.loading, error |-> FALSE]
    BY <2>0 DEF Panes
  <2>3. pane'.rows = Nobody /\ pane'.id = 0
    BY <2>1
  <2>4. pane.loading \in BOOLEAN /\ 0 \in 0 .. MaxReads
    BY <2>0 DEF Panes
  <2>5. pane' \in Panes
    BY <2>1, <2>4 DEF Panes
  <2>2. active' = a /\ UNCHANGED <<requests, readsMade>>
    BY <1>1 DEF ShowAccount
  <2>. QED
    BY <2>2, <2>3, <2>5
<1>2. CASE LoadPortfolio
  <2>. DEFINE new == readsMade + 1
              request == [acct |-> active, at |-> "sent"]
  <2>1. new \in Ids /\ new \in 0 .. MaxReads /\ UNCHANGED active
    BY <1>2 DEF LoadPortfolio
  <2>2. readsMade' = new /\ requests' = [requests EXCEPT ![new] = request]
    BY <1>2 DEF LoadPortfolio
  <2>3. /\ pane'.rows = pane.rows /\ pane'.id = new
        /\ pane' \in Panes
    BY <1>2, <2>1 DEF LoadPortfolio
  <2>4. request \in Requests
    OBVIOUS
  <2>5. request.acct = active
    OBVIOUS
  <2>. HIDE DEF request, new
  <2>. QED
    BY <2>1, <2>2, <2>3, <2>4, <2>5
<1>3. ASSUME NEW i \in Ids, TakeResult(i) PROVE ReadsKept'
  BY <1>3 DEF TakeResult, AppliesResult
<1>4. ASSUME NEW i \in Ids, ReadTimesOut(i) PROVE ReadsKept'
  <2>1. UNCHANGED <<active, readsMade>> /\ requests' \in [Ids -> Requests]
    BY <1>4 DEF ReadTimesOut
  <2>2. requests'[i].at \in Unheeded /\ \A j \in Ids : j # i => requests'[j] = requests[j]
    BY <1>4 DEF ReadTimesOut
  <2>3. pane' \in Panes /\ pane'.id = pane.id /\ pane'.rows \in {pane.rows, Nobody}
    <3>1. CASE pane.id # i
      BY <1>4, <3>1 DEF ReadTimesOut
    <3>2. CASE pane.id = i
      <4>1. pane \in Panes
            /\ pane' = [pane EXCEPT !.rows = Nobody, !.loading = FALSE, !.error = TRUE]
        BY <1>4, <3>2 DEF ReadTimesOut
      <4>2. pane' = [rows |-> Nobody, id |-> pane.id, loading |-> FALSE, error |-> TRUE]
        BY <4>1 DEF Panes
      <4>. QED
        BY <4>2
    <3>. QED
      BY <3>1, <3>2
  <2>. QED
    BY <2>1, <2>2, <2>3
<1>5. ASSUME NEW i \in Ids, Register(i) PROVE ReadsKept'
  BY <1>5, WorkerKeepsReads DEF Register
<1>6. ASSUME NEW i \in Ids, Warmed(i) PROVE ReadsKept'
  BY <1>6, WorkerKeepsReads DEF Warmed
<1>7. ASSUME NEW a \in Accounts, ReadSucceeds(a) PROVE ReadsKept'
  BY <1>7, WorkerKeepsReads DEF ReadSucceeds, Joined
<1>8. ASSUME NEW a \in Accounts, ReadFails(a) PROVE ReadsKept'
  BY <1>8, WorkerKeepsReads DEF ReadFails, Joined
<1>9. ASSUME NEW i \in Ids, WaiterEnds(i) PROVE ReadsKept'
  BY <1>9, WorkerKeepsReads DEF WaiterEnds, Outcome
<1>10. ASSUME NEW i \in Ids, CancelArrives(i) PROVE ReadsKept'
  BY <1>10 DEF CancelArrives
<1>11. ASSUME NEW i \in Ids, AbortWins(i) PROVE ReadsKept'
  BY <1>11, WorkerKeepsReads DEF AbortWins
<1>12. ASSUME NEW i \in Ids, LateWaiterEnds(i) PROVE ReadsKept'
  BY <1>12, WorkerKeepsReads DEF LateWaiterEnds
<1>13. ASSUME NEW a \in Accounts, CacheAges(a) PROVE ReadsKept'
  BY <1>13 DEF CacheAges
<1>14. CASE ReadsStop
  <2>1. \A i \in Ids : \/ requests'[i] = requests[i]
                       \/ requests'[i] = [acct |-> Nobody, at |-> "over"]
                       \/ requests'[i] = [requests[i] EXCEPT !.at = "lost"]
    BY <1>14 DEF ReadsStop
  <2>2. requests' = [i \in Ids |-> requests'[i]]
    BY <1>14 DEF ReadsStop
  <2>. QED
    BY <1>14, <2>1, <2>2, WorkerKeepsReads DEF ReadsStop
<1>15. CASE UNCHANGED readsVars
  BY <1>15 DEF readsVars
<1>. QED
  BY <1>1, <1>2, <1>3, <1>4, <1>5, <1>6, <1>7, <1>8, <1>9, <1>10, <1>11, <1>12, <1>13, <1>14,
     <1>15 DEF ReadsNext, RequestStep

-----------------------------------------------------------------------------
\* What the owner of an invite to another's draft can have asked for.
InviteeOps == {"join", "existing", "open", "forget", "hub", "preview"}

IsCall(c) ==
    c = [op |-> c.op, who |-> c.who, n |-> c.n, at |-> c.at, list |-> c.list, lost |-> c.lost,
         k |-> c.k]

\* The inductive invariant of the drafts: a join that the backend took notes
\* its credential, and in another's draft the only credentials of this wallet
\* are those that joined.
DraftsKept ==
    /\ invites \subseteq joined
    /\ place \in Pages
    /\ place = "joinMultisig" => invited
    /\ draft = [exists |-> draft.exists, members |-> draft.members,
                threshold |-> draft.threshold, deployed |-> draft.deployed]
    /\ \A c \in calls : /\ IsCall(c)
                        /\ c.op = "join" => invited
                        /\ c.op = "join" /\ c.at \in {"answered", "next"} => c.who \in joined
                        /\ invited => c.op \in InviteeOps
    /\ invited => place \notin WizardPages /\ draft.members \cap Own \subseteq joined

LEMMA DraftsStart == DraftInit => DraftsKept
BY DEF DraftInit, DraftsKept, Pages, HubPages, WizardPages, Own

\* A call after a step that was there before, possibly further on.
Follows(d, c) ==
    /\ d.op = c.op /\ d.who = c.who
    /\ \/ d.at = c.at
       \/ d.at \in {"sent", "sync"}
       \/ d.at = "next" /\ c.at = "answered"

\* A step of the screens neither accepts nor keeps anything.
LEMMA ScreensKeepDrafts ==
    ASSUME DraftsKept, UNCHANGED <<draft, invites, joined, invited>>, place' \in Pages,
           invited => place' \notin WizardPages, place' = "joinMultisig" => invited,
           \A d \in calls' : /\ IsCall(d)
                             /\ \/ \E c \in calls : Follows(d, c)
                                \/ d.op # "join" /\ (invited => d.op \in InviteeOps)
                                \/ invited /\ d.op = "join" /\ d.at = "ceremony"
    PROVE  DraftsKept'
<1>1. ASSUME NEW d \in calls'
      PROVE  /\ d.op = "join" => invited
             /\ d.op = "join" /\ d.at \in {"answered", "next"} => d.who \in joined
             /\ invited => d.op \in InviteeOps
  <2>1. CASE \E c \in calls : Follows(d, c)
    BY <2>1 DEF DraftsKept, Follows
  <2>2. CASE d.op # "join" /\ (invited => d.op \in InviteeOps)
    BY <2>2
  <2>3. CASE invited /\ d.op = "join" /\ d.at = "ceremony"
    BY <2>3 DEF InviteeOps
  <2>. QED
    BY <2>1, <2>2, <2>3
<1>2. \A d \in calls' : IsCall(d)
  OBVIOUS
<1>. QED
  BY <1>1, <1>2 DEF DraftsKept

LEMMA GoingKeepsDrafts ==
    ASSUME DraftsKept, NEW p \in Pages, NEW w, NEW left \in SUBSET calls, GoesTo(p, w, left),
           UNCHANGED <<draft, invites, joined, invited>>, invited => p \notin WizardPages,
           p = "joinMultisig" => invited
    PROVE  DraftsKept'
<1>. DEFINE away == Component(p) # Component(place)
            here == IF away THEN NoWizard ELSE w
            asks == IF p = place \/ made >= MaxDraftCalls THEN {} ELSE Effect(p, here)
            kept == IF away THEN {[c EXCEPT !.lost = TRUE] : c \in left} ELSE left
            new == {DraftCall(op, NoOne, 0, "sent", made + 1) : op \in asks}
<1>1. place' = p /\ calls' = kept \cup new
  BY DEF GoesTo
<1>2. ASSUME NEW d \in kept PROVE IsCall(d) /\ \E c \in calls : Follows(d, c)
  <2>1. CASE ~away
    BY <1>2, <2>1 DEF DraftsKept, Follows
  <2>2. CASE away
    <3>1. PICK c \in left : d = [c EXCEPT !.lost = TRUE]
      BY <1>2, <2>2
    <3>2. IsCall(c)
      BY DEF DraftsKept
    <3>3. IsCall(d) /\ Follows(d, c)
      BY <3>1, <3>2 DEF IsCall, DraftCall, Follows
    <3>. QED
      BY <3>3
  <2>. QED
    BY <2>1, <2>2
<1>3. ASSUME NEW d \in new
      PROVE  IsCall(d) /\ d.op # "join" /\ (invited => d.op \in InviteeOps)
  <2>1. PICK op \in asks : d = DraftCall(op, NoOne, 0, "sent", made + 1)
    BY <1>3
  <2>2. op \in {"refresh", "predict", "preview", "hub"}
        /\ (p \notin WizardPages => op \in {"preview", "hub"})
    BY <2>1 DEF Effect, WizardPages
  <2>. QED
    BY <2>1, <2>2 DEF IsCall, DraftCall, InviteeOps
<1>. HIDE DEF kept, new
<1>. QED
  BY <1>1, <1>2, <1>3, ScreensKeepDrafts

LEMMA DraftsKeep == DraftsKept /\ [DraftNext]_draftVars => DraftsKept'
<1>. SUFFICES ASSUME DraftsKept, [DraftNext]_draftVars PROVE DraftsKept'
  OBVIOUS
<1>. USE DEF Own
\* Calls begun on a page: those of an invite's owner are not begun in a wizard.
<1>1. ASSUME NEW op, NEW who, NEW n, NEW at, Starts(op, who, n, at),
             \/ op # "join" /\ (invited => op \in InviteeOps)
             \/ invited /\ op = "join" /\ at = "ceremony"
      PROVE  DraftsKept'
  <2>. DEFINE new == DraftCall(op, who, n, at, made + 1)
  <2>1. IsCall(new) /\ new.op = op /\ new.at = at
    BY DEF IsCall, DraftCall
  <2>2. calls' = calls \cup {new} /\ UNCHANGED <<place, draft, invites, joined, invited>>
    BY <1>1 DEF Starts
  <2>3. \A c \in calls : IsCall(c) /\ Follows(c, c)
    BY DEF DraftsKept, Follows
  <2>4. place \in Pages /\ (invited => place \notin WizardPages) /\ (place = "joinMultisig" => invited)
    BY DEF DraftsKept
  <2>. HIDE DEF new
  <2>. QED
    BY <1>1, <2>1, <2>2, <2>3, <2>4, ScreensKeepDrafts
<1>2. ASSUME NEW p \in Pages, OpenPage(p) PROVE DraftsKept'
  BY <1>2, GoingKeepsDrafts DEF OpenPage, Turn, HubPages, WizardPages
<1>3. CASE Back
  <2>1. place \in Pages /\ (invited => place \notin WizardPages)
    BY DEF DraftsKept
  <2>2. BackOf[place] \in Pages /\ BackOf[place] # "joinMultisig"
        /\ (invited => BackOf[place] \notin WizardPages)
    BY <1>3, <2>1 DEF Back, BackOf, Pages, HubPages, WizardPages
  <2>. QED
    BY <1>3, <2>2, GoingKeepsDrafts DEF Back, Turn
<1>4. CASE CreateDraft
  BY <1>1, <1>4 DEF CreateDraft, DraftsKept, WizardPages
<1>5. CASE AddByAddress
  BY <1>1, <1>5 DEF AddByAddress, OnOwners, DraftsKept, WizardPages
<1>6. CASE Poll
  BY <1>1, <1>6 DEF Poll, OnOwners, DraftsKept, WizardPages
<1>7. CASE ContinueToThreshold
  BY <1>7, GoingKeepsDrafts
     DEF ContinueToThreshold, OnOwners, Turn, DraftsKept, Pages, WizardPages
<1>8. CASE Deploy
  BY <1>1, <1>8 DEF Deploy, DraftsKept, WizardPages
<1>9. CASE AddExisting
  BY <1>1, <1>9 DEF AddExisting, InviteeOps
<1>10. CASE OpenDeployed
  BY <1>1, <1>10 DEF OpenDeployed, InviteeOps
<1>11. ASSUME NEW who \in Own, AddPasskey(who) PROVE DraftsKept'
  BY <1>1, <1>11 DEF AddPasskey, OnOwners, DraftsKept, WizardPages
<1>12. ASSUME NEW who \in Own, Join(who) PROVE DraftsKept'
  BY <1>1, <1>12 DEF Join, DraftsKept
<1>13. ASSUME NEW who \in Own, ForgetInvite(who) PROVE DraftsKept'
  BY <1>1, <1>13 DEF ForgetInvite, InviteeOps
<1>14. ASSUME NEW who \in Owners, RemoveMember(who) PROVE DraftsKept'
  BY <1>1, <1>14 DEF RemoveMember, OnOwners, DraftsKept, WizardPages
<1>15. ASSUME NEW n \in 1 .. 2, ChooseThreshold(n) PROVE DraftsKept'
  BY <1>1, <1>15 DEF ChooseThreshold, DraftsKept, WizardPages
<1>16. ASSUME NEW m \in SUBSET Owners, OthersChange(m) PROVE DraftsKept'
  <2>1. invited => m \cap Own \subseteq draft.members
    BY <1>16 DEF OthersChange
  <2>2. draft' = [exists |-> draft.exists, members |-> m, threshold |-> draft.threshold,
                  deployed |-> draft.deployed]
    BY <1>16 DEF OthersChange, DraftsKept
  <2>3. UNCHANGED <<place, calls, invites, joined, invited>>
    BY <1>16 DEF OthersChange
  <2>. QED
    BY <2>1, <2>2, <2>3 DEF DraftsKept
\* The answers: a call that moved on in place, or is over.
<1>17. ASSUME NEW c \in calls, NEW at, NEW w, Stays(w, MovedOn(c, at)),
              UNCHANGED <<draft, invites, joined, invited>>,
              at \in {"sent", "sync"} \/ (at = "next" /\ c.at = "answered")
       PROVE  DraftsKept'
  <2>1. IsCall(c)
    BY DEF DraftsKept
  <2>2. IsCall([c EXCEPT !.at = at]) /\ Follows([c EXCEPT !.at = at], c)
    BY <1>17, <2>1 DEF IsCall, Follows
  <2>3. \A d \in calls : IsCall(d) /\ Follows(d, d)
    BY DEF DraftsKept, Follows
  <2>4. calls' = (calls \ {c}) \cup {[c EXCEPT !.at = at]} /\ place' = place
    BY <1>17 DEF Stays, MovedOn
  <2>5. place \in Pages /\ (invited => place \notin WizardPages) /\ (place = "joinMultisig" => invited)
    BY DEF DraftsKept
  <2>. QED
    BY <1>17, <2>2, <2>3, <2>4, <2>5, ScreensKeepDrafts
<1>18. ASSUME NEW c \in calls, NEW w, Stays(w, calls \ {c}),
              UNCHANGED <<draft, invites, joined, invited>>
       PROVE  DraftsKept'
  BY <1>18 DEF Stays, DraftsKept
<1>19. ASSUME NEW c \in calls, CeremonyMade(c) PROVE DraftsKept'
  BY <1>17, <1>19 DEF CeremonyMade
<1>20. ASSUME NEW c \in calls, DraftAnswered(c) PROVE DraftsKept'
  <2>1. CASE c.op \in {"create", "deploy", "join"}
    BY <1>17, <1>20, <2>1 DEF DraftAnswered
  <2>2. CASE c.op \notin {"create", "deploy", "join"} /\ c.op \in DOMAIN Leads
    <3>1. Leads[c.op] \in Pages /\ Leads[c.op] # "joinMultisig"
          /\ (invited => Leads[c.op] \notin WizardPages)
      BY <2>2 DEF Leads, DraftsKept, InviteeOps, Pages, HubPages, WizardPages
    <3>. QED
      BY <1>20, <2>2, <3>1, GoingKeepsDrafts DEF DraftAnswered
  <2>3. CASE c.op \notin {"create", "deploy", "join"} /\ c.op \notin DOMAIN Leads
    BY <1>18, <1>20, <2>3 DEF DraftAnswered
  <2>. QED
    BY <2>1, <2>2, <2>3
<1>21. ASSUME NEW c \in calls, Noted(c) PROVE DraftsKept'
  <2>1. ~invited
    BY <1>21 DEF Noted, DraftsKept, InviteeOps
  <2>2. \A p \in {"addMultisigOwners", "multisigSuccess"} : p \in Pages /\ p # "joinMultisig"
    BY DEF Pages, WizardPages
  <2>. QED
    BY <1>21, <2>1, <2>2, GoingKeepsDrafts DEF Noted
<1>22. ASSUME NEW c \in calls, JoinSynced(c) PROVE DraftsKept'
  BY <1>22, GoingKeepsDrafts DEF JoinSynced, Pages, HubPages, WizardPages
<1>23. ASSUME NEW c \in calls, DraftCallFails(c) PROVE DraftsKept'
  <2>1. CASE c.op = "deploy"
    BY <1>23, <2>1, GoingKeepsDrafts DEF DraftCallFails, DraftsKept, InviteeOps, Pages, WizardPages
  <2>2. CASE c.op # "deploy"
    BY <1>18, <1>23, <2>2 DEF DraftCallFails
  <2>. QED
    BY <2>1, <2>2
\* The invite is kept with a credential that joined.
<1>24. ASSUME NEW c \in calls, NEW who, who \in joined, invites' = invites \cup {who},
              Stays(wizard, MovedOn(c, "sync")), UNCHANGED <<draft, joined, invited>>
       PROVE  DraftsKept'
  <2>0. IsCall(c)
    BY DEF DraftsKept
  <2>1. IsCall([c EXCEPT !.at = "sync"]) /\ Follows([c EXCEPT !.at = "sync"], c)
    BY <2>0 DEF IsCall, Follows
  <2>2. calls' = (calls \ {c}) \cup {[c EXCEPT !.at = "sync"]} /\ place' = place
    BY <1>24 DEF Stays, MovedOn
  <2>. QED
    BY <1>24, <2>1, <2>2 DEF DraftsKept, Follows
<1>25. ASSUME NEW c \in calls, KeepInvite(c) PROVE DraftsKept'
  BY <1>24, <1>25 DEF KeepInvite, DraftsKept
<1>26. ASSUME NEW c \in calls, Recheck(c) PROVE DraftsKept'
  <2>1. CASE "stored" \in draft.members
    BY <1>24, <1>26, <2>1 DEF Recheck, DraftsKept
  <2>2. CASE "stored" \notin draft.members
    BY <1>18, <1>26, <2>2 DEF Recheck
  <2>. QED
    BY <2>1, <2>2
<1>27. ASSUME NEW c \in calls, Acts(c) PROVE DraftsKept'
  <2>. DEFINE After(m) == [c EXCEPT !.at = "answered", !.list = m]
              next == After(draft'.members)
  <2>0. IsCall(c)
    BY DEF DraftsKept
  <2>1. ASSUME NEW m PROVE IsCall(After(m)) /\ After(m).op = c.op /\ After(m).who = c.who
    <3>. DEFINE answered == [c EXCEPT !.at = "answered"]
    <3>1. IsCall(answered) /\ answered.op = c.op /\ answered.who = c.who
      BY <2>0 DEF IsCall
    <3>2. After(m) = [answered EXCEPT !.list = m]
      OBVIOUS
    <3>. HIDE DEF answered, After
    <3>. QED
      BY <3>1, <3>2 DEF IsCall
  <2>2. IsCall(next) /\ next.op = c.op /\ next.who = c.who
    <3>. HIDE DEF After
    <3>. QED
      BY <2>1
  <2>3. calls' = (calls \ {c}) \cup {next} /\ UNCHANGED <<place, invited>>
    BY <1>27 DEF Acts
  <2>4. joined' = IF c.op = "join" THEN joined \cup {c.who} ELSE joined
    BY <1>27 DEF Acts
  <2>5. invites' \subseteq invites
    BY <1>27 DEF Acts
  <2>6. draft' = [exists |-> draft'.exists, members |-> draft'.members,
                  threshold |-> draft'.threshold, deployed |-> draft'.deployed]
    BY <1>27 DEF Acts, DraftAfter, Adds, DraftsKept
  <2>7. invited => draft'.members \cap Own \subseteq joined'
    BY <1>27, <2>4 DEF Acts, DraftAfter, Adds, DraftsKept, InviteeOps
  <2>. HIDE DEF next
  <2>. QED
    BY <2>2, <2>3, <2>4, <2>5, <2>6, <2>7 DEF DraftsKept
<1>28. CASE UNCHANGED draftVars
  BY <1>28 DEF draftVars, DraftsKept
<1>. QED
  BY <1>2, <1>3, <1>4, <1>5, <1>6, <1>7, <1>8, <1>9, <1>10, <1>11, <1>12, <1>13, <1>14, <1>15,
     <1>16, <1>19, <1>20, <1>21, <1>22, <1>23, <1>25, <1>26, <1>27, <1>28
  DEF DraftNext, CallMoves

\* An invite is kept only with a credential that the backend accepted.
THEOREM InvitesAccepted == ServicesSpec => []InvitesAreAccepted
<1>1. ServicesInit => DraftsKept
  BY DraftsStart DEF ServicesInit
<1>2. DraftsKept /\ [ServicesNext]_vars => DraftsKept'
  BY DraftsOnly, DraftsKeep
<1>3. DraftsKept => InvitesAreAccepted
  BY DEF DraftsKept, InvitesAreAccepted
<1>. QED
  BY <1>1, <1>2, <1>3, PTL DEF ServicesSpec

-----------------------------------------------------------------------------
\* The inductive invariant of the ceremony options: those at hand are of the
\* last visit and were not handed to the authenticator unless it is at work, and
\* a visit has one request under way at most, before its options are there.
EnrolKept ==
    /\ visit \in 0 .. MaxVisits
    /\ prefetches \subseteq [visit : Visits, kind : {"registration", "authentication"},
                             at : {"name", "begin"}]
    /\ options # None => options = visit
    /\ handed \in [Visits -> 0 .. 1]
    /\ busy \in BOOLEAN
    /\ \A v \in Visits : v > visit => handed[v] = 0
    /\ options # None /\ ~busy => handed[visit] = 0
    /\ \A a \in prefetches : /\ a.visit <= visit
                             /\ a.visit = visit => options = None /\ handed[visit] = 0
    /\ \A a, b \in prefetches : a.visit = b.visit => a = b

LEMMA EnrolStarts == EnrolInit => EnrolKept
<1>. SUFFICES ASSUME EnrolInit PROVE EnrolKept
  OBVIOUS
<1>1. visit = 0 /\ prefetches = {} /\ options = None /\ busy = FALSE
  BY DEF EnrolInit
<1>2. handed = [v \in Visits |-> 0]
  BY DEF EnrolInit
<1>3. handed \in [Visits -> 0 .. 1] /\ \A v \in Visits : handed[v] = 0
  BY <1>2
<1>. QED
  <2>1. visit \in 0 .. MaxVisits
    BY <1>1, EnrolmentAssumption
  <2>2. prefetches \subseteq [visit : Visits, kind : {"registration", "authentication"},
                             at : {"name", "begin"}]
    BY <1>1
  <2>3. \A a, b \in prefetches : a.visit = b.visit => a = b
    BY <1>1
  <2>4. busy \in BOOLEAN
    BY <1>1
  <2>. QED
    BY <1>1, <1>3, <2>1, <2>2, <2>3, <2>4 DEF EnrolKept

\* A screen is entered: the options go, and a new visit asks for its own.
LEMMA EnteringKeeps ==
    ASSUME EnrolKept, NEW s, Enters(s), UNCHANGED handed
    PROVE  EnrolKept'
<1>. USE EnrolmentAssumption DEF None, Visits
<1>1. options' = None /\ busy' = FALSE
  BY DEF Enters
<1>2. CASE KindOf(s) = "none"
  BY <1>1, <1>2 DEF Enters, EnrolKept
<1>3. CASE KindOf(s) # "none"
  <2>. DEFINE new == [visit |-> visit + 1, kind |-> KindOf(s),
                      at |-> IF KindOf(s) = "registration" THEN "name" ELSE "begin"]
  <2>1. visit \in 0 .. MaxVisits /\ visit < MaxVisits /\ visit' = visit + 1
    BY <1>3 DEF Enters, EnrolKept
  <2>2. prefetches' = prefetches \cup {new}
    BY <1>3 DEF Enters
  <2>3. KindOf(s) \in {"registration", "authentication"}
    BY <1>3 DEF KindOf
  <2>4. new \in [visit : Visits, kind : {"registration", "authentication"},
                 at : {"name", "begin"}]
    BY <2>1, <2>3
  <2>5. new.visit = visit + 1
    OBVIOUS
  <2>6. \A a \in prefetches : a.visit \in Visits /\ a.visit <= visit
    BY DEF EnrolKept
  <2>. HIDE DEF new
  <2>7. \A v \in Visits : v > visit' => handed'[v] = 0
    BY <2>1 DEF EnrolKept
  <2>8. handed'[visit'] = 0
    <3>1. visit' \in Visits /\ visit' > visit
      BY <2>1
    <3>. QED
      BY <3>1 DEF EnrolKept
  <2>9. \A a, b \in prefetches' : a.visit = b.visit => a = b
    BY <2>1, <2>2, <2>5, <2>6 DEF EnrolKept
  <2>10. \A a \in prefetches' : a.visit <= visit'
    BY <2>1, <2>2, <2>5, <2>6 DEF EnrolKept
  <2>. QED
    <3>1. visit' \in 0 .. MaxVisits
      BY <2>1
    <3>2. prefetches' \subseteq [visit : Visits, kind : {"registration", "authentication"},
                                 at : {"name", "begin"}]
      BY <2>2, <2>4 DEF EnrolKept
    <3>3. handed' \in [Visits -> 0 .. 1]
      BY DEF EnrolKept
    <3>4. busy' \in BOOLEAN
      BY <1>1
    <3>. QED
      BY <1>1, <2>7, <2>8, <2>9, <2>10, <3>1, <3>2, <3>3, <3>4 DEF EnrolKept
<1>. QED
  BY <1>2, <1>3

LEMMA EnrolKeeps == EnrolKept /\ [EnrolNext]_enrolVars => EnrolKept'
<1>. SUFFICES ASSUME EnrolKept, [EnrolNext]_enrolVars PROVE EnrolKept'
  OBVIOUS
<1>. USE EnrolmentAssumption DEF None, Visits
\* Calls, clicks and ceremonies that leave the screen and its options alone.
<1>1. ASSUME UNCHANGED <<visit, prefetches, options, busy, handed>> PROVE EnrolKept'
  BY <1>1 DEF EnrolKept
<1>2. ASSUME NEW s, Goes(s) PROVE EnrolKept'
  BY <1>2, EnteringKeeps DEF Goes
<1>3. ASSUME NEW a \in prefetches, NameReserved(a) PROVE EnrolKept'
  <2>. DEFINE named == [a EXCEPT !.at = "begin"]
  <2>1. a \in [visit : Visits, kind : {"registration", "authentication"}, at : {"name", "begin"}]
    BY DEF EnrolKept
  <2>2. named \in [visit : Visits, kind : {"registration", "authentication"},
                   at : {"name", "begin"}] /\ named.visit = a.visit
    BY <2>1
  <2>3. prefetches' \subseteq (prefetches \ {a}) \cup {named}
        /\ UNCHANGED <<visit, options, busy, handed>>
    BY <1>3 DEF NameReserved
  <2>. HIDE DEF named
  <2>4. \A b, c \in prefetches' : b.visit = c.visit => b = c
    BY <2>2, <2>3 DEF EnrolKept
  <2>. QED
    BY <2>2, <2>3, <2>4 DEF EnrolKept
<1>4. ASSUME NEW a \in prefetches, NEW o, BeginAnswered(a, o) PROVE EnrolKept'
  <2>1. prefetches' = prefetches \ {a} /\ UNCHANGED <<visit, busy, handed>>
    BY <1>4 DEF BeginAnswered
  <2>2. \/ options' = options
        \/ options' = None
        \/ options' = visit /\ a.visit = visit
    BY <1>4 DEF BeginAnswered, Wanted
  <2>3. CASE options' \in {options, None}
    BY <2>1, <2>3 DEF EnrolKept
  <2>4. CASE options' = visit /\ a.visit = visit
    <3>1. handed[visit] = 0 /\ \A b \in prefetches' : b.visit # visit
      BY <2>1, <2>4 DEF EnrolKept
    <3>. QED
      BY <2>1, <2>4, <3>1 DEF EnrolKept
  <2>. QED
    BY <2>2, <2>3, <2>4
<1>5. ASSUME NEW a \in prefetches, BeginFailed(a) PROVE EnrolKept'
  BY <1>5 DEF BeginFailed, EnrolKept
<1>6. CASE Authenticate
  <2>1. options # None /\ ~busy /\ options = visit /\ visit \in Visits /\ handed[visit] = 0
    BY <1>6 DEF Authenticate, EnrolKept
  <2>2. /\ busy' = TRUE /\ handed' = [handed EXCEPT ![visit] = @ + 1]
        /\ UNCHANGED <<visit, prefetches, options>>
    BY <1>6, <2>1 DEF Authenticate
  <2>3. handed' \in [Visits -> 0 .. 1] /\ \A v \in Visits : v # visit => handed'[v] = handed[v]
    BY <2>1, <2>2 DEF EnrolKept
  <2>4. \A a \in prefetches : a.visit # visit
    BY <2>1 DEF EnrolKept
  <2>. QED
    BY <2>1, <2>2, <2>3, <2>4 DEF EnrolKept
<1>7. ASSUME NEW r \in rites, NEW answer \in {"attestation", "assertion"},
              CeremonyDone(r, answer)
      PROVE  EnrolKept'
  BY <1>1, <1>7, EnteringKeeps DEF CeremonyDone
<1>8. ASSUME NEW r \in rites, RiteFails(r) PROVE EnrolKept'
  BY <1>1, <1>8, EnteringKeeps DEF RiteFails, Refetch
<1>9. ASSUME NEW r \in rites, Finished(r) PROVE EnrolKept'
  BY <1>1, <1>9 DEF Finished
<1>10. ASSUME NEW r \in rites, CreateFails(r) PROVE EnrolKept'
  BY <1>1, <1>10 DEF CreateFails
<1>11. ASSUME NEW r \in rites, ImportEnds(r) PROVE EnrolKept'
  BY <1>11, EnteringKeeps DEF ImportEnds
<1>12. ASSUME NEW r \in rites, Created(r) \/ Settled(r) \/ PhraseVerified(r) PROVE EnrolKept'
  BY <1>12, EnteringKeeps DEF Created, Settled, PhraseVerified
<1>13. ASSUME NEW m \in DOMAIN FirstOf, ChooseMethod(m) PROVE EnrolKept'
  BY <1>2, <1>13 DEF ChooseMethod
<1>14. CASE BackFromName
  BY <1>2, <1>14 DEF BackFromName
<1>15. CASE BackToMethods \/ BackFromNewPasskey \/ NameNewPasskey \/ CollectPhrase
  BY <1>2, <1>15 DEF BackToMethods, BackFromNewPasskey, NameNewPasskey, CollectPhrase
<1>16. CASE Create \/ VerifyPhrase
  BY <1>1, <1>16 DEF Create, VerifyPhrase
<1>17. ASSUME NEW s, Walk(s) \/ StartOver(s) PROVE EnrolKept'
  BY <1>2, <1>17 DEF Walk, StartOver
<1>18. ASSUME NEW same \in BOOLEAN, ImportPhrase(same) PROVE EnrolKept'
  BY <1>1, <1>18, EnteringKeeps DEF ImportPhrase
<1>19. CASE UNCHANGED enrolVars
  BY <1>1, <1>19 DEF enrolVars
<1>. QED
  BY <1>3, <1>4, <1>5, <1>6, <1>7, <1>8, <1>9, <1>10, <1>11, <1>12, <1>13, <1>14, <1>15, <1>16,
     <1>17, <1>18, <1>19 DEF EnrolNext, EnrolAnswers, RiteEnds

\* The authenticator is given the options of a begin once, and only those of
\* the last visit are at hand.
THEOREM ChallengesUsedOnce == ServicesSpec => []ChallengeUsedOnce
<1>1. ServicesInit => EnrolKept
  BY EnrolStarts DEF ServicesInit
<1>2. EnrolKept /\ [ServicesNext]_vars => EnrolKept'
  BY EnrolOnly, EnrolKeeps
<1>3. EnrolKept => ChallengeUsedOnce
  BY DEF EnrolKept, ChallengeUsedOnce, Visits
<1>. QED
  BY <1>1, <1>2, <1>3, PTL DEF ServicesSpec

-----------------------------------------------------------------------------
\* The inductive invariant of the proposals: an approval under way is of the
\* proposal that was on screen at its click.
IsTicket(t) ==
    t = [op |-> t.op, of |-> t.of, sim |-> t.sim, seen |-> t.seen, at |-> t.at, lost |-> t.lost]

ProposalsKept ==
    /\ \A t \in tickets : IsTicket(t) /\ (t.op = "approve" => t.of = t.seen)
    /\ \A a \in approvals : a.of = a.seen

LEMMA ProposalsStart == ProposalInit => ProposalsKept
BY DEF ProposalInit, ProposalsKept, IsTicket, Get

LEMMA ProposalsKeep == ProposalsKept /\ [ProposalNext]_proposalVars => ProposalsKept'
<1>. SUFFICES ASSUME ProposalsKept, [ProposalNext]_proposalVars PROVE ProposalsKept'
  OBVIOUS
\* A ticket that only moves on is of the same proposal, for the same click.
<1>1. ASSUME NEW t \in tickets PROVE IsTicket(t) /\ (t.op = "approve" => t.of = t.seen)
  BY DEF ProposalsKept
<1>2. ASSUME NEW t \in tickets, NEW at
      PROVE  LET u == [t EXCEPT !.at = at]
             IN  IsTicket(u) /\ (u.op = "approve" => u.of = u.seen)
  BY <1>1 DEF IsTicket
<1>3. ASSUME NEW t \in tickets
      PROVE  LET u == [t EXCEPT !.lost = TRUE]
             IN  IsTicket(u) /\ (u.op = "approve" => u.of = u.seen)
  <2>. DEFINE u == [t EXCEPT !.lost = TRUE]
  <2>1. u = [op |-> t.op, of |-> t.of, sim |-> t.sim, seen |-> t.seen, at |-> t.at, lost |-> TRUE]
    <3>1. \A x : [t EXCEPT !.lost = x] = [op |-> t.op, of |-> t.of, sim |-> t.sim,
                                         seen |-> t.seen, at |-> t.at, lost |-> x]
      BY <1>1 DEF IsTicket
    <3>. QED
      BY <3>1
  <2>. HIDE DEF u
  <2>2. IsTicket(u) /\ u.op = t.op /\ u.of = t.of /\ u.seen = t.seen
    BY <2>1 DEF IsTicket
  <2>3. IsTicket(u) /\ (u.op = "approve" => u.of = u.seen)
    BY <1>1, <2>2
  <2>. QED
    BY <2>3 DEF u
<1>4. \A i : IsTicket(Get(i)) /\ Get(i).op # "approve"
  BY DEF IsTicket, Get
<1>5. ASSUME tickets' \subseteq tickets \cup {Get(i) : i \in ProposalIds \cup {linked, outcome.of}}
                                  \cup {Get(t.of) : t \in tickets},
             UNCHANGED approvals
      PROVE  ProposalsKept'
  BY <1>1, <1>4, <1>5 DEF ProposalsKept
<1>6. ASSUME NEW op, NEW of, NEW sim, NEW at, AsksFor(op, of, sim, at), UNCHANGED approvals,
             op = "approve" => of = shownProposal.of
      PROVE  ProposalsKept'
  <2>. DEFINE new == [op |-> op, of |-> of, sim |-> sim, seen |-> shownProposal.of, at |-> at,
                      lost |-> FALSE]
  <2>1. tickets' = tickets \cup {new}
    BY <1>6 DEF AsksFor
  <2>2. IsTicket(new) /\ new.op = op /\ new.of = of /\ new.seen = shownProposal.of
    BY DEF IsTicket
  <2>. HIDE DEF new
  <2>. QED
    BY <1>1, <1>6, <2>1, <2>2 DEF ProposalsKept
<1>7. CASE OpenList \/ BackToList
  BY <1>5, <1>7 DEF OpenList, BackToList
<1>8. ASSUME NEW i \in ProposalIds, OpenProposal(i) PROVE ProposalsKept'
  BY <1>5, <1>8 DEF OpenProposal
<1>9. ASSUME NEW to, LeaveProposals(to) PROVE ProposalsKept'
  <2>1. \A u \in tickets' : \E t \in tickets : u = [t EXCEPT !.lost = TRUE]
    BY <1>9 DEF LeaveProposals, Left
  <2>2. \A u \in tickets' : IsTicket(u) /\ (u.op = "approve" => u.of = u.seen)
    BY <1>3, <2>1
  <2>3. approvals' = approvals
    BY <1>9 DEF LeaveProposals
  <2>. QED
    BY <2>2, <2>3 DEF ProposalsKept
<1>10. CASE ClickApprove
  BY <1>6, <1>10 DEF ClickApprove, Approves
<1>11. CASE ClickExecute
  BY <1>6, <1>11 DEF ClickExecute
<1>12. CASE ClickRefresh
  BY <1>6, <1>12 DEF ClickRefresh
<1>13. CASE ReopenPopup
  BY <1>5, <1>13 DEF ReopenPopup
<1>14. ASSUME NEW t \in tickets, PasskeySigned(t) \/ SeedSigned(t) PROVE ProposalsKept'
  BY <1>1, <1>2, <1>14 DEF PasskeySigned, SeedSigned, Moves, OnlyMoves, ProposalsKept
<1>15. ASSUME NEW t \in tickets, SeedGetsTemplate(t) PROVE ProposalsKept'
  <2>. DEFINE v == [t EXCEPT !.at = "sign"]
              u == [v EXCEPT !.sim = proposal[t.of].sim]
  <2>1. IsTicket(v) /\ (v.op = "approve" => v.of = v.seen)
    BY <1>2
  <2>2. tickets' = (tickets \ {t}) \cup {u} /\ UNCHANGED approvals
    BY <1>15 DEF SeedGetsTemplate, OnlyMoves
  <2>. HIDE DEF v
  <2>3. IsTicket(u) /\ (u.op = "approve" => u.of = u.seen)
    BY <2>1 DEF IsTicket
  <2>. HIDE DEF u
  <2>. QED
    BY <1>1, <2>2, <2>3 DEF ProposalsKept
<1>16. ASSUME NEW t \in tickets, BackendActs(t) PROVE ProposalsKept'
  <2>. DEFINE v == [t EXCEPT !.at = "answered"]
  <2>1. IsTicket(v) /\ (v.op = "approve" => v.of = v.seen)
    BY <1>2
  <2>2. tickets' = (tickets \ {t}) \cup {v}
    BY <1>16 DEF BackendActs, Moves
  <2>3. approvals' = IF t.op = "approve" THEN approvals \cup {[of |-> t.of, seen |-> t.seen]}
                     ELSE approvals
    BY <1>16 DEF BackendActs
  <2>4. \A a \in approvals' : a.of = a.seen
    BY <1>1, <2>3 DEF ProposalsKept
  <2>. HIDE DEF v
  <2>. QED
    BY <1>1, <2>1, <2>2, <2>4 DEF ProposalsKept
<1>17. ASSUME NEW i \in ProposalIds, OthersAct(i) PROVE ProposalsKept'
  BY <1>5, <1>17 DEF OthersAct
<1>18. ASSUME NEW t \in tickets, ProposalAnswered(t) PROVE ProposalsKept'
  BY <1>5, <1>18 DEF ProposalAnswered
<1>19. ASSUME NEW t \in tickets, ProposalFails(t) PROVE ProposalsKept'
  BY <1>5, <1>19 DEF ProposalFails
<1>20. CASE UNCHANGED proposalVars
  BY <1>5, <1>20 DEF proposalVars
<1>. QED
  BY <1>7, <1>8, <1>9, <1>10, <1>11, <1>12, <1>13, <1>14, <1>15, <1>16, <1>17, <1>18, <1>19, <1>20
  DEF ProposalNext, TicketMoves

-----------------------------------------------------------------------------
\* The inductive invariant of the send flow.  Of a Max under way the amount is
\* what the fee it counts on leaves, and no quoted fee was higher; an estimate
\* somebody waits for is of the draft on screen; a price on its way is of the
\* token chosen last.
Shaped(r, fields) == DOMAIN r = fields /\ r = [f \in fields |-> r[f]]

SendFields == {"step", "token", "amount", "usd", "to", "price", "reviewed", "multi", "maxing",
               "estimating", "blocked", "setupFailed", "sending"}
IsSend(s) == Shaped(s, SendFields)

PriceKept(a) ==
    /\ Shaped(a, {"what", "token"}) /\ a.what = "price"
    /\ a.token = send.token /\ a.token # NoPick

MaxFields == {"what", "token", "to", "at", "amount", "fee", "top", "live"}
MaxShape(a) == Shaped(a, MaxFields) /\ a.what = "max"

MaxCounts(a) ==
    /\ a.at \in Nat /\ a.fee \in Nat /\ a.top \in Nat
    /\ a.token = FeeToken => a.top <= a.fee /\ a.amount \in {0, AfterFee(FeeToken, a.fee)}

MaxKept(a) ==
    /\ MaxShape(a) /\ MaxCounts(a)
    /\ a.at = 1 => a.amount = 0 /\ a.fee = 0 /\ a.top = 0

EstimateShape(a) == Shaped(a, {"what", "body", "at", "live"}) /\ a.what = "estimate"

EstimateKept(a) ==
    /\ EstimateShape(a)
    /\ a.live => send.step = "summary" /\ a.body = Body(send)

ConfirmShape(a) == Shaped(a, {"what", "body", "at"}) /\ a.what = "confirm"

AskKept(a) == PriceKept(a) \/ MaxKept(a) \/ EstimateKept(a) \/ ConfirmShape(a)

SendKept ==
    /\ IsSend(send)
    /\ \A a \in sendAsks : AskKept(a)
    /\ send.step = "summary" /\ send.reviewed # NoBody => send.reviewed = Body(send)
    /\ PriceIsOfTheToken

\* What Becomes makes of the flow: the draft is that of s, the build reviewed is
\* forgotten when the estimate starts afresh.
LEMMA BecomesSend ==
    ASSUME NEW s, IsSend(s), NEW asks, NEW again \in BOOLEAN, Becomes(s, asks, again)
    PROVE  /\ IsSend(send')
           /\ send'.step = s.step /\ send'.token = s.token /\ send'.price = s.price
           /\ Body(send') = Body(s)
           /\ send'.reviewed = IF s.step = "summary" /\ (again \/ Changed(s)) THEN NoBody
                               ELSE s.reviewed
<1>. DEFINE fresh == s.step = "summary" /\ (again \/ Changed(s))
            estimates == fresh /\ ~s.multi /\ Body(s) # NoBody
            t == [s EXCEPT !.maxing = @ /\ s.step = "enterAmount"]
            u == [t EXCEPT !.reviewed = NoBody, !.blocked = FALSE, !.setupFailed = FALSE,
                           !.estimating = estimates]
<1>1. send' = IF fresh THEN u ELSE t
  BY DEF Becomes
<1>. HIDE DEF estimates
<1>2. IsSend(t) /\ t.step = s.step /\ t.token = s.token /\ t.price = s.price /\ t.amount = s.amount
      /\ t.usd = s.usd /\ t.to = s.to /\ t.reviewed = s.reviewed
  BY DEF IsSend, Shaped, SendFields
<1>. HIDE DEF t
<1>3. IsSend(u) /\ u.step = s.step /\ u.token = s.token /\ u.price = s.price /\ u.amount = s.amount
      /\ u.usd = s.usd /\ u.to = s.to /\ u.reviewed = NoBody
  BY <1>2 DEF IsSend, Shaped, SendFields
<1>. HIDE DEF u, fresh
<1>4. CASE fresh
  BY <1>1, <1>3, <1>4 DEF Body, Units, fresh
<1>5. CASE ~fresh
  BY <1>1, <1>2, <1>5 DEF Body, Units, fresh
<1>. QED
  BY <1>4, <1>5

\* What Becomes leaves on its way: prices asked for the token of s, and of the
\* others what somebody still awaits.
LEMMA BecomesAsks ==
    ASSUME NEW s, NEW asks, NEW again \in BOOLEAN, Becomes(s, asks, again),
           NEW b \in sendAsks'
    PROVE  \/ b = Estimate(Body(s)) /\ s.step = "summary"
           \/ b = ThisPrice(s.token) /\ s.token # NoPick
           \/ /\ b \in asks
              /\ b.what = "price" => s.token = send.token
              /\ b.what = "estimate" => s.step = "summary" /\ ~again /\ ~Changed(s)
           \/ \E a \in asks : a.what \in {"max", "estimate"} /\ b = [a EXCEPT !.live = FALSE]
<1>. DEFINE fresh == s.step = "summary" /\ (again \/ Changed(s))
            estimates == fresh /\ ~s.multi /\ Body(s) # NoBody
            left == (IF fresh \/ s.step # "summary" THEN {"estimate"} ELSE {})
                        \cup (IF s.step # "enterAmount" THEN {"max"} ELSE {})
            some == IF s.token = send.token THEN asks ELSE Repriced(s, asks)
<1>1. b \in Unheard(some, left) \cup IF estimates THEN {Estimate(Body(s))} ELSE {}
  BY DEF Becomes
<1>2. left \subseteq {"max", "estimate"} /\ ("estimate" \notin left => ~fresh /\ s.step = "summary")
  OBVIOUS
<1>3. \A a \in some : \/ a \in asks /\ (a.what = "price" => s.token = send.token)
                      \/ a = ThisPrice(s.token) /\ s.token # NoPick
  BY DEF Repriced, PriceAsked
<1>4. ThisPrice(s.token).what = "price"
  BY DEF ThisPrice
<1>. HIDE DEF left, some
<1>5. CASE b \in Unheard(some, left)
  <2>1. PICK a \in some : b = IF a.what \in left THEN [a EXCEPT !.live = FALSE] ELSE a
    BY <1>5 DEF Unheard
  <2>. QED
    BY <1>2, <1>3, <1>4, <2>1
<1>. QED
  BY <1>1, <1>5

\* What Becomes needs of s and of the messages that stay to keep the invariant:
\* an estimate that goes on is of the draft of s, and a price that stays known
\* is of its token or will be answered anew.
LEMMA SendBecomes ==
    ASSUME SendKept, NEW s, IsSend(s), NEW asks \in SUBSET sendAsks, NEW again \in BOOLEAN,
           Becomes(s, asks, again),
           ~again /\ s.step = "summary" /\ send.step = "summary" /\ s.price = send.price =>
               Body(s) = Body(send) /\ s.reviewed = send.reviewed,
           \/ s.price = 0
           \/ s.token = send.token /\ s.token # NoPick /\ s.price = UnitsPerUsd[s.token]
           \/ s.token = send.token /\ s.price = send.price
                  /\ \A a \in sendAsks : a.what = "price" => a \in asks
           \/ s.token # send.token /\ s.token # NoPick /\ s.step # "away"
    PROVE  SendKept'
<1>1. /\ IsSend(send')
      /\ send'.step = s.step /\ send'.token = s.token /\ send'.price = s.price
      /\ Body(send') = Body(s)
      /\ send'.reviewed = IF s.step = "summary" /\ (again \/ Changed(s)) THEN NoBody
                          ELSE s.reviewed
  BY BecomesSend
<1>2. ASSUME NEW b \in sendAsks' PROVE AskKept(b)'
  <2>1. CASE b = Estimate(Body(s)) /\ s.step = "summary"
    <3>1. EstimateShape(b) /\ b.body = Body(s)
      BY <2>1 DEF EstimateShape, Shaped, Estimate
    <3>2. EstimateKept(b)'
      BY <1>1, <2>1, <3>1 DEF EstimateKept
    <3>. QED
      BY <3>2 DEF AskKept
  <2>2. CASE b = ThisPrice(s.token) /\ s.token # NoPick
    <3>1. PriceKept(b)'
      BY <1>1, <2>2 DEF PriceKept, Shaped, ThisPrice
    <3>. QED
      BY <3>1 DEF AskKept
  <2>3. CASE /\ b \in asks
             /\ b.what = "price" => s.token = send.token
             /\ b.what = "estimate" => s.step = "summary" /\ ~again /\ ~Changed(s)
    <3>1. AskKept(b)
      BY <2>3 DEF SendKept
    <3>2. CASE PriceKept(b)
      <4>1. PriceKept(b)'
        BY <1>1, <2>3, <3>2 DEF PriceKept
      <4>. QED
        BY <4>1 DEF AskKept
    <3>3. CASE EstimateKept(b)
      <4>1. EstimateKept(b)'
        BY <1>1, <2>3, <3>3 DEF EstimateKept, EstimateShape, Changed
      <4>. QED
        BY <4>1 DEF AskKept
    <3>4. CASE MaxKept(b) \/ ConfirmShape(b)
      BY <3>4 DEF AskKept, MaxKept, MaxCounts
    <3>. QED
      BY <3>1, <3>2, <3>3, <3>4 DEF AskKept
  <2>4. CASE \E a \in asks : a.what \in {"max", "estimate"} /\ b = [a EXCEPT !.live = FALSE]
    <3>1. PICK a \in asks : a.what \in {"max", "estimate"} /\ b = [a EXCEPT !.live = FALSE]
      BY <2>4
    <3>2. AskKept(a)
      BY <3>1 DEF SendKept
    <3>3. CASE MaxKept(a)
      <4>1. MaxKept(b)
        <5>1. MaxShape(b) /\ b.at = a.at /\ b.fee = a.fee /\ b.top = a.top /\ b.token = a.token
              /\ b.amount = a.amount
          BY <3>1, <3>3 DEF MaxKept, MaxShape, Shaped, MaxFields
        <5>. QED
          BY <3>3, <5>1 DEF MaxKept, MaxCounts
      <4>. QED
        BY <4>1 DEF AskKept, MaxKept, MaxCounts
    <3>4. CASE EstimateKept(a)
      <4>1. EstimateShape(b) /\ ~b.live
        BY <3>1, <3>4 DEF EstimateKept, EstimateShape, Shaped
      <4>2. EstimateKept(b)'
        BY <4>1 DEF EstimateKept
      <4>. QED
        BY <4>2 DEF AskKept
    <3>. QED
      BY <3>1, <3>2, <3>3, <3>4 DEF AskKept, PriceKept, ConfirmShape
  <2>. QED
    BY <2>1, <2>2, <2>3, <2>4, BecomesAsks
<1>3. send'.step = "summary" /\ send'.reviewed # NoBody => send'.reviewed = Body(send')
  BY <1>1 DEF SendKept, Changed
<1>4. PriceIsOfTheToken'
  <2>. DEFINE some == IF s.token = send.token THEN asks ELSE Repriced(s, asks)
  <2>1. \A a \in some : a.what = "price" => a \in sendAsks'
    BY DEF Becomes, Unheard
  <2>2. CASE s.token = send.token
    BY <1>1, <2>1, <2>2 DEF SendKept, PriceIsOfTheToken
  <2>3. CASE s.token # send.token /\ s.token # NoPick /\ s.step # "away"
    <3>1. ThisPrice(s.token) \in some /\ ThisPrice(s.token).what = "price"
      BY <2>3 DEF Repriced, PriceAsked, ThisPrice
    <3>. QED
      BY <2>1, <3>1 DEF PriceIsOfTheToken
  <2>4. CASE s.price = 0
    BY <1>1, <2>4 DEF PriceIsOfTheToken
  <2>. QED
    BY <2>2, <2>3, <2>4
<1>. QED
  BY <1>1, <1>2, <1>3, <1>4 DEF SendKept

\* Steps that leave the draft alone: the invariant only needs the messages that
\* are new, and what is now taken for reviewed.
LEMMA SameDraft ==
    ASSUME SendKept, IsSend(send'),
           send'.step = send.step, send'.token = send.token, send'.price = send.price,
           Body(send') = Body(send),
           send'.reviewed \in {send.reviewed, Body(send)},
           \A b \in sendAsks' : b \in sendAsks \/ AskKept(b),
           \A a \in sendAsks : a.what = "price" => a \in sendAsks'
    PROVE  SendKept'
<1>1. \A b : AskKept(b) => AskKept(b)'
  BY DEF AskKept, PriceKept, EstimateKept, MaxKept, MaxCounts
<1>2. \A b \in sendAsks' : AskKept(b)'
  BY <1>1 DEF SendKept
<1>3. send'.step = "summary" /\ send'.reviewed # NoBody => send'.reviewed = Body(send')
  BY DEF SendKept
<1>4. PriceIsOfTheToken'
  BY DEF SendKept, PriceIsOfTheToken
<1>. QED
  BY <1>2, <1>3, <1>4 DEF SendKept

LEMMA SendStarts == SendInit => SendKept
<1>. SUFFICES ASSUME SendInit PROVE SendKept
  OBVIOUS
<1>1. FeeToken # NoPick
  BY SendAssumption DEF NoPick
<1>2. IsSend(send) /\ send.step = "enterAmount" /\ send.token = FeeToken /\ send.price = 0
  BY DEF SendInit, IsSend, Shaped, SendFields
<1>3. sendAsks = {ThisPrice(FeeToken)}
  BY DEF SendInit
<1>4. PriceKept(ThisPrice(FeeToken))
  BY <1>1, <1>2 DEF PriceKept, Shaped, ThisPrice
<1>. QED
  BY <1>2, <1>3, <1>4 DEF SendKept, AskKept, PriceIsOfTheToken

-----------------------------------------------------------------------------
\* Max.

\* What is left when a fee is paid.
LEMMA AfterFeeLeaves ==
    ASSUME NEW fee \in Nat
    PROVE  /\ AfterFee(FeeToken, fee) \in Nat
           /\ AfterFee(FeeToken, fee) > 0 => AfterFee(FeeToken, fee) + fee = Funds[FeeToken]
<1>1. Funds[FeeToken] \in Nat
  BY SendAssumption
<1>. QED
  BY <1>1 DEF AfterFee

LEMMA MaxIsKept ==
    ASSUME SendKept, NEW a \in sendAsks, a.what = "max"
    PROVE  MaxKept(a)
BY DEF SendKept, AskKept, PriceKept, EstimateKept, EstimateShape, ConfirmShape

\* A probe that was priced, or refused for want of the fee, counts on a fee at
\* least as high as any it was quoted.
LEMMA ProbesOnKeeps ==
    ASSUME SendKept, NEW a \in sendAsks, NEW next, MaxShape(next), MaxCounts(next),
           next.at # 0, a.what = "max", ProbesOn(a, next)
    PROVE  SendKept'
<1>. DEFINE b == [next EXCEPT !.at = @ + (IF next.amount = 0 THEN 9 ELSE 1)]
<1>1. send' = send /\ sendAsks' = (sendAsks \ {a}) \cup {b}
  BY DEF ProbesOn
<1>2. MaxShape(b) /\ b.fee = next.fee /\ b.top = next.top /\ b.token = next.token
      /\ b.amount = next.amount /\ b.at = next.at + (IF next.amount = 0 THEN 9 ELSE 1)
  BY DEF MaxShape, Shaped, MaxFields
<1>. HIDE DEF b
<1>3. b.at \in Nat /\ b.at # 1
  BY <1>2 DEF MaxCounts
<1>4. MaxKept(b)
  BY <1>2, <1>3 DEF MaxKept, MaxCounts
<1>. QED
  BY <1>1, <1>4, SameDraft DEF AskKept, SendKept

LEMMA ProbeBuiltKeeps ==
    ASSUME SendKept, NEW a \in sendAsks, ProbeBuilt(a)
    PROVE  SendKept'
<1>1. a.what = "max" /\ a.at \in 1 .. 3 /\ MaxKept(a)
  BY MaxIsKept DEF ProbeBuilt
<1>2. PICK fee \in Fees :
        LET next == Probed(a, fee)
            done == fee = 0 \/ a.token # FeeToken \/ (a.at > 1 /\ fee <= a.fee)
        IN ProbesOn(a, IF done THEN [next EXCEPT !.at = 3] ELSE next)
  BY DEF ProbeBuilt
<1>. DEFINE grows == a.at = 1 \/ (fee > a.fee /\ a.token = FeeToken)
            next == Probed(a, fee)
            last == [next EXCEPT !.at = 3]
<1>3. fee \in Nat
  BY SendAssumption
<1>4. /\ MaxShape(next) /\ next.at = a.at /\ next.token = a.token
      /\ next.fee = (IF grows THEN fee ELSE a.fee) /\ next.top = Higher(a.top, fee)
      /\ next.amount = (IF grows THEN AfterFee(a.token, fee) ELSE a.amount)
  BY <1>1 DEF Probed, MaxKept, MaxShape, Shaped, MaxFields
<1>. HIDE DEF next
<1>5. /\ MaxShape(last) /\ last.at = 3 /\ last.token = next.token /\ last.fee = next.fee
      /\ last.top = next.top /\ last.amount = next.amount
  BY <1>4 DEF MaxShape, Shaped, MaxFields
<1>. HIDE DEF last
<1>6. /\ next.fee \in Nat /\ next.top \in Nat
      /\ a.token = FeeToken => /\ next.top <= next.fee
                               /\ next.amount \in {0, AfterFee(FeeToken, next.fee)}
  BY <1>1, <1>3, <1>4 DEF MaxKept, MaxCounts, Higher
<1>7. CASE ProbesOn(a, last)
  <2>1. MaxCounts(last)
    BY <1>4, <1>5, <1>6 DEF MaxCounts
  <2>. QED
    BY <1>1, <1>5, <1>7, <2>1, ProbesOnKeeps
<1>8. CASE ProbesOn(a, next)
  BY <1>1, <1>4, <1>6, <1>8, ProbesOnKeeps DEF MaxCounts
<1>. QED
  BY <1>2, <1>7, <1>8 DEF last, next

LEMMA ProbePoorKeeps ==
    ASSUME SendKept, NEW a \in sendAsks, ProbePoor(a)
    PROVE  SendKept'
<1>1. a.what = "max" /\ a.at \in 1 .. 3 /\ MaxKept(a)
  BY MaxIsKept DEF ProbePoor
<1>. DEFINE none == [a EXCEPT !.amount = 0]
            twice == [a EXCEPT !.fee = 2 * @, !.amount = AfterFee(a.token, 2 * a.fee)]
<1>2. ProbesOn(a, none) \/ ProbesOn(a, twice)
  BY DEF ProbePoor
<1>3. MaxShape(none) /\ none.at = a.at /\ none.token = a.token /\ none.fee = a.fee
      /\ none.top = a.top /\ none.amount = 0
  BY <1>1 DEF MaxKept, MaxShape, Shaped, MaxFields
<1>4. MaxShape(twice) /\ twice.at = a.at /\ twice.token = a.token /\ twice.fee = 2 * a.fee
      /\ twice.top = a.top /\ twice.amount = AfterFee(a.token, 2 * a.fee)
  BY <1>1 DEF MaxKept, MaxShape, Shaped, MaxFields
<1>. HIDE DEF none, twice
<1>5. MaxCounts(none)
  BY <1>1, <1>3 DEF MaxKept, MaxCounts
<1>6. MaxCounts(twice)
  BY <1>1, <1>4 DEF MaxKept, MaxCounts
<1>. QED
  BY <1>1, <1>2, <1>3, <1>4, <1>5, <1>6, ProbesOnKeeps

LEMMA MaxEndsKeeps ==
    ASSUME SendKept, NEW a \in sendAsks, a.what = "max", NEW changes \in BOOLEAN,
           MaxEnds(a, changes)
    PROVE  SendKept'
<1>. DEFINE s == [send EXCEPT !.maxing = @ /\ ~a.live]
            t == IF changes THEN [s EXCEPT !.amount = a.amount, !.usd = FALSE] ELSE s
<1>1. Becomes(t, sendAsks \ {a}, changes)
  BY DEF MaxEnds
<1>2. /\ IsSend(s) /\ s.step = send.step /\ s.token = send.token /\ s.price = send.price
      /\ s.reviewed = send.reviewed /\ s.amount = send.amount /\ s.usd = send.usd /\ s.to = send.to
  BY DEF SendKept, IsSend, Shaped, SendFields
<1>. HIDE DEF s
<1>3. /\ IsSend(t) /\ t.step = s.step /\ t.token = s.token /\ t.price = s.price
      /\ ~changes => t = s
  BY <1>2 DEF IsSend, Shaped, SendFields
<1>4. ~changes => Body(t) = Body(send) /\ t.reviewed = send.reviewed
  BY <1>2, <1>3 DEF Body, Units
<1>. HIDE DEF t
<1>5. \A b \in sendAsks : b.what = "price" => b \in sendAsks \ {a}
  OBVIOUS
<1>. QED
  BY <1>1, <1>2, <1>3, <1>4, <1>5, SendBecomes

-----------------------------------------------------------------------------
\* The estimate and Confirm.

LEMMA EstimateIsKept ==
    ASSUME SendKept, NEW a \in sendAsks, a.what = "estimate"
    PROVE  EstimateKept(a)
BY DEF SendKept, AskKept, PriceKept, MaxKept, MaxShape, ConfirmShape

LEMMA ConfirmIsKept ==
    ASSUME SendKept, NEW a \in sendAsks, a.what = "confirm"
    PROVE  ConfirmShape(a)
BY DEF SendKept, AskKept, PriceKept, MaxKept, MaxShape, EstimateKept, EstimateShape

LEMMA EstimateMoves ==
    ASSUME SendKept, NEW a \in sendAsks, a.what = "estimate", NEW at, send' = send,
           sendAsks' = (sendAsks \ {a}) \cup {[a EXCEPT !.at = at]}
    PROVE  SendKept'
<1>. DEFINE b == [a EXCEPT !.at = at]
<1>1. EstimateKept(a)
  BY EstimateIsKept
<1>2. EstimateShape(b) /\ b.live = a.live /\ b.body = a.body
  BY <1>1 DEF EstimateKept, EstimateShape, Shaped
<1>3. EstimateKept(b)
  BY <1>1, <1>2 DEF EstimateKept
<1>. HIDE DEF b
<1>. QED
  BY <1>3, SameDraft DEF AskKept, SendKept, b

LEMMA ConfirmMovesKeeps ==
    ASSUME SendKept, NEW c \in sendAsks, c.what = "confirm", NEW at, send' = send,
           ConfirmMoves(c, at)
    PROVE  SendKept'
<1>. DEFINE b == [c EXCEPT !.at = at]
<1>1. ConfirmShape(b)
  BY ConfirmIsKept DEF ConfirmShape, Shaped
<1>. HIDE DEF b
<1>2. sendAsks' = (sendAsks \ {c}) \cup {b}
  BY DEF ConfirmMoves, b
<1>. QED
  BY <1>1, <1>2, SameDraft DEF AskKept, SendKept

\* An answer somebody awaits is of the draft on screen.
LEMMA EstimatedKeeps ==
    ASSUME SendKept, NEW a \in sendAsks, a.what = "estimate", NEW s, IsSend(s),
           s.step = send.step, s.token = send.token, s.price = send.price,
           s.amount = send.amount, s.usd = send.usd, s.to = send.to,
           s.reviewed \in {send.reviewed, a.body},
           Estimated(a, s)
    PROVE  SendKept'
<1>. DEFINE t == [s EXCEPT !.estimating = FALSE]
<1>1. send' = (IF a.live THEN t ELSE send) /\ sendAsks' = sendAsks \ {a}
  BY DEF Estimated
<1>2. /\ IsSend(t) /\ t.step = s.step /\ t.token = s.token /\ t.price = s.price
      /\ t.amount = s.amount /\ t.usd = s.usd /\ t.to = s.to /\ t.reviewed = s.reviewed
  BY DEF IsSend, Shaped, SendFields
<1>. HIDE DEF t
<1>3. Body(t) = Body(send)
  BY <1>2 DEF Body, Units
<1>4. a.live => t.reviewed \in {send.reviewed, Body(send)}
  BY <1>2, EstimateIsKept DEF EstimateKept
<1>. QED
  BY <1>1, <1>2, <1>3, <1>4, SameDraft DEF SendKept

-----------------------------------------------------------------------------
\* The user's steps that change the screen only.
LEMMA GoToKeeps ==
    ASSUME SendKept, NEW target, GoTo(target)
    PROVE  SendKept'
<1>. DEFINE s == [send EXCEPT !.step = target]
<1>1. /\ IsSend(s) /\ s.step = target /\ s.token = send.token /\ s.price = send.price
      /\ s.reviewed = send.reviewed /\ s.amount = send.amount /\ s.usd = send.usd /\ s.to = send.to
  BY DEF SendKept, IsSend, Shaped, SendFields
<1>2. Becomes(s, sendAsks, FALSE)
  BY DEF GoTo
<1>. HIDE DEF s
<1>3. Body(s) = Body(send)
  BY <1>1 DEF Body, Units
<1>. QED
  BY <1>1, <1>2, <1>3, SendBecomes

LEMMA EntersAmountKeeps ==
    ASSUME SendKept, NEW amount, NEW usd, EntersAmount(amount, usd)
    PROVE  SendKept'
<1>. DEFINE s == [send EXCEPT !.amount = amount, !.usd = usd]
<1>1. IsSend(s) /\ s.step = send.step /\ s.token = send.token /\ s.price = send.price
  BY DEF SendKept, IsSend, Shaped, SendFields
<1>2. Becomes(s, sendAsks, TRUE)
  BY DEF EntersAmount
<1>. HIDE DEF s
<1>. QED
  BY <1>1, <1>2, SendBecomes

\* The flow starts over: no token, no price.
LEMMA ResetKeeps ==
    ASSUME SendKept, NEW target, target # "summary",
           Becomes([Reset(send) EXCEPT !.step = target], sendAsks, FALSE)
    PROVE  SendKept'
<1>. DEFINE s == [Reset(send) EXCEPT !.step = target]
<1>1. IsSend(s) /\ s.step = target /\ s.price = 0
  BY DEF SendKept, IsSend, Shaped, SendFields, Reset
<1>. HIDE DEF s
<1>. QED
  BY <1>1, SendBecomes DEF s

LEMMA ClickMaxKeeps == ASSUME SendKept, ClickMax PROVE SendKept'
<1>1. CASE send.multi
  BY <1>1, EntersAmountKeeps DEF ClickMax
<1>2. CASE ~send.multi
  <2>. DEFINE b == [what |-> "max", token |-> send.token, to |-> send.to, at |-> 1,
                    amount |-> 0, fee |-> 0, top |-> 0, live |-> TRUE]
  <2>1. send' = [send EXCEPT !.maxing = TRUE] /\ sendAsks' = sendAsks \cup {b}
    BY <1>2 DEF ClickMax
  <2>2. /\ IsSend(send') /\ send'.step = send.step /\ send'.token = send.token
        /\ send'.price = send.price /\ send'.reviewed = send.reviewed
        /\ send'.amount = send.amount /\ send'.usd = send.usd /\ send'.to = send.to
    BY <2>1 DEF SendKept, IsSend, Shaped, SendFields
  <2>3. Body(send') = Body(send)
    BY <2>2 DEF Body, Units
  <2>4. MaxKept(b)
    BY DEF MaxKept, MaxShape, MaxCounts, Shaped, MaxFields
  <2>. HIDE DEF b
  <2>. QED
    BY <2>1, <2>2, <2>3, <2>4, SameDraft DEF AskKept
<1>. QED
  BY <1>1, <1>2

LEMMA ClickSendKeeps == ASSUME SendKept, ClickSend PROVE SendKept'
<1>1. CASE Becomes(send, sendAsks, TRUE)
  BY <1>1, SendBecomes DEF SendKept
<1>2. CASE /\ send' = [send EXCEPT !.sending = TRUE]
           /\ sendAsks' = sendAsks \cup {[what |-> "confirm", at |-> "sent", body |-> Body(send)]}
  <2>. DEFINE b == [what |-> "confirm", at |-> "sent", body |-> Body(send)]
  <2>1. /\ IsSend(send') /\ send'.step = send.step /\ send'.token = send.token
        /\ send'.price = send.price /\ send'.reviewed = send.reviewed
        /\ send'.amount = send.amount /\ send'.usd = send.usd /\ send'.to = send.to
    BY <1>2 DEF SendKept, IsSend, Shaped, SendFields
  <2>2. Body(send') = Body(send)
    BY <2>1 DEF Body, Units
  <2>3. ConfirmShape(b)
    BY DEF ConfirmShape, Shaped
  <2>4. sendAsks' = sendAsks \cup {b}
    BY <1>2
  <2>. HIDE DEF b
  <2>. QED
    BY <2>1, <2>2, <2>3, <2>4, SameDraft DEF AskKept
<1>. QED
  BY <1>1, <1>2 DEF ClickSend

LEMMA PriceAnsweredKeeps ==
    ASSUME SendKept, NEW a \in sendAsks, PriceAnswered(a)
    PROVE  SendKept'
<1>1. PICK p \in {0, UnitsPerUsd[a.token]} :
          Becomes([send EXCEPT !.price = p], sendAsks \ {a}, FALSE)
  BY DEF PriceAnswered
<1>. DEFINE s == [send EXCEPT !.price = p]
<1>2. a.token = send.token /\ a.token # NoPick
  BY DEF PriceAnswered, SendKept, AskKept, PriceKept, MaxKept, MaxShape, EstimateKept,
         EstimateShape, ConfirmShape
<1>3. /\ IsSend(s) /\ s.step = send.step /\ s.token = send.token /\ s.price = p
      /\ s.reviewed = send.reviewed /\ s.amount = send.amount /\ s.usd = send.usd /\ s.to = send.to
  BY DEF SendKept, IsSend, Shaped, SendFields
<1>4. Becomes(s, sendAsks \ {a}, FALSE)
  BY <1>1
<1>. HIDE DEF s
<1>5. s.price = send.price => Body(s) = Body(send)
  BY <1>3 DEF Body, Units
<1>. QED
  BY <1>1, <1>2, <1>3, <1>4, <1>5, SendBecomes

LEMMA SendAnsweredKeeps ==
    ASSUME SendKept, NEW c \in sendAsks, SendAnswered(c)
    PROVE  SendKept'
<1>. DEFINE s == [send EXCEPT !.sending = FALSE]
            t == [s EXCEPT !.step = IF c.at = "done" THEN "success" ELSE "failure"]
<1>1. c.what = "confirm" /\ IF c.at = "again" THEN Becomes(s, sendAsks \ {c}, TRUE)
                            ELSE Becomes(t, sendAsks \ {c}, FALSE)
  BY DEF SendAnswered
<1>2. IsSend(s) /\ s.step = send.step /\ s.token = send.token /\ s.price = send.price
  BY DEF SendKept, IsSend, Shaped, SendFields
<1>. HIDE DEF s
<1>3. IsSend(t) /\ t.step # "summary" /\ t.token = s.token /\ t.price = s.price
  BY <1>2 DEF IsSend, Shaped, SendFields
<1>. HIDE DEF t
<1>4. \A b \in sendAsks : b.what = "price" => b \in sendAsks \ {c}
  BY <1>1
<1>5. CASE c.at = "again"
  BY <1>1, <1>2, <1>4, <1>5, SendBecomes
<1>6. CASE c.at # "again"
  BY <1>1, <1>2, <1>3, <1>4, <1>6, SendBecomes
<1>. QED
  BY <1>5, <1>6

LEMMA SendKeeps == SendKept /\ [SendNext]_sendVars => SendKept'
<1>. SUFFICES ASSUME SendKept, [SendNext]_sendVars PROVE SendKept'
  OBVIOUS
<1>1. ASSUME NEW a \in sendAsks, ProbeBuilt(a) \/ ProbePoor(a) PROVE SendKept'
  BY <1>1, ProbeBuiltKeeps, ProbePoorKeeps
<1>2. ASSUME NEW a \in sendAsks, ProbeFails(a) \/ MaxAnswered(a) PROVE SendKept'
  <2>. DEFINE later == a.at > 1
  <2>1. a.what = "max" /\ (MaxEnds(a, later) \/ MaxEnds(a, TRUE))
    BY <1>2 DEF ProbeFails, MaxAnswered
  <2>2. later \in BOOLEAN
    OBVIOUS
  <2>. HIDE DEF later
  <2>. QED
    BY <2>1, <2>2, MaxEndsKeeps
<1>3. ASSUME NEW a \in sendAsks, PriceAnswered(a) PROVE SendKept'
  BY <1>3, PriceAnsweredKeeps
<1>4. ASSUME NEW a \in sendAsks, EstimateBuilt(a) PROVE SendKept'
  <2>. DEFINE s == [send EXCEPT !.reviewed = a.body]
  <2>1. /\ IsSend(s) /\ s.step = send.step /\ s.token = send.token /\ s.price = send.price
        /\ s.amount = send.amount /\ s.usd = send.usd /\ s.to = send.to /\ s.reviewed = a.body
    BY DEF SendKept, IsSend, Shaped, SendFields
  <2>2. a.what = "estimate" /\ Estimated(a, s)
    BY <1>4 DEF EstimateBuilt
  <2>. HIDE DEF s
  <2>. QED
    BY <2>1, <2>2, EstimatedKeeps
<1>5. ASSUME NEW a \in sendAsks, SetupFails(a) PROVE SendKept'
  <2>. DEFINE s == [send EXCEPT !.blocked = TRUE, !.setupFailed = TRUE]
  <2>1. /\ IsSend(s) /\ s.step = send.step /\ s.token = send.token /\ s.price = send.price
        /\ s.amount = send.amount /\ s.usd = send.usd /\ s.to = send.to
        /\ s.reviewed = send.reviewed
    BY DEF SendKept, IsSend, Shaped, SendFields
  <2>2. a.what = "estimate" /\ Estimated(a, s)
    BY <1>5 DEF SetupFails
  <2>. HIDE DEF s
  <2>. QED
    BY <2>1, <2>2, EstimatedKeeps
<1>6. ASSUME NEW a \in sendAsks, EstimateRefused(a) PROVE SendKept'
  <2>1. PICK fee \in BOOLEAN : Estimated(a, [send EXCEPT !.blocked = fee])
    BY <1>6 DEF EstimateRefused
  <2>. DEFINE s == [send EXCEPT !.blocked = fee]
  <2>2. /\ IsSend(s) /\ s.step = send.step /\ s.token = send.token /\ s.price = send.price
        /\ s.amount = send.amount /\ s.usd = send.usd /\ s.to = send.to
        /\ s.reviewed = send.reviewed
    BY DEF SendKept, IsSend, Shaped, SendFields
  <2>3. a.what = "estimate" /\ Estimated(a, s)
    BY <1>6, <2>1 DEF EstimateRefused
  <2>. HIDE DEF s
  <2>. QED
    BY <2>2, <2>3, EstimatedKeeps
<1>7. ASSUME NEW a \in sendAsks, EstimateNeedsSetup(a) PROVE SendKept'
  BY <1>7, EstimateMoves DEF EstimateNeedsSetup
<1>8. ASSUME NEW a \in sendAsks, SetupConfigures(a) PROVE SendKept'
  BY <1>8, EstimateMoves DEF SetupConfigures
<1>9. ASSUME NEW c \in sendAsks,
             Submits(c) \/ SendsBack(c) \/ ConfirmRefused(c) \/ LooksUpTrustline(c)
      PROVE  SendKept'
  <2>1. PICK at : ConfirmMoves(c, at)
    BY <1>9 DEF Submits, SendsBack, ConfirmRefused, LooksUpTrustline
  <2>2. c.what = "confirm" /\ send' = send
    BY <1>9 DEF Submits, SendsBack, ConfirmRefused, LooksUpTrustline
  <2>. QED
    BY <2>1, <2>2, ConfirmMovesKeeps
<1>10. ASSUME NEW c \in sendAsks, SendAnswered(c) PROVE SendKept'
  BY <1>10, SendAnsweredKeeps
<1>11. CASE OpenSend \/ LeaveSend
  BY <1>11, ResetKeeps DEF OpenSend, LeaveSend
<1>12. CASE SendBack \/ ContinueToSummary \/ ViewReceipt \/ TryAgainToSend
  BY <1>12, GoToKeeps DEF SendBack, ContinueToSummary, ViewReceipt, TryAgainToSend
<1>13. ASSUME NEW k \in SendTokens, SelectToken(k) PROVE SendKept'
  <2>. DEFINE s == [send EXCEPT !.token = k, !.step = "selectRecipient"]
  <2>1. IsSend(s) /\ s.step = "selectRecipient" /\ s.token = k /\ s.price = send.price
    BY DEF SendKept, IsSend, Shaped, SendFields
  <2>2. Becomes(s, sendAsks, TRUE)
    BY <1>13 DEF SelectToken
  <2>3. k # NoPick
    BY SendAssumption DEF NoPick
  <2>. HIDE DEF s
  <2>. QED
    BY <2>1, <2>2, <2>3, SendBecomes
<1>14. ASSUME NEW to \in Payees, SelectRecipient(to) PROVE SendKept'
  <2>. DEFINE s == [send EXCEPT !.to = to, !.step = "enterAmount"]
  <2>1. IsSend(s) /\ s.step = "enterAmount" /\ s.token = send.token /\ s.price = send.price
    BY DEF SendKept, IsSend, Shaped, SendFields
  <2>2. Becomes(s, sendAsks, TRUE)
    BY <1>14 DEF SelectRecipient
  <2>. HIDE DEF s
  <2>. QED
    BY <2>1, <2>2, SendBecomes
<1>15. ASSUME NEW n, TypeAmount(n) \/ PresetUsd(n) PROVE SendKept'
  BY <1>15, EntersAmountKeeps DEF TypeAmount, PresetUsd
<1>16. CASE ToggleMode
  BY <1>16, EntersAmountKeeps DEF ToggleMode
<1>17. CASE ClickMax \/ ClickSend
  BY <1>17, ClickMaxKeeps, ClickSendKeeps
<1>18. CASE UNCHANGED sendVars
  <2>1. send' = send /\ sendAsks' = sendAsks
    BY <1>18 DEF sendVars
  <2>. QED
    BY <2>1, SameDraft DEF SendKept
<1>. QED
  BY <1>1, <1>2, <1>3, <1>4, <1>5, <1>6, <1>7, <1>8, <1>9, <1>10, <1>11, <1>12, <1>13, <1>14,
     <1>15, <1>16, <1>17, <1>18 DEF SendNext, SendMoves

\* Max ends with an amount that leaves room for the highest fee it was quoted,
\* or with none.
THEOREM MaxPaysTheFee == ServicesSpec => []MaxLeavesTheFee
<1>1. ServicesInit => SendKept
  BY SendStarts DEF ServicesInit
<1>2. SendKept /\ [ServicesNext]_vars => SendKept'
  BY SendingOnly, SendKeeps
<1>3. SendKept => MaxLeavesTheFee
  <2>. SUFFICES ASSUME SendKept, NEW a \in sendAsks, a.what = "max", a.at > 3, a.amount > 0,
                       a.token = FeeToken
                PROVE  a.amount + a.top <= Funds[a.token]
    BY DEF MaxLeavesTheFee
  <2>1. a.fee \in Nat /\ a.top \in Nat /\ a.top <= a.fee
        /\ a.amount \in {0, AfterFee(FeeToken, a.fee)}
    BY MaxIsKept DEF MaxKept, MaxCounts
  <2>2. a.amount \in Nat /\ a.amount + a.fee = Funds[FeeToken]
    BY <2>1, AfterFeeLeaves
  <2>. QED
    BY <2>1, <2>2
<1>. QED
  BY <1>1, <1>2, <1>3, PTL DEF ServicesSpec

\* What is signed is what its screen showed at the click: a multisig's proposal,
\* the draft of a payment.
THEOREM SignedAsShown == ServicesSpec => []SignedIsShown
<1>1. ServicesInit => ProposalsKept /\ SendKept
  BY ProposalsStart, SendStarts DEF ServicesInit
<1>2. ProposalsKept /\ SendKept /\ [ServicesNext]_vars => ProposalsKept' /\ SendKept'
  BY ProposalsOnly, ProposalsKeep, SendingOnly, SendKeeps
<1>3. ProposalsKept /\ SendKept => SignedIsShown
  BY DEF ProposalsKept, SendKept, SignedIsShown, ApprovedIsShown, ReviewIsOfTheDraft
<1>. QED
  BY <1>1, <1>2, <1>3, PTL DEF ServicesSpec

\* A late answer shows up only where it was asked for: balances under their
\* account, a price for its token.
THEOREM AnswersInPlace == ServicesSpec => []AnswersFindTheirPlace
<1>1. ServicesInit => ReadsKept /\ SendKept
  BY ReadsStarts, SendStarts DEF ServicesInit
<1>2. ReadsKept /\ SendKept /\ [ServicesNext]_vars => ReadsKept' /\ SendKept'
  BY ReadsOnly, ReadsKeeps, SendingOnly, SendKeeps
<1>3. ReadsKept /\ SendKept => AnswersFindTheirPlace
  BY DEF ReadsKept, SendKept, AnswersFindTheirPlace, RowsAreOfTheAccount
<1>. QED
  BY <1>1, <1>2, <1>3, PTL DEF ServicesSpec

-----------------------------------------------------------------------------
\* The inductive invariant of the credentials.  Every copy of the token store
\* files a pair under its wallet and the network of its host; a call holds the
\* pair of its wallet and host, and the store it will write, under that key; a
\* slot and a ceremony hold the cookie of their host.  Host and network go
\* wrong only for what was under way when the host changed (stray).
TokenShape(p) == Shaped(p, {"no", "of", "at", "stray"})

PairKept(p, k) ==
    \/ p = NoToken
    \/ TokenShape(p) /\ p.of = k[2] /\ p.at \in Hosts /\ (p.stray \/ NetOf(p.at) = k[1])

StoreKept(T) ==
    /\ T = [k \in Nets \X ApiWallets |-> T[k]]
    /\ \A k \in Nets \X ApiWallets : PairKept(T[k], k)

CallFields == {"at", "op", "of", "token", "base", "again", "stray"}
CallShape(r) == Shaped(r, CallFields)

HoldsToken(r) ==
    /\ TokenShape(r.token) /\ r.token.of = r.of /\ r.token.at \in Hosts
    /\ r.stray \/ r.token.at = host \/ (r.token.stray /\ r.at \in {"send", "refresh"})

HoldsStore(r) ==
    /\ StoreKept(r.base.of)
    /\ r.base.key \in Nets \X ApiWallets /\ r.base.key[2] = r.of
    /\ r.stray \/ r.base.key = TokenKey(host, r.of)

CallKept(r) ==
    /\ CallShape(r)
    /\ r.at # "idle" => r.of \in ApiWallets
    /\ r.at \in {"send", "refresh", "store", "write"} => HoldsToken(r)
    /\ r.at \in {"write", "erase"} => HoldsStore(r)

RiteFields == {"at", "kind", "host", "sid", "stray"}
RiteShape(r) == Shaped(r, RiteFields)

RiteKept(r) ==
    /\ RiteShape(r)
    /\ r.at = "begun" => r.stray \/ r.sid = host
    /\ r.at = "finishing" => r.stray \/ r.sid \in {r.host, "none"}

ApiKept ==
    /\ host \in Hosts
    /\ StoreKept(tokens)
    /\ call = [c \in ApiCalls |-> call[c]] /\ \A c \in ApiCalls : CallKept(call[c])
    /\ slot.stray \/ slot.sid = slot.base
    /\ rite = [k \in Ceremonies |-> rite[k]] /\ \A k \in Ceremonies : RiteKept(rite[k])

\* A call that moves on, and may have written the store.
LEMMA TokensWritten ==
    ASSUME ApiKept, StoreKept(tokens'), NEW c \in ApiCalls, NEW r, Call(c, r), CallKept(r),
           UNCHANGED <<host, riteVars>>
    PROVE  ApiKept'
<1>1. call' = [call EXCEPT ![c] = r]
  BY DEF Call
<1>2. call' = [d \in ApiCalls |-> call'[d]] /\ \A d \in ApiCalls : call'[d] = r \/ call'[d] = call[d]
  BY <1>1 DEF ApiKept
<1>3. ASSUME NEW s, CallKept(s) PROVE CallKept(s)'
  BY <1>3 DEF CallKept, HoldsToken, HoldsStore
<1>4. \A d \in ApiCalls : CallKept(call[d])
  BY DEF ApiKept
<1>5. \A d \in ApiCalls : CallKept(call[d])'
  BY <1>2, <1>3, <1>4
<1>6. \A k \in Ceremonies : RiteKept(rite[k])'
  BY DEF ApiKept, RiteKept, riteVars
<1>. QED
  BY <1>2, <1>5, <1>6 DEF ApiKept, riteVars

LEMMA CallMovesOn ==
    ASSUME ApiKept, NEW c \in ApiCalls, NEW r, Call(c, r), CallKept(r),
           UNCHANGED <<host, tokens, riteVars>>
    PROVE  ApiKept'
BY TokensWritten DEF ApiKept

LEMMA IdleKept == CallKept(IdleCall)
BY DEF CallKept, CallShape, Shaped, CallFields, IdleCall

LEMMA CallOverKeeps ==
    ASSUME ApiKept, NEW c \in ApiCalls, CallOver(c), UNCHANGED <<host, tokens, riteVars>>
    PROVE  ApiKept'
BY IdleKept, CallMovesOn DEF CallOver

\* A call that holds nothing any more.
LEMMA EmptyHanded ==
    ASSUME NEW r, CallShape(r), r.of \in ApiWallets,
           r.at \notin {"send", "refresh", "store", "write", "erase"}
    PROVE  CallKept(r)
BY DEF CallKept

LEMMA CallFailsKeeps ==
    ASSUME ApiKept, NEW c \in ApiCalls, call[c].at # "idle", CallFails(c) \/ RefreshFails(c),
           UNCHANGED <<host, tokens, riteVars>>
    PROVE  ApiKept'
<1>. DEFINE r == [call[c] EXCEPT !.at = "challenge", !.token = NoToken, !.base = <<>>]
            s == [call[c] EXCEPT !.at = "clear"]
<1>1. CallShape(call[c]) /\ call[c].of \in ApiWallets
  BY DEF ApiKept, CallKept
<1>2. CallShape(r) /\ r.of = call[c].of /\ r.at = "challenge"
  BY <1>1 DEF CallShape, Shaped, CallFields
<1>3. CallShape(s) /\ s.of = call[c].of /\ s.at = "clear"
  BY <1>1 DEF CallShape, Shaped, CallFields
<1>4. Call(c, r) \/ Call(c, s) \/ CallOver(c)
  BY DEF CallFails, RefreshFails
<1>. HIDE DEF r, s
<1>. QED
  BY <1>1, <1>2, <1>3, <1>4, EmptyHanded, CallMovesOn, CallOverKeeps

\* The pair filed under the key of a wallet and host is of that wallet, and of
\* that host unless it was stored late.
LEMMA FiledPair ==
    ASSUME ApiKept, NEW w \in ApiWallets, NEW p, p = tokens[TokenKey(host, w)], p # NoToken
    PROVE  TokenShape(p) /\ p.of = w /\ p.at \in Hosts /\ (p.stray \/ p.at = host)
<1>1. TokenKey(host, w) \in Nets \X ApiWallets
  BY DEF TokenKey, NetOf, Nets
<1>2. PairKept(p, TokenKey(host, w))
  BY <1>1 DEF ApiKept, StoreKept
<1>. QED
  BY <1>2 DEF ApiKept, PairKept, TokenKey, NetOf, Hosts

LEMMA MintedPair ==
    ASSUME NEW w, ApiKept
    PROVE  LET p == Minted(host, w)
           IN  TokenShape(p) /\ p.of = w /\ p.at = host /\ p.at \in Hosts
BY DEF Minted, NoToken, TokenShape, Shaped, ApiKept

LEMMA ResolveKeeps ==
    ASSUME ApiKept, NEW c \in ApiCalls, ResolveAccessToken(c)
    PROVE  ApiKept'
<1>. DEFINE pair == tokens[TokenKey(host, call[c].of)]
            r == [call[c] EXCEPT !.at = "send", !.token = pair]
            s == [call[c] EXCEPT !.at = "refresh", !.token = pair]
<1>1. CallShape(call[c]) /\ call[c].of \in ApiWallets /\ call[c].at = "resolve"
  BY DEF ResolveAccessToken, ApiKept, CallKept
<1>2. UNCHANGED <<host, tokens, riteVars>>
  BY DEF ResolveAccessToken, TokensKept
<1>3. CallFails(c) \/ CallOver(c) \/ (pair # NoToken /\ (Call(c, r) \/ Call(c, s)))
  BY DEF ResolveAccessToken
<1>4. pair # NoToken => TokenShape(pair) /\ pair.of = call[c].of /\ pair.at \in Hosts
                        /\ (pair.stray \/ pair.at = host)
  BY <1>1, FiledPair
<1>. HIDE DEF pair
<1>5. CallShape(r) /\ r.of = call[c].of /\ r.at = "send" /\ r.token = pair
  BY <1>1 DEF CallShape, Shaped, CallFields
<1>6. CallShape(s) /\ s.of = call[c].of /\ s.at = "refresh" /\ s.token = pair
  BY <1>1 DEF CallShape, Shaped, CallFields
<1>. HIDE DEF r, s
<1>7. pair # NoToken => CallKept(r) /\ CallKept(s)
  BY <1>1, <1>4, <1>5, <1>6 DEF CallKept, HoldsToken
<1>. QED
  BY <1>1, <1>2, <1>3, <1>7, CallFailsKeeps, CallOverKeeps, CallMovesOn

LEMMA RefreshKeeps ==
    ASSUME ApiKept, NEW c \in ApiCalls, RefreshV1Tokens(c)
    PROVE  ApiKept'
<1>. DEFINE p == Minted(host, call[c].token.of)
            r == [call[c] EXCEPT !.at = "store", !.token = p]
<1>1. CallShape(call[c]) /\ call[c].of \in ApiWallets /\ call[c].at = "refresh"
      /\ call[c].token.of = call[c].of
  BY DEF RefreshV1Tokens, ApiKept, CallKept, HoldsToken
<1>2. UNCHANGED <<host, tokens, riteVars>>
  BY DEF RefreshV1Tokens
<1>3. RefreshFails(c) \/ Call(c, r)
  BY DEF RefreshV1Tokens
<1>4. TokenShape(p) /\ p.of = call[c].of /\ p.at = host /\ p.at \in Hosts
  BY <1>1, MintedPair
<1>. HIDE DEF p
<1>5. CallShape(r) /\ r.of = call[c].of /\ r.at = "store" /\ r.token = p
  BY <1>1 DEF CallShape, Shaped, CallFields
<1>. HIDE DEF r
<1>6. CallKept(r)
  BY <1>1, <1>4, <1>5 DEF CallKept, HoldsToken
<1>. QED
  BY <1>1, <1>2, <1>3, <1>6, CallFailsKeeps, CallMovesOn

LEMMA ReadTokensKeeps ==
    ASSUME ApiKept, NEW c \in ApiCalls, ReadTokens(c)
    PROVE  ApiKept'
<1>. DEFINE next == IF call[c].at = "store" THEN "write" ELSE "erase"
            base0 == [of |-> tokens, key |-> TokenKey(host, call[c].of)]
            r == [call[c] EXCEPT !.at = next, !.base = base0]
<1>1. CallKept(call[c]) /\ CallShape(call[c]) /\ call[c].of \in ApiWallets
      /\ call[c].at \in {"store", "clear"}
  BY DEF ReadTokens, ApiKept, CallKept
<1>2. UNCHANGED <<host, tokens, riteVars>> /\ Call(c, r)
  BY DEF ReadTokens, TokensKept
<1>3. base0.of = tokens /\ base0.key = TokenKey(host, call[c].of)
  OBVIOUS
<1>4. next \in {"write", "erase"} /\ (next = "write" => call[c].at = "store")
  BY <1>1
<1>. HIDE DEF base0, next
<1>5. CallShape(r) /\ r.of = call[c].of /\ r.at = next /\ r.token = call[c].token
      /\ r.base = base0 /\ r.stray = call[c].stray
  BY <1>1 DEF CallShape, Shaped, CallFields
<1>. HIDE DEF r
<1>6. r.at = "write" => HoldsToken(r)
  BY <1>1, <1>4, <1>5 DEF CallKept, HoldsToken
<1>7. HoldsStore(r)
  <2>1. TokenKey(host, call[c].of) \in Nets \X ApiWallets
        /\ TokenKey(host, call[c].of)[2] = call[c].of
    BY <1>1 DEF TokenKey, NetOf, Nets
  <2>. QED
    BY <1>3, <1>5, <2>1 DEF HoldsStore, ApiKept
<1>8. CallKept(r)
  BY <1>1, <1>4, <1>5, <1>6, <1>7 DEF CallKept
<1>. QED
  BY <1>2, <1>8, CallMovesOn

\* A store written back: what it held was filed right, and so is the new pair.
LEMMA StoredKeeps ==
    ASSUME NEW T, StoreKept(T), NEW k \in Nets \X ApiWallets, NEW p, PairKept(p, k)
    PROVE  StoreKept([T EXCEPT ![k] = p])
BY DEF StoreKept

LEMMA SetKeeps ==
    ASSUME ApiKept, NEW c \in ApiCalls, SetV1TokenPair(c)
    PROVE  ApiKept'
<1>. DEFINE k == call[c].base.key
            p == [call[c].token EXCEPT !.stray = call[c].stray]
            r == [call[c] EXCEPT !.at = "send", !.base = <<>>]
            s == [call[c] EXCEPT !.at = "resolve", !.base = <<>>, !.token = NoToken]
<1>1. CallShape(call[c]) /\ call[c].of \in ApiWallets /\ call[c].at = "write"
      /\ HoldsToken(call[c]) /\ HoldsStore(call[c])
  BY DEF SetV1TokenPair, ApiKept, CallKept
<1>2. UNCHANGED <<host, riteVars>> /\ (Call(c, r) \/ Call(c, s) \/ Call(c, IdleCall))
  BY DEF SetV1TokenPair, CallOver
<1>3. tokens' = [call[c].base.of EXCEPT ![k] = p]
  BY DEF SetV1TokenPair
<1>4. k \in Nets \X ApiWallets /\ k[2] = call[c].of
      /\ (call[c].stray \/ k = TokenKey(host, call[c].of)) /\ StoreKept(call[c].base.of)
  BY <1>1 DEF HoldsStore
<1>5. TokenShape(p) /\ p.of = call[c].token.of /\ p.at = call[c].token.at
      /\ p.stray = call[c].stray
  BY <1>1 DEF HoldsToken, TokenShape, Shaped
<1>6. CallShape(r) /\ r.of = call[c].of /\ r.at = "send" /\ r.token = call[c].token
      /\ r.stray = call[c].stray
  BY <1>1 DEF CallShape, Shaped, CallFields
<1>7. CallShape(s) /\ s.of = call[c].of /\ s.at = "resolve"
  BY <1>1 DEF CallShape, Shaped, CallFields
<1>. HIDE DEF k, p, r, s
<1>8. PairKept(p, k)
  BY <1>1, <1>4, <1>5 DEF PairKept, HoldsToken, TokenKey
<1>9. StoreKept(tokens')
  BY <1>3, <1>4, <1>8, StoredKeeps
<1>10. CallKept(r) /\ CallKept(s) /\ CallKept(IdleCall)
  BY <1>1, <1>6, <1>7, IdleKept, EmptyHanded DEF CallKept, HoldsToken
<1>. QED
  BY <1>2, <1>9, <1>10, TokensWritten

LEMMA ClearKeeps ==
    ASSUME ApiKept, NEW c \in ApiCalls, ClearV1TokenPair(c)
    PROVE  ApiKept'
<1>1. HoldsStore(call[c])
  BY DEF ClearV1TokenPair, ApiKept, CallKept
<1>2. StoreKept(tokens')
  BY <1>1, StoredKeeps DEF ClearV1TokenPair, HoldsStore, PairKept
<1>. QED
  BY <1>2, IdleKept, TokensWritten DEF ClearV1TokenPair, CallOver

LEMMA FetchKeeps ==
    ASSUME ApiKept, NEW c \in ApiCalls, V1Fetch(c)
    PROVE  ApiKept'
<1>. DEFINE r == [call[c] EXCEPT !.at = "retry"]
            s == [call[c] EXCEPT !.at = "clear"]
<1>1. CallShape(call[c]) /\ call[c].of \in ApiWallets
  BY DEF V1Fetch, ApiKept, CallKept
<1>2. UNCHANGED <<host, tokens, riteVars>> /\ (Call(c, r) \/ Call(c, s) \/ CallOver(c))
  BY DEF V1Fetch, TokensKept
<1>3. CallShape(r) /\ r.of = call[c].of /\ r.at = "retry"
  BY <1>1 DEF CallShape, Shaped, CallFields
<1>4. CallShape(s) /\ s.of = call[c].of /\ s.at = "clear"
  BY <1>1 DEF CallShape, Shaped, CallFields
<1>. HIDE DEF r, s
<1>. QED
  BY <1>1, <1>2, <1>3, <1>4, EmptyHanded, CallMovesOn, CallOverKeeps

LEMMA RetryKeeps ==
    ASSUME ApiKept, NEW c \in ApiCalls, RetryV1FetchAfter401(c)
    PROVE  ApiKept'
<1>. DEFINE pair == tokens[TokenKey(host, call[c].of)]
            next == IF pair = NoToken THEN "clear" ELSE "refresh"
            r == [call[c] EXCEPT !.at = next, !.token = pair, !.again = TRUE]
<1>1. CallShape(call[c]) /\ call[c].of \in ApiWallets
  BY DEF RetryV1FetchAfter401, ApiKept, CallKept
<1>2. UNCHANGED <<host, tokens, riteVars>> /\ Call(c, r)
  BY DEF RetryV1FetchAfter401, TokensKept
<1>3. pair # NoToken => TokenShape(pair) /\ pair.of = call[c].of /\ pair.at \in Hosts
                        /\ (pair.stray \/ pair.at = host)
  BY <1>1, FiledPair
<1>4. next \in {"clear", "refresh"} /\ (next = "refresh" => pair # NoToken)
  OBVIOUS
<1>. HIDE DEF pair, next
<1>5. CallShape(r) /\ r.of = call[c].of /\ r.at = next /\ r.token = pair
  BY <1>1 DEF CallShape, Shaped, CallFields
<1>. HIDE DEF r
<1>6. CallKept(r)
  BY <1>1, <1>3, <1>4, <1>5 DEF CallKept, HoldsToken
<1>. QED
  BY <1>2, <1>6, CallMovesOn

LEMMA SignInKeeps ==
    ASSUME ApiKept, NEW c \in ApiCalls, RequestChallenge(c) \/ CompleteWalletSignIn(c)
    PROVE  ApiKept'
<1>. DEFINE r == [call[c] EXCEPT !.at = "prompt", !.again = TRUE, !.base = host]
            p == Minted(host, call[c].of)
            s == [call[c] EXCEPT !.at = "store", !.token = p]
<1>1. CallShape(call[c]) /\ call[c].of \in ApiWallets
  BY DEF RequestChallenge, CompleteWalletSignIn, ApiKept, CallKept
<1>2. UNCHANGED <<host, tokens, riteVars>> /\ (Call(c, r) \/ Call(c, s) \/ CallOver(c))
  BY DEF RequestChallenge, CompleteWalletSignIn, TokensKept
<1>3. TokenShape(p) /\ p.of = call[c].of /\ p.at = host /\ p.at \in Hosts
  BY <1>1, MintedPair
<1>. HIDE DEF p
<1>4. CallShape(r) /\ r.of = call[c].of /\ r.at = "prompt"
  BY <1>1 DEF CallShape, Shaped, CallFields
<1>5. CallShape(s) /\ s.of = call[c].of /\ s.at = "store" /\ s.token = p
  BY <1>1 DEF CallShape, Shaped, CallFields
<1>. HIDE DEF r, s
<1>6. CallKept(r) /\ CallKept(s)
  BY <1>1, <1>3, <1>4, <1>5, EmptyHanded DEF CallKept, HoldsToken
<1>. QED
  BY <1>1, <1>2, <1>6, CallMovesOn, CallOverKeeps

LEMMA StartCallKeeps ==
    ASSUME ApiKept, NEW c \in ApiCalls, NEW op, NEW w \in ApiWallets, StartCall(c, op, w)
    PROVE  ApiKept'
<1>. DEFINE r == [IdleCall EXCEPT !.at = "resolve", !.op = op, !.of = w]
<1>1. UNCHANGED <<host, tokens, riteVars>> /\ Call(c, r)
  BY DEF StartCall
<1>2. CallShape(r) /\ r.of = w /\ r.at = "resolve"
  BY DEF CallShape, Shaped, CallFields, IdleCall
<1>. HIDE DEF r
<1>. QED
  BY <1>1, <1>2, EmptyHanded, CallMovesOn

\* What was under way when the host changes is stray; the stores stay as they
\* were filed.
LEMMA SwitchKeeps == ASSUME ApiKept, SwitchHost PROVE ApiKept'
<1>1. host' \in Hosts
  BY DEF SwitchHost, Other, Hosts
<1>2. UNCHANGED <<tokens, slot>>
  BY DEF SwitchHost
<1>3. ASSUME NEW c \in ApiCalls PROVE CallKept(call[c])'
  <2>. DEFINE r == [call[c] EXCEPT !.stray = TRUE]
  <2>1. CallKept(call[c]) /\ call'[c] = IF call[c].at = "idle" THEN call[c] ELSE r
    BY DEF SwitchHost, ApiKept
  <2>2. CallShape(r) /\ r.of = call[c].of /\ r.at = call[c].at /\ r.token = call[c].token
        /\ r.base = call[c].base /\ r.stray
    BY <2>1 DEF CallKept, CallShape, Shaped, CallFields
  <2>. HIDE DEF r
  <2>3. CASE call[c].at = "idle"
    BY <2>1, <2>3 DEF CallKept
  <2>4. CASE call[c].at # "idle"
    BY <2>1, <2>2, <2>4 DEF CallKept, HoldsToken, HoldsStore
  <2>. QED
    BY <2>3, <2>4
<1>4. ASSUME NEW k \in Ceremonies PROVE RiteKept(rite[k])'
  <2>. DEFINE r == [rite[k] EXCEPT !.stray = TRUE]
  <2>1. RiteKept(rite[k]) /\ rite'[k] = IF rite[k].at = "begun" THEN r ELSE rite[k]
    BY DEF SwitchHost, ApiKept
  <2>2. RiteShape(r) /\ r.at = rite[k].at /\ r.stray
    BY <2>1 DEF RiteKept, RiteShape, Shaped, RiteFields
  <2>. HIDE DEF r
  <2>3. CASE rite[k].at = "begun"
    BY <2>1, <2>2, <2>3 DEF RiteKept
  <2>4. CASE rite[k].at # "begun"
    BY <2>1, <2>4 DEF RiteKept
  <2>. QED
    BY <2>3, <2>4
<1>5. call' = [c \in ApiCalls |-> call'[c]] /\ rite' = [k \in Ceremonies |-> rite'[k]]
  BY DEF SwitchHost
<1>. QED
  BY <1>1, <1>2, <1>3, <1>4, <1>5 DEF ApiKept

\* A ceremony that moves on.
LEMMA RiteMovesOn ==
    ASSUME ApiKept, NEW k \in Ceremonies, NEW r, Rite(k, r), RiteKept(r),
           slot'.stray \/ slot'.sid = slot'.base, UNCHANGED <<host, tokenVars>>
    PROVE  ApiKept'
<1>1. rite' = [rite EXCEPT ![k] = r]
  BY DEF Rite
<1>2. rite' = [j \in Ceremonies |-> rite'[j]] /\ \A j \in Ceremonies : rite'[j] = r \/ rite'[j] = rite[j]
  BY <1>1 DEF ApiKept
<1>3. \A j \in Ceremonies : RiteKept(rite[j])
  BY DEF ApiKept
<1>4. ASSUME NEW s, RiteKept(s) PROVE RiteKept(s)'
  BY <1>4 DEF RiteKept
<1>5. \A j \in Ceremonies : RiteKept(rite[j])'
  BY <1>2, <1>3, <1>4
<1>6. ASSUME NEW s, CallKept(s) PROVE CallKept(s)'
  BY <1>6 DEF CallKept, HoldsToken, HoldsStore
<1>7. \A c \in ApiCalls : CallKept(call[c])'
  BY <1>6 DEF ApiKept, tokenVars
<1>. QED
  BY <1>2, <1>5, <1>7 DEF ApiKept, tokenVars

LEMMA IdleRiteKept == RiteKept(IdleRite) /\ NoSlot.sid = NoSlot.base
BY DEF RiteKept, RiteShape, Shaped, RiteFields, IdleRite, NoSlot

LEMMA BeginKeeps ==
    ASSUME ApiKept, NEW k \in Ceremonies, NEW kind, PasskeyBegin(k, kind)
    PROVE  ApiKept'
<1>. DEFINE r == [IdleRite EXCEPT !.at = "begun", !.kind = kind, !.host = host, !.sid = host]
<1>1. Rite(k, r) /\ UNCHANGED <<host, tokenVars, slot>>
  BY DEF PasskeyBegin, RitesOnly
<1>2. RiteShape(r) /\ r.at = "begun" /\ r.sid = host
  BY DEF RiteShape, Shaped, RiteFields, IdleRite
<1>. HIDE DEF r
<1>. QED
  BY <1>1, <1>2, RiteMovesOn DEF RiteKept, ApiKept

LEMMA PersistKeeps ==
    ASSUME ApiKept, NEW k \in Ceremonies, PersistCeremony(k)
    PROVE  ApiKept'
<1>. DEFINE r == [rite[k] EXCEPT !.at = "prompt"]
<1>1. Rite(k, r) /\ UNCHANGED <<host, tokenVars>> /\ RiteKept(rite[k]) /\ rite[k].at = "begun"
  BY DEF PersistCeremony, RitesOnly, ApiKept
<1>2. RiteShape(r) /\ r.at = "prompt"
  BY <1>1 DEF RiteKept, RiteShape, Shaped, RiteFields
<1>. HIDE DEF r
<1>3. slot'.sid = rite[k].sid /\ slot'.base = host /\ slot'.stray = rite[k].stray
  BY DEF PersistCeremony
<1>. QED
  BY <1>1, <1>2, <1>3, RiteMovesOn DEF RiteKept

LEMMA FinishKeeps ==
    ASSUME ApiKept, NEW k \in Ceremonies, PasskeyFinish(k)
    PROVE  ApiKept'
<1>. DEFINE usable == SessionUsable(rite[k].kind)
            cookieSid == IF usable THEN slot.sid ELSE IF host \in cookie THEN host ELSE "none"
            r == [rite[k] EXCEPT !.at = "finishing", !.host = host, !.sid = cookieSid,
                                 !.stray = @ \/ (usable /\ slot.stray)]
<1>1. Rite(k, r) /\ UNCHANGED <<host, tokenVars, slot>> /\ RiteKept(rite[k])
  BY DEF PasskeyFinish, RitesOnly, ApiKept
<1>2. usable /\ ~slot.stray => slot.sid = host
  BY DEF ApiKept, SessionUsable
<1>3. cookieSid \in {host, "none"} \/ (usable /\ slot.stray)
  BY <1>2
<1>. HIDE DEF usable, cookieSid
<1>4. RiteShape(r) /\ r.at = "finishing" /\ r.host = host /\ r.sid = cookieSid
      /\ (usable /\ slot.stray => r.stray)
  BY <1>1 DEF RiteKept, RiteShape, Shaped, RiteFields
<1>. HIDE DEF r
<1>5. RiteKept(r)
  BY <1>3, <1>4 DEF RiteKept
<1>. QED
  BY <1>1, <1>5, RiteMovesOn DEF ApiKept

LEMMA ApiStarts == ApiInit => ApiKept
<1>. SUFFICES ASSUME ApiInit PROVE ApiKept
  OBVIOUS
<1>1. StoreKept(tokens)
  BY DEF ApiInit, StoreKept, PairKept
<1>. QED
  BY <1>1, IdleKept, IdleRiteKept DEF ApiInit, ApiKept, Hosts

LEMMA ApiKeeps == ApiKept /\ [TokensNext \/ RitesNext]_apiVars => ApiKept'
<1>. SUFFICES ASSUME ApiKept, [TokensNext \/ RitesNext]_apiVars PROVE ApiKept'
  OBVIOUS
<1>1. ASSUME NEW c \in ApiCalls, CallStep(c) PROVE ApiKept'
  BY <1>1, ResolveKeeps, RefreshKeeps, ReadTokensKeeps, SetKeeps, ClearKeeps, FetchKeeps,
     RetryKeeps, SignInKeeps DEF CallStep
<1>2. ASSUME NEW c \in ApiCalls, NEW w \in ApiWallets, NEW op, StartCall(c, op, w) PROVE ApiKept'
  BY <1>2, StartCallKeeps
<1>3. ASSUME UNCHANGED <<host, tokens, call, riteVars>> PROVE ApiKept'
  BY <1>3 DEF ApiKept, CallKept, HoldsToken, HoldsStore, RiteKept, riteVars
<1>4. ASSUME NEW n, TokenExpires(n) PROVE ApiKept'
  BY <1>3, <1>4 DEF TokenExpires
<1>5. CASE SwitchHost
  BY <1>5, SwitchKeeps
<1>6. ASSUME NEW k \in Ceremonies, NEW kind, PasskeyBegin(k, kind) PROVE ApiKept'
  BY <1>6, BeginKeeps
<1>7. ASSUME NEW k \in Ceremonies, PersistCeremony(k) \/ PasskeyFinish(k) PROVE ApiKept'
  BY <1>7, PersistKeeps, FinishKeeps
<1>8. ASSUME NEW k \in Ceremonies, FinishEnds(k) \/ PromptRefused(k) PROVE ApiKept'
  <2>1. Rite(k, IdleRite) /\ UNCHANGED <<host, tokenVars>> /\ slot' \in {slot, NoSlot}
    BY <1>8 DEF FinishEnds, PromptRefused, RitesOnly
  <2>. QED
    BY <2>1, IdleRiteKept, RiteMovesOn DEF ApiKept
<1>9. CASE ClearCeremonySlot \/ ClearLatchApiSession
  <2>1. UNCHANGED <<host, tokenVars, rite>> /\ slot' = NoSlot
    BY <1>9 DEF ClearCeremonySlot, ClearLatchApiSession, RitesOnly
  <2>. QED
    BY <2>1, IdleRiteKept DEF ApiKept, CallKept, HoldsToken, HoldsStore, RiteKept, tokenVars
<1>10. CASE UNCHANGED apiVars
  BY <1>3, <1>10 DEF apiVars, tokenVars
<1>. QED
  BY <1>1, <1>2, <1>4, <1>5, <1>6, <1>7, <1>8, <1>9, <1>10 DEF TokensNext, RitesNext

\* A bearer token goes out for the wallet and to the host it was issued for, a
\* ceremony ends with the cookie of its host.
THEOREM CredentialsKept == ServicesSpec => []CredentialsKeepTheirHost
<1>1. ServicesInit => ApiKept
  BY ApiStarts DEF ServicesInit
<1>2. ApiKept /\ [ServicesNext]_vars => ApiKept'
  BY ApiOnly, ApiKeeps
<1>3. ApiKept => CredentialsKeepTheirHost
  BY DEF ApiKept, CallKept, HoldsToken, RiteKept, CredentialsKeepTheirHost
<1>. QED
  BY <1>1, <1>2, <1>3, PTL DEF ServicesSpec

-----------------------------------------------------------------------------
\* What a transaction of the next sequence number leaves behind: its amount and
\* the fee its sweep kept back are there above the floor.
Affords(asset, amount, seq) ==
    /\ amount \in Int /\ seq \in Int
    /\ seq <= classic.seq + 1
    /\ seq = classic.seq + 1 =>
         IF asset = Xlm THEN amount + SweepFee + LingerXlm <= classic.xlm
                        ELSE SweepFee + LingerXlm <= classic.xlm

SweepShape(r) == Shaped(r, {"at", "asset", "amount", "seq"})

\* The inductive invariant of the sweeps: only the transactions of the next
\* sequence number can land, and each of them was decided on the balance the
\* account still has, or on less.
MigrationKept ==
    /\ Shaped(classic, {"xlm", "coins", "seq"}) /\ classic.xlm \in Int /\ classic.seq \in Int
    /\ DOMAIN sweep = Screens /\ sweep = [s \in Screens |-> sweep[s]]
    /\ \A s \in Screens :
         /\ SweepShape(sweep[s])
         /\ sweep[s].at = "built" => Affords(sweep[s].asset, sweep[s].amount, sweep[s].seq)
    /\ \A tx \in mempool : Affords(tx[2], tx[3], tx[4])

LEMMA MigrationStarts == MigrationInit => MigrationKept
BY DEF MigrationInit, MigrationKept, SweepShape, Shaped, NoSweep, MigrationAssumption, Affords

\* A sweep that is built can pay: what it moves, its fee and the floor.
LEMMA AmountAfforded ==
  ASSUME MigrationKept, NEW s \in Screens, AmountOf(s) > 0
  PROVE  Affords(sweep[s].asset, AmountOf(s), classic.seq + 1)
<1>. DEFINE later == Cardinality(screen[s].left \cap Coins)
<1>1. later \in Nat
  BY MigrationAssumption, FS_Intersection, FS_CardinalityType
<1>2. SweepFee * later \in Nat /\ SweepFee \in Nat /\ LingerXlm \in Nat
  BY <1>1, MigrationAssumption
<1>3. classic.xlm \in Int /\ classic.seq \in Int
  BY DEF MigrationKept
<1>. HIDE DEF later
<1>4. CASE sweep[s].asset = Xlm
  <2>1. AmountOf(s) = Transferable(classic.xlm, later)
    BY <1>4 DEF AmountOf, later
  <2>. DEFINE kept == SweepFee * later
  <2>2. kept \in Nat BY <1>2
  <2>3. AmountOf(s) = IF classic.xlm > SweepFee + LingerXlm + kept
                      THEN classic.xlm - SweepFee - LingerXlm - kept ELSE 0
    BY <2>1 DEF Transferable
  <2>. HIDE DEF kept
  <2> QED BY <1>4, <2>2, <2>3, <1>2, <1>3 DEF Affords
<1>5. CASE sweep[s].asset # Xlm
  <2>1. AmountOf(s) = 1 /\ classic.xlm >= LingerXlm + SweepFee
    BY <1>5 DEF AmountOf
  <2> QED BY <1>5, <2>1, <1>2, <1>3 DEF Affords
<1> QED BY <1>4, <1>5

\* The ledger stands still, and so does what each transaction may do to it.
LEMMA LedgerStill ==
  ASSUME classic' = classic, NEW a, NEW m, NEW n, Affords(a, m, n) PROVE Affords(a, m, n)'
BY DEF Affords

LEMMA MigrationKeeps == MigrationKept /\ [MigrationNext]_migrationVars => MigrationKept'
<1>. SUFFICES ASSUME MigrationKept, [MigrationNext]_migrationVars PROVE MigrationKept'
  OBVIOUS
<1>0. ASSUME UNCHANGED classic, mempool' \subseteq mempool,
             \/ sweep' = sweep
             \/ \E s \in Screens : \E r : /\ sweep' = [sweep EXCEPT ![s] = r]
                                      /\ SweepShape(r) /\ r.at # "built"
      PROVE  MigrationKept'
  BY <1>0, LedgerStill DEF MigrationKept
<1>1. ASSUME NEW s \in Screens, Discover(s) PROVE MigrationKept'
  BY <1>1, <1>0 DEF Discover
<1>2. ASSUME NEW s \in Screens, Discovered(s) PROVE MigrationKept'
  BY <1>2, <1>0 DEF Discovered
<1>3. ASSUME NEW s \in Screens, DiscoverUnreachable(s) PROVE MigrationKept'
  BY <1>3, <1>0 DEF DiscoverUnreachable
<1>4. ASSUME NEW s \in Screens, MigrateNext(s) PROVE MigrationKept'
  <2>1. PICK a : sweep' = [sweep EXCEPT ![s] = [NoSweep EXCEPT !.at = "asked", !.asset = a]]
    BY <1>4 DEF MigrateNext
  <2>2. SweepShape([NoSweep EXCEPT !.at = "asked", !.asset = a])
        /\ [NoSweep EXCEPT !.at = "asked", !.asset = a].at # "built"
    BY DEF SweepShape, Shaped, NoSweep
  <2> QED BY <1>4, <2>1, <2>2, <1>0 DEF MigrateNext
<1>5. ASSUME NEW s \in Screens, MigrateDone(s) PROVE MigrationKept'
  BY <1>5, <1>0 DEF MigrateDone
<1>6. ASSUME NEW s \in Screens, MigrateAgain(s) PROVE MigrationKept'
  BY <1>6, <1>0 DEF MigrateAgain
<1>7. ASSUME NEW s \in Screens, Reopen(s) PROVE MigrationKept'
  BY <1>7, <1>0 DEF Reopen
<1>8. SweepShape(NoSweep) /\ NoSweep.at # "built"
  BY DEF SweepShape, Shaped, NoSweep
<1>9. ASSUME NEW s \in Screens, \/ SimulationFails(s) \/ SweepLocked(s) \/ SweepRefused(s)
                                \/ SendRefused(s) \/ SweepFails(s) \/ SweepConfirmed(s)
      PROVE  MigrationKept'
  <2>1. sweep' = [sweep EXCEPT ![s] = NoSweep] /\ UNCHANGED <<classic, mempool>>
    BY <1>9 DEF SimulationFails, SweepLocked, SweepRefused, SendRefused, SweepFails,
                SweepConfirmed, StopRun
  <2> QED BY <2>1, <1>8, <1>0
<1>10. ASSUME NEW s \in Screens, SweepRead(s) PROVE MigrationKept'
  <2>. DEFINE becomes == [sweep[s] EXCEPT !.at = "built", !.amount = AmountOf(s),
                                       !.seq = classic.seq + 1]
  <2>1. /\ SweepShape(becomes) /\ becomes.asset = sweep[s].asset
        /\ becomes.amount = AmountOf(s) /\ becomes.seq = classic.seq + 1
    BY DEF MigrationKept, SweepShape, Shaped
  <2>2. Affords(becomes.asset, becomes.amount, becomes.seq)
    BY <2>1, <1>10, AmountAfforded DEF SweepRead
  <2>3. sweep' = [sweep EXCEPT ![s] = becomes] /\ UNCHANGED <<classic, mempool>>
    BY <1>10 DEF SweepRead
  <2>. HIDE DEF becomes
  <2> QED BY <2>1, <2>2, <2>3, LedgerStill DEF MigrationKept
<1>11. ASSUME NEW s \in Screens, SweepSend(s) PROVE MigrationKept'
  <2>. DEFINE becomes == [sweep[s] EXCEPT !.at = "polling"]
             tx == <<s, sweep[s].asset, sweep[s].amount, sweep[s].seq>>
  <2>1. SweepShape(becomes) /\ becomes.at # "built"
    BY DEF MigrationKept, SweepShape, Shaped
  <2>2. Affords(tx[2], tx[3], tx[4])
    BY <1>11 DEF SweepSend, MigrationKept
  <2>3. sweep' = [sweep EXCEPT ![s] = becomes] /\ mempool' = mempool \cup {tx} /\ UNCHANGED classic
    BY <1>11 DEF SweepSend
  <2>. HIDE DEF becomes, tx
  <2> QED BY <2>1, <2>2, <2>3, LedgerStill DEF MigrationKept
<1>12. ASSUME NEW tx \in mempool, LedgerApplies(tx) PROVE MigrationKept'
  <2>1. /\ Shaped(classic, {"xlm", "coins", "seq"})'
        /\ classic'.xlm \in Int /\ classic'.seq = classic.seq + 1
        /\ classic.seq \in Int
    <3>1. PICK charge \in 0 .. SweepFee + ResourceFee :
            classic' = [xlm |-> IF tx[2] = Xlm THEN classic.xlm - charge - tx[3]
                                               ELSE classic.xlm - charge,
                        coins |-> classic.coins \ {tx[2]}, seq |-> tx[4]]
      BY <1>12 DEF LedgerApplies
    <3>2. charge \in Int
      BY <3>1, MigrationAssumption
    <3>3. tx[3] \in Int /\ tx[4] = classic.seq + 1 /\ classic.xlm \in Int /\ classic.seq \in Int
      BY <1>12 DEF LedgerApplies, MigrationKept, Affords
    <3> QED BY <3>1, <3>2, <3>3 DEF Shaped
  <2>2. ASSUME NEW a, NEW m, NEW n, Affords(a, m, n) PROVE Affords(a, m, n)'
    BY <2>1, <2>2 DEF Affords
  <2>. DEFINE t == tx[1]
             becomes == [sweep[t] EXCEPT !.at = "applied"]
  <2>3. sweep' = sweep \/ t \notin Screens \/ sweep' = [sweep EXCEPT ![t] = becomes]
    BY <1>12 DEF LedgerApplies
  <2>4. t \in Screens => SweepShape(becomes) /\ becomes.at # "built"
    BY DEF MigrationKept, SweepShape, Shaped
  <2>5. mempool' \subseteq mempool
    BY <1>12 DEF LedgerApplies
  <2>. HIDE DEF becomes
  <2>6. t \notin Screens => sweep' = sweep
    BY <1>12 DEF LedgerApplies, MigrationKept
  <2> QED BY <2>1, <2>2, <2>3, <2>4, <2>5, <2>6 DEF MigrationKept
<1>13. ASSUME NEW tx \in mempool, LedgerDrops(tx) PROVE MigrationKept'
  BY <1>13, <1>0 DEF LedgerDrops
<1>14. ASSUME DiscoveryExpires \/ UnlockSeed PROVE MigrationKept'
  BY <1>14, <1>0 DEF DiscoveryExpires, UnlockSeed
<1>15. ASSUME TopUp PROVE MigrationKept'
  <2>1. /\ Shaped(classic, {"xlm", "coins", "seq"})'
        /\ classic'.xlm = classic.xlm + 1 /\ classic'.seq = classic.seq
        /\ classic.xlm \in Int /\ classic.seq \in Int
    BY <1>15 DEF TopUp, MigrationKept, Shaped
  <2>2. ASSUME NEW a, NEW m, NEW n, Affords(a, m, n) PROVE Affords(a, m, n)'
    BY <2>1, <2>2, MigrationAssumption DEF Affords
  <2> QED BY <1>15, <2>1, <2>2 DEF TopUp, MigrationKept
<1>16. CASE UNCHANGED migrationVars
  BY <1>16, <1>0 DEF migrationVars
<1> QED BY <1>1, <1>2, <1>3, <1>4, <1>5, <1>6, <1>7, <1>9, <1>10, <1>11, <1>12, <1>13, <1>14,
           <1>15, <1>16 DEF MigrationNext, SweepStep

\* However many sweeps run at once and however late they land, the classic account
\* keeps its floor but for the one resource fee no sweep keeps back (sweep.ts).
THEOREM SweepsKeepTheReserve == ServicesSpec => ReserveKept
<1>1. ServicesInit => MigrationKept
  BY MigrationStarts DEF ServicesInit
<1>2. MigrationKept /\ [ServicesNext]_vars => MigrationKept'
  BY MigrationOnly, MigrationKeeps
<1>3. ASSUME MigrationKept, [MigrationNext]_migrationVars, classic.xlm >= LingerXlm
      PROVE  classic'.xlm + ResourceFee >= LingerXlm
  <2>1. classic.xlm \in Int /\ classic.seq \in Int
    BY <1>3 DEF MigrationKept
  <2>2. ResourceFee \in Nat /\ LingerXlm \in Nat /\ SweepFee \in Nat
    BY MigrationAssumption
  <2>3. CASE classic' = classic
    BY <1>3, <2>1, <2>2, <2>3
  <2>4. CASE TopUp
    <3>1. classic'.xlm = classic.xlm + 1
      BY <1>3, <2>4 DEF TopUp, MigrationKept, Shaped
    <3> QED BY <3>1, <1>3, <2>1, <2>2
  <2>5. ASSUME NEW tx \in mempool, LedgerApplies(tx)
        PROVE  classic'.xlm + ResourceFee >= LingerXlm
    <3>1. PICK charge \in 0 .. SweepFee + ResourceFee :
            classic'.xlm = IF tx[2] = Xlm THEN classic.xlm - charge - tx[3]
                                          ELSE classic.xlm - charge
      BY <2>5 DEF LedgerApplies
    <3>2. /\ tx[3] \in Int
          /\ IF tx[2] = Xlm THEN tx[3] + SweepFee + LingerXlm <= classic.xlm
                            ELSE SweepFee + LingerXlm <= classic.xlm
      BY <1>3, <2>5 DEF LedgerApplies, MigrationKept, Affords
    <3> QED BY <3>1, <3>2, <2>1, <2>2
  <2>6. classic' = classic \/ TopUp \/ \E tx \in mempool : LedgerApplies(tx)
    BY <1>3 DEF MigrationNext, SweepStep, Discover, Discovered, DiscoverUnreachable, MigrateNext,
                MigrateDone, MigrateAgain, Reopen, SimulationFails, SweepLocked, SweepRead,
                SweepRefused, SweepSend, SendRefused, SweepConfirmed, SweepFails, LedgerDrops,
                DiscoveryExpires, UnlockSeed, migrationVars
  <2> QED BY <2>3, <2>4, <2>5, <2>6
<1>4. MigrationKept /\ [ServicesNext]_vars =>
        [classic.xlm >= LingerXlm => classic'.xlm + ResourceFee >= LingerXlm]_migrationVars
  BY <1>3, MigrationOnly
<1> QED BY <1>1, <1>2, <1>4, PTL DEF ServicesSpec, ReserveKept

-----------------------------------------------------------------------------
\* A set of numbers up to n that is not empty has a greatest one.
LEMMA GreatestOf ==
  ASSUME NEW n \in Nat, NEW T \in SUBSET (1 .. n), T # {}
  PROVE  \E m \in T : \A y \in T : y <= m
<1>. DEFINE D == {n - v : v \in T}
<1>1. D \in SUBSET Nat /\ D # {}
  <2>1. \A v \in T : n - v \in Nat
    OBVIOUS
  <2>2. PICK v \in T : TRUE
    OBVIOUS
  <2>3. D \subseteq Nat
    BY <2>1
  <2>4. n - v \in D
    BY <2>2
  <2> QED BY <2>3, <2>4
<1>2. \E d \in D : \A e \in D : ~(<<e, d>> \in OpToRel(<, Nat))
  <2>. HIDE DEF D
  <2> QED BY <1>1, NatLessThanWellFounded, WFMin
<1>3. PICK m \in T : \A e \in D : ~(<<e, n - m>> \in OpToRel(<, Nat))
  BY <1>2
<1>4. \A y \in T : n - y \in D /\ n - y \in Nat /\ n - m \in Nat
  OBVIOUS
<1>5. \A y \in T : ~(n - y < n - m)
  BY <1>3, <1>4 DEF OpToRel
<1> QED BY <1>5

\* What the cap drops is older than as many rows as the cap lets stay.
LEMMA DroppedPastTheCap ==
  ASSUME NEW n \in Nat, NEW R \in SUBSET (1 .. n), NEW t \in R, t \notin Capped(R)
  PROVE  Cardinality({u \in Capped(R) : u > t}) >= MaxEntries
<1>. DEFINE Above(v) == {u \in R : u > v}
             dropped == R \ Capped(R)
             newer == {u \in Capped(R) : u > t}
<1>1. PICK v \in dropped : \A y \in dropped : y <= v
  <2>1. dropped \in SUBSET (1 .. n) /\ dropped # {}
    OBVIOUS
  <2>. HIDE DEF dropped
  <2> QED BY <2>1, GreatestOf
<1>2. IsFiniteSet(1 .. n)
  BY FS_Interval
<1>3. IsFiniteSet(newer) /\ Cardinality(newer) \in Nat
  <2>1. newer \subseteq 1 .. n
    BY DEF Capped
  <2>. HIDE DEF newer
  <2> QED BY <2>1, <1>2, FS_Subset, FS_CardinalityType
<1>4. Above(v) \subseteq newer
  <2>1. t <= v /\ t \in Int /\ v \in Int
    BY <1>1
  <2>2. ASSUME NEW u \in R, u > v PROVE u \in Capped(R) /\ u > t
    <3>1. u \in Int /\ ~(u <= v)
      BY <2>1, <2>2
    <3> QED BY <3>1, <2>1, <2>2, <1>1
  <2> QED BY <2>2
<1>5. Cardinality(Above(v)) \in Nat /\ Cardinality(Above(v)) <= Cardinality(newer)
  <2>. HIDE DEF Above, newer
  <2> QED BY <1>3, <1>4, FS_Subset, FS_CardinalityType
<1>6. ~(Cardinality(Above(v)) < MaxEntries)
  BY <1>1 DEF Capped
<1>7. MaxEntries \in Nat
  BY ActivityAssumption
<1>. HIDE DEF Above, newer
<1>8. Cardinality(newer) >= MaxEntries
  BY <1>3, <1>5, <1>6, <1>7
<1> QED BY <1>8 DEF newer

ScanShape(r) == Shaped(r, {"at", "reach", "found", "base", "on"})

\* The inductive invariant of the list: what is stored, found or read happened.
ActivityKept ==
    /\ transfers \in Nat /\ listStored \subseteq Happened
    /\ DOMAIN scan = Scans /\ scan = [s \in Scans |-> scan[s]]
    /\ \A s \in Scans : /\ ScanShape(scan[s])
                        /\ scan[s].found \subseteq Happened /\ scan[s].base \subseteq Happened

LEMMA ActivityStarts == ActivityInit => ActivityKept
BY DEF ActivityInit, ActivityKept, ScanShape, Shaped, IdleScan

\* A scan that becomes another record of rows that happened.
LEMMA ScanBecomes ==
  ASSUME ActivityKept, UNCHANGED transfers, listStored' \subseteq Happened,
         NEW f, scan' = [r \in Scans |-> f[r]],
         \A r \in Scans : \/ f[r] = scan[r]
                          \/ /\ ScanShape(f[r])
                             /\ f[r].found \subseteq Happened /\ f[r].base \subseteq Happened
  PROVE  ActivityKept'
BY DEF ActivityKept, Happened

LEMMA OneScanBecomes ==
  ASSUME ActivityKept, UNCHANGED <<transfers, listStored>>, NEW s, NEW x,
         scan' = [scan EXCEPT ![s] = x], ScanShape(x),
         x.found \subseteq Happened, x.base \subseteq Happened
  PROVE  ActivityKept'
BY DEF ActivityKept, Happened

LEMMA ScanFresh == /\ ScanShape(IdleScan) /\ IdleScan.found = {} /\ IdleScan.base = {}
BY DEF ScanShape, Shaped, IdleScan

LEMMA ActivityKeeps == ActivityKept /\ [ActivityNext]_activityVars => ActivityKept'
<1>. SUFFICES ASSUME ActivityKept, [ActivityNext]_activityVars PROVE ActivityKept'
  OBVIOUS
<1>1. ASSUME NEW s \in Scans, StartScan(s), UNCHANGED <<transfers, listStored>>
      PROVE  ActivityKept'
  <2>. DEFINE x == [IdleScan EXCEPT !.at = "scanning"]
  <2>1. ScanShape(x) /\ x.found = {} /\ x.base = {}
    BY DEF ScanShape, Shaped, IdleScan
  <2>2. scan' = [scan EXCEPT ![s] = x]
    BY <1>1 DEF StartScan
  <2>. HIDE DEF x
  <2> QED BY <1>1, <2>1, <2>2, OneScanBecomes
<1>2. ASSUME NEW s \in Scans, AskList(s) PROVE ActivityKept'
  <2>. DEFINE x == [IdleScan EXCEPT !.at = "joined", !.on = tracked]
  <2>1. ScanShape(x) /\ x.found = {} /\ x.base = {}
    BY DEF ScanShape, Shaped, IdleScan
  <2>2. \/ scan' = [scan EXCEPT ![s] = IdleScan] /\ UNCHANGED <<transfers, listStored>>
        \/ scan' = [scan EXCEPT ![s] = x] /\ UNCHANGED <<transfers, listStored>>
        \/ StartScan(s) /\ UNCHANGED <<transfers, listStored>>
    BY <1>2 DEF AskList, StartScan
  <2>. HIDE DEF x
  <2> QED BY <1>1, <2>1, <2>2, ScanFresh, OneScanBecomes
<1>3. ASSUME NEW s \in Scans, ForceList(s) PROVE ActivityKept'
  BY <1>3, <1>1 DEF ForceList, StartScan
<1>4. ASSUME NEW s \in Scans, ShrinkReach(s) PROVE ActivityKept'
  <2>1. PICK n : scan' = [scan EXCEPT ![s].reach = n]
    BY <1>4 DEF ShrinkReach
  <2>. DEFINE x == [scan[s] EXCEPT !.reach = n]
  <2>2. ScanShape(x) /\ x.found \subseteq Happened /\ x.base \subseteq Happened
    BY DEF ActivityKept, ScanShape, Shaped
  <2>3. scan' = [scan EXCEPT ![s] = x]
    BY <2>1
  <2>. HIDE DEF x
  <2> QED BY <1>4, <2>2, <2>3, OneScanBecomes DEF ShrinkReach
<1>5. ASSUME NEW s \in Scans, ScanComplete(s) PROVE ActivityKept'
  <2>. DEFINE all == HorizonOps \cup TransferEvents(scan[s].reach)
             x == [scan[s] EXCEPT !.at = "found", !.reach = EventsReach, !.found = all]
  <2>1. all \subseteq Happened
    BY DEF HorizonOps, TransferEvents, Since
  <2>. HIDE DEF all
  <2>2. ScanShape(x) /\ x.found \subseteq Happened /\ x.base \subseteq Happened
    BY <2>1 DEF ActivityKept, ScanShape, Shaped
  <2>3. scan' = [scan EXCEPT ![s] = x]
    BY <1>5 DEF ScanComplete, all
  <2>. HIDE DEF x
  <2> QED BY <1>5, <2>2, <2>3, OneScanBecomes DEF ScanComplete
<1>6. ASSUME NEW s \in Scans, ReadStored(s) PROVE ActivityKept'
  <2>. DEFINE x == [scan[s] EXCEPT !.at = "merging", !.base = listStored]
  <2>1. ScanShape(x) /\ x.found \subseteq Happened /\ x.base \subseteq Happened
    BY DEF ActivityKept, ScanShape, Shaped
  <2>2. scan' = [scan EXCEPT ![s] = x]
    BY <1>6 DEF ReadStored
  <2>. HIDE DEF x
  <2> QED BY <1>6, <2>1, <2>2, OneScanBecomes DEF ReadStored
<1>7. ASSUME NEW s \in Scans, WriteStoredList(s) PROVE ActivityKept'
  <2>. DEFINE f == [r \in Scans |-> IF r = s \/ scan[r].on = s THEN IdleScan ELSE scan[r]]
  <2>1. listStored' \subseteq Happened
    BY <1>7 DEF WriteStoredList, Merge, Capped, ActivityKept
  <2>2. scan' = f
    BY <1>7 DEF WriteStoredList
  <2>3. \A r \in Scans : f[r] = scan[r] \/ f[r] = IdleScan
    OBVIOUS
  <2>4. f = [r \in Scans |-> f[r]]
    OBVIOUS
  <2>. HIDE DEF f
  <2> QED BY <1>7, <2>1, <2>2, <2>3, <2>4, ScanFresh, ScanBecomes DEF WriteStoredList
<1>8. ASSUME NEW s \in Scans, ScanIncomplete(s) PROVE ActivityKept'
  <2>. DEFINE f == [r \in Scans |->
            IF r = s /\ (listStored # {} \/ listInMemory.some) THEN IdleScan
            ELSE IF r = s \/ scan[r].on = s THEN [IdleScan EXCEPT !.at = "failed"]
            ELSE scan[r]]
             x == [IdleScan EXCEPT !.at = "failed"]
  <2>1. ScanShape(x) /\ x.found = {} /\ x.base = {}
    BY DEF ScanShape, Shaped, IdleScan
  <2>2. scan' = f
    BY <1>8 DEF ScanIncomplete
  <2>3. \A r \in Scans : f[r] = scan[r] \/ f[r] = IdleScan \/ f[r] = x
    OBVIOUS
  <2>4. f = [r \in Scans |-> f[r]]
    OBVIOUS
  <2>. HIDE DEF f, x
  <2> QED BY <1>8, <2>1, <2>2, <2>3, <2>4, ScanFresh, ScanBecomes DEF ScanIncomplete, ActivityKept
<1>9. ASSUME ScansStop PROVE ActivityKept'
  <2>. DEFINE f == [r \in Scans |-> IF scan[r].at = "failed" THEN scan[r] ELSE IdleScan]
  <2>1. scan' = f
    BY <1>9 DEF ScansStop
  <2>2. \A r \in Scans : f[r] = scan[r] \/ f[r] = IdleScan
    OBVIOUS
  <2>3. f = [r \in Scans |-> f[r]]
    OBVIOUS
  <2>. HIDE DEF f
  <2> QED BY <1>9, <2>1, <2>2, <2>3, ScanFresh, ScanBecomes DEF ScansStop, ActivityKept
<1>10. ASSUME TransferLands PROVE ActivityKept'
  <2>1. transfers' \in Nat /\ Happened \subseteq Happened'
    BY <1>10 DEF TransferLands, ActivityKept, Happened
  <2> QED BY <1>10, <2>1 DEF TransferLands, ActivityKept
<1>11. ASSUME ClearHistory PROVE ActivityKept'
  BY <1>11 DEF ClearHistory, ActivityKept, Happened
<1>12. ASSUME ListAges \/ UNCHANGED activityVars PROVE ActivityKept'
  BY <1>12 DEF ListAges, activityVars, ActivityKept, Happened
<1> QED BY <1>2, <1>3, <1>4, <1>5, <1>6, <1>7, <1>8, <1>9, <1>10, <1>11, <1>12
        DEF ActivityNext, ScanStep

\* A transfer once stored leaves the list only past the cap, with the account, or when
\* another scan wrote between a scan's read and its write (activityHistory.ts).
THEOREM StoredHistoryKept == ServicesSpec => HistoryKept
<1>1. ServicesInit => ActivityKept
  BY ActivityStarts DEF ServicesInit
<1>2. ActivityKept /\ [ServicesNext]_vars => ActivityKept'
  BY ActivityOnly, ActivityKeeps
<1>. DEFINE PastTheCap == \A t \in listStored \ listStored' :
                            Cardinality({u \in listStored' : u > t}) >= MaxEntries
            Overtaken == \E s \in Scans : scan[s].at = "merging" /\ scan[s].base # listStored
<1>3. ASSUME ActivityKept, [ActivityNext]_activityVars
      PROVE  PastTheCap \/ Cleared \/ Overtaken
  <2>1. CASE listStored' = listStored
    BY <2>1
  <2>2. CASE ClearHistory
    BY <2>2 DEF ClearHistory, Cleared
  <2>3. ASSUME NEW s \in Scans, WriteStoredList(s), ~Overtaken PROVE PastTheCap
    <3>. DEFINE R == scan[s].found \cup scan[s].base
    <3>1. scan[s].base = listStored
      BY <2>3 DEF WriteStoredList
    <3>2. R \in SUBSET (1 .. transfers) /\ transfers \in Nat
      BY <1>3 DEF ActivityKept, Happened
    <3>3. listStored' = Capped(R)
      BY <2>3 DEF WriteStoredList, Merge
    <3>4. \A t \in listStored : t \in R
      BY <3>1
    <3>. HIDE DEF R
    <3> QED BY <3>2, <3>3, <3>4, DroppedPastTheCap
  <2>4. \/ listStored' = listStored \/ ClearHistory \/ \E s \in Scans : WriteStoredList(s)
    BY <1>3 DEF ActivityNext, ScanStep, AskList, ForceList, StartScan, ShrinkReach, ScanComplete,
                ScanIncomplete, ReadStored, TransferLands, ListAges, ScansStop, activityVars
  <2> QED BY <2>1, <2>2, <2>3, <2>4
<1>4. ActivityKept /\ [ServicesNext]_vars =>
        [PastTheCap \/ Cleared \/ Overtaken]_activityVars
  BY <1>3, ActivityOnly
<1> QED BY <1>1, <1>2, <1>4, PTL DEF ServicesSpec, HistoryKept
-----------------------------------------------------------------------------
\* Every service keeps the types of its state, given its inductive invariant.
LEMMA BridgeTyped == BridgeKept /\ BridgeTypeOK /\ [BridgeNext]_bridgeVars => BridgeTypeOK'
<1>. SUFFICES ASSUME BridgeKept, BridgeTypeOK, [BridgeNext]_bridgeVars
              PROVE  optionKeys' \subseteq Tickets /\ bridgeStops' \in 0 .. MaxBridgeRestarts
  BY BridgeKeeps DEF BridgeKept, BridgeTypeOK
<1>1. CASE BridgeStop
  BY <1>1, BridgeAssumption DEF BridgeStop, BridgeTypeOK
<1>2. CASE UNCHANGED bridgeVars
  BY <1>2 DEF bridgeVars, BridgeTypeOK
<1>3. ASSUME NEW t \in Tickets, OpenBridge(t) \/ OptionsRefused(t) \/ WindowFailed(t)
             \/ RunCeremony(t) \/ BridgeTimesOut(t) \/ CloseWindow(t) \/ OptionsStored(t)
             \/ WindowOpens(t) \/ WindowKnown(t) \/ TakeOptions(t) \/ PublishResult(t)
             \/ TellTheWorker(t) \/ \E kind \in {"storage", "message"} : ResultArrives(t, kind)
      PROVE  optionKeys' \subseteq Tickets /\ bridgeStops' \in 0 .. MaxBridgeRestarts
  BY <1>3 DEF OpenBridge, OptionsRefused, WindowFailed, RunCeremony, BridgeTimesOut, CloseWindow,
     OptionsStored, WindowOpens, WindowKnown, TakeOptions, PublishResult, TellTheWorker,
     ResultArrives, Finish, BridgeTypeOK
<1>. QED
  BY <1>1, <1>2, <1>3 DEF BridgeNext, BridgeStep

\* What the types of the reads need beside ReadsKept.
ReadsShape ==
    /\ Shaped(registry, {"live", "aborted", "early"})
    /\ cancels \cup registry.live \cup registry.aborted \cup registry.early \subseteq Ids
    /\ memory \in [Accounts -> Ages] /\ snapshot \in [Accounts -> Ages]
    /\ readStops \in 0 .. MaxStops

LEMMA ReadsShapeStarts == ReadsInit => ReadsShape
BY ReadsAssumption DEF ReadsInit, ReadsShape, Shaped, Ages

LEMMA ReadsTyped == ReadsKept /\ ReadsShape => ReadsTypeOK
BY DEF ReadsKept, ReadsShape, ReadsTypeOK, Panes, Requests

LEMMA ReadsShapeKept == ReadsKept /\ ReadsShape /\ [ReadsNext]_readsVars => ReadsShape'
<1>. SUFFICES ASSUME ReadsKept, ReadsShape, [ReadsNext]_readsVars PROVE ReadsShape'
  OBVIOUS
\* The ids that are noted are of requests, and the caches have ages.
<1>1. ASSUME NEW live \in SUBSET Ids, NEW aborted \in SUBSET Ids, NEW early \in SUBSET Ids,
             registry' = [live |-> live, aborted |-> aborted, early |-> early]
      PROVE  /\ Shaped(registry, {"live", "aborted", "early"})'
             /\ registry'.live \cup registry'.aborted \cup registry'.early \subseteq Ids
  BY <1>1 DEF Shaped
<1>2. registry = [live |-> registry.live, aborted |-> registry.aborted, early |-> registry.early]
      /\ {registry.live, registry.aborted, registry.early} \subseteq SUBSET Ids
  BY DEF ReadsShape, Shaped
<1>3. \A a \in Accounts : memory[a] \in Ages /\ snapshot[a] \in Ages
      /\ Older(memory[a]) \in Ages /\ Older(snapshot[a]) \in Ages
  BY DEF ReadsShape, Ages, Older
<1>4. pane.id # NoRequest => pane.id \in Ids
  BY ReadsAssumption DEF ReadsKept, Panes, Ids, NoRequest
<1>5. ASSUME NEW a \in Accounts, ShowAccount(a) PROVE ReadsShape'
  BY <1>4, <1>5 DEF ShowAccount, CancelCurrent, cacheVars, ReadsShape, Shaped
<1>6. CASE LoadPortfolio
  BY <1>4, <1>6 DEF LoadPortfolio, CancelCurrent, cacheVars, ReadsShape, Shaped
<1>7. ASSUME NEW i \in Ids, TakeResult(i) \/ ReadTimesOut(i) PROVE ReadsShape'
  BY <1>7 DEF TakeResult, ReadTimesOut, cacheVars, ReadsShape, Shaped
<1>8. ASSUME NEW i \in Ids, Register(i) PROVE ReadsShape'
  <2>1. registry' = [live |-> registry.live \cup {i}, early |-> registry.early \ {i},
                     aborted |-> registry.aborted \cup ({i} \cap registry.early)]
        /\ UNCHANGED <<cancels, memory, snapshot, readStops>>
    BY <1>8 DEF Register
  <2>2. /\ Shaped(registry, {"live", "aborted", "early"})'
        /\ registry'.live \cup registry'.aborted \cup registry'.early \subseteq Ids
    <3>1. {registry.live \cup {i}, registry.early \ {i},
           registry.aborted \cup ({i} \cap registry.early)} \subseteq SUBSET Ids
      BY <1>2
    <3>. QED
      BY <1>1, <2>1, <3>1
  <2>. QED
    BY <2>1, <2>2 DEF ReadsShape
<1>9. ASSUME NEW i \in Ids, Warmed(i) PROVE ReadsShape'
  <2>1. requests[i].acct \in Accounts \/ memory' = memory
    BY <1>9 DEF Warmed, ReadsKept, Requests, ReadsShape
  <2>. QED
    BY <1>3, <1>9, <2>1 DEF Warmed, ReadsShape, Shaped
<1>10. ASSUME NEW a \in Accounts, ReadSucceeds(a) \/ ReadFails(a) \/ CacheAges(a) PROVE ReadsShape'
  <2>1. UNCHANGED <<cancels, registry, readStops>>
    BY <1>10 DEF ReadSucceeds, ReadFails, CacheAges
  <2>2. memory' \in [Accounts -> Ages] /\ snapshot' \in [Accounts -> Ages]
    BY <1>3, <1>10 DEF ReadSucceeds, ReadFails, CacheAges, ReadsShape, Ages
  <2>. QED
    BY <2>1, <2>2 DEF ReadsShape, Shaped
<1>11. ASSUME NEW i \in Ids, WaiterEnds(i) \/ AbortWins(i) \/ LateWaiterEnds(i) PROVE ReadsShape'
  <2>1. registry' = [registry EXCEPT !.live = @ \ {i}, !.early = @ \ {i}]
        /\ UNCHANGED <<cancels, memory, snapshot, readStops>>
    BY <1>11 DEF WaiterEnds, AbortWins, LateWaiterEnds, Unregister, cacheVars
  <2>2. registry' = [live |-> registry.live \ {i}, aborted |-> registry.aborted,
                     early |-> registry.early \ {i}]
    BY <1>2, <2>1
  <2>. QED
    BY <1>1, <1>2, <2>1, <2>2 DEF ReadsShape
<1>12. ASSUME NEW i \in Ids, CancelArrives(i) PROVE ReadsShape'
  <2>1. cancels' \subseteq Ids /\ UNCHANGED <<memory, snapshot, readStops>>
    BY <1>12 DEF CancelArrives, cacheVars, ReadsShape
  <2>2. \E x, y \in SUBSET Ids :
          registry' = [live |-> registry.live, aborted |-> x, early |-> y]
    <3>1. CASE i \in registry.live
      <4>1. registry' = [live |-> registry.live, aborted |-> registry.aborted \cup {i},
                         early |-> registry.early]
        BY <1>2, <1>12, <3>1 DEF CancelArrives
      <4>. QED
        BY <1>2, <4>1
    <3>2. CASE i \notin registry.live
      <4>1. registry' = [live |-> registry.live, aborted |-> registry.aborted,
                         early |-> registry.early \cup {i}]
        BY <1>2, <1>12, <3>2 DEF CancelArrives
      <4>. QED
        BY <1>2, <4>1
    <3>. QED
      BY <3>1, <3>2
  <2>. QED
    BY <1>1, <1>2, <2>1, <2>2 DEF ReadsShape
<1>13. CASE ReadsStop
  <2>1. registry' = [registry EXCEPT !.live = {}, !.early = {}]
        /\ UNCHANGED <<cancels, snapshot>> /\ memory' = [a \in Accounts |-> "none"]
    BY <1>13 DEF ReadsStop
  <2>2. registry' = [live |-> {}, aborted |-> registry.aborted, early |-> {}]
    BY <1>2, <2>1
  <2>3. readStops' \in 0 .. MaxStops
    BY <1>13, ReadsAssumption DEF ReadsStop, ReadsShape
  <2>4. memory' \in [Accounts -> Ages]
    BY <2>1 DEF Ages
  <2>. QED
    BY <1>1, <1>2, <2>1, <2>2, <2>3, <2>4 DEF ReadsShape
<1>14. CASE UNCHANGED readsVars
  BY <1>14 DEF readsVars, ReadsShape, Shaped
<1>. QED
  BY <1>5, <1>6, <1>7, <1>8, <1>9, <1>10, <1>11, <1>12, <1>13, <1>14 DEF ReadsNext, RequestStep

\* What the types of the list need beside ActivityKept.
ActivityShape ==
    /\ transfers <= MaxTransfers /\ throughG \subseteq Happened
    /\ Shaped(listInMemory, {"age", "some"}) /\ listInMemory.some \in BOOLEAN
    /\ tracked \in Scans \cup {NoScan}

LEMMA ActivityShapeStarts == ActivityInit => ActivityShape
BY ActivityAssumption DEF ActivityInit, ActivityShape, Shaped, Happened

LEMMA ActivityTyped == ActivityKept /\ ActivityShape => ActivityTypeOK
BY ActivityAssumption DEF ActivityKept, ActivityShape, ActivityTypeOK

LEMMA ActivityShapeKept ==
    ActivityKept /\ ActivityShape /\ [ActivityNext]_activityVars => ActivityShape'
<1>. SUFFICES ASSUME ActivityKept, ActivityShape, [ActivityNext]_activityVars
              PROVE  ActivityShape'
  OBVIOUS
<1>. USE DEF ActivityShape, Shaped, Happened
<1>1. ASSUME NEW s \in Scans, AskList(s) \/ ForceList(s) \/ ShrinkReach(s) \/ ScanComplete(s)
                              \/ ScanIncomplete(s) \/ ReadStored(s)
      PROVE  ActivityShape'
  BY <1>1 DEF AskList, ForceList, StartScan, ShrinkReach, ScanComplete, ScanIncomplete, ReadStored,
     Untrack
<1>2. ASSUME NEW s \in Scans, WriteStoredList(s) PROVE ActivityShape'
  <2>1. \E rows : listInMemory' = [age |-> "fresh", some |-> rows # {}]
    BY <1>2 DEF WriteStoredList
  <2>2. Shaped(listInMemory, {"age", "some"})' /\ listInMemory'.some \in BOOLEAN
    BY <2>1
  <2>3. UNCHANGED <<transfers, throughG>> /\ tracked' \in {NoScan, tracked}
    BY <1>2 DEF WriteStoredList, Untrack
  <2>. QED
    BY <2>2, <2>3
<1>3. CASE TransferLands
  <2>1. transfers \in Nat /\ MaxTransfers \in Nat
    BY ActivityAssumption DEF ActivityKept
  <2>. QED
    BY <1>3, <2>1 DEF TransferLands
<1>4. CASE ListAges
  <2>1. listInMemory' = [age |-> "stale", some |-> listInMemory.some]
    BY <1>4 DEF ListAges
  <2>. QED
    BY <1>4, <2>1 DEF ListAges
<1>5. CASE ScansStop
  <2>1. listInMemory' = [age |-> "none", some |-> FALSE]
    BY <1>5 DEF ScansStop
  <2>. QED
    BY <1>5, <2>1 DEF ScansStop
<1>7. CASE ClearHistory
  BY <1>7 DEF ClearHistory
<1>6. CASE UNCHANGED activityVars
  BY <1>6 DEF activityVars
<1>. QED
  BY <1>1, <1>2, <1>3, <1>4, <1>5, <1>6, <1>7 DEF ActivityNext, ScanStep

\* What the types of the sweeps need beside MigrationKept.
MigrationShape ==
    /\ classic.xlm \in Nat /\ classic.coins \subseteq Coins
    /\ cached = {"none"} \/ cached \subseteq Assets
    /\ DOMAIN screen = Screens
    /\ \A s \in Screens :
         /\ Shaped(screen[s], {"at", "found", "left"})
         /\ screen[s].left \subseteq Assets /\ screen[s].found \subseteq Assets
         /\ sweep[s].at \in {"idle", "asked", "built", "polling", "applied"}
    /\ topUps \in 0 .. MaxTopUps

LEMMA MigrationShapeStarts == MigrationInit => MigrationShape
<1>. SUFFICES ASSUME MigrationInit PROVE MigrationShape
  OBVIOUS
<1>1. \A s \in Screens : screen[s] = Opened /\ sweep[s] = NoSweep
  BY DEF MigrationInit
<1>2. classic.xlm \in Nat /\ classic.coins \subseteq Coins
  BY MigrationAssumption DEF MigrationInit
<1>. QED
  BY <1>1, <1>2, MigrationAssumption DEF MigrationInit, MigrationShape, Shaped, Opened, NoSweep, Assets

LEMMA MigrationTyped == MigrationShape => MigrationTypeOK
BY DEF MigrationShape, MigrationTypeOK

\* A screen of such a shape, and a step that gives one to a single screen.
ScreenShape(r) == /\ Shaped(r, {"at", "found", "left"})
                  /\ r.left \subseteq Assets /\ r.found \subseteq Assets

LEMMA FoundIsShown ==
    ASSUME MigrationShape, NEW s \in Screens, NEW found \in SUBSET Assets, ShowFound(s, found)
    PROVE  DOMAIN screen' = Screens /\ \A r \in Screens : ScreenShape(screen'[r])
<1>. DEFINE at == IF found = {} THEN "empty" ELSE "shown"
            moved == [Opened EXCEPT !.at = at]
            filled == [moved EXCEPT !.found = found]
            shown == [filled EXCEPT !.left = found]
<1>1. screen' = [screen EXCEPT ![s] = shown]
  BY Zenon DEF ShowFound
<1>. HIDE DEF at
<1>2. shown = [at |-> at, found |-> found, left |-> found]
  <2>1. moved = [at |-> at, found |-> {}, left |-> {}]
    BY DEF Opened
  <2>. HIDE DEF moved
  <2>2. filled = [at |-> at, found |-> found, left |-> {}]
    BY <2>1
  <2>. HIDE DEF filled
  <2>. QED
    BY <2>2
<1>3. ScreenShape(shown)
  BY <1>2 DEF ScreenShape, Shaped
<1>. HIDE DEF shown
<1>. QED
  BY <1>1, <1>3 DEF MigrationShape, ScreenShape

LEMMA ScreenMoves ==
    ASSUME MigrationShape, NEW s \in Screens, NEW at, screen' = [screen EXCEPT ![s].at = at]
    PROVE  DOMAIN screen' = Screens /\ \A r \in Screens : ScreenShape(screen'[r])
<1>1. screen'[s] = [at |-> at, found |-> screen[s].found, left |-> screen[s].left]
  BY DEF MigrationShape, Shaped
<1>. QED
  BY <1>1 DEF MigrationShape, ScreenShape, Shaped

LEMMA MigrationShapeKept ==
    MigrationKept /\ MigrationShape /\ [MigrationNext]_migrationVars => MigrationShape'
<1>. SUFFICES ASSUME MigrationKept, MigrationShape, [MigrationNext]_migrationVars
              PROVE  MigrationShape'
  OBVIOUS
<1>. DEFINE ScreensShaped == DOMAIN screen = Screens /\ \A r \in Screens : ScreenShape(screen[r])
            SweepsAt == \A r \in Screens :
                           sweep[r].at \in {"idle", "asked", "built", "polling", "applied"}
            RestKept == /\ classic.xlm \in Nat /\ classic.coins \subseteq Coins
                        /\ cached = {"none"} \/ cached \subseteq Assets
                        /\ topUps \in 0 .. MaxTopUps
<1>1. /\ ScreensShaped /\ SweepsAt /\ RestKept
      /\ ScreensShaped' /\ SweepsAt' /\ RestKept' => MigrationShape'
  BY DEF MigrationShape, ScreenShape
<1>2. UNCHANGED screen => ScreensShaped'
  BY <1>1
<1>3. UNCHANGED sweep => SweepsAt'
  BY <1>1
<1>4. UNCHANGED <<classic, cached, topUps>> => RestKept'
  BY <1>1
<1>5. Migrable \subseteq Assets
  BY <1>1 DEF Migrable, Assets
<1>6. \A s \in Screens : Opened = [at |-> "open", found |-> {}, left |-> {}] /\ ScreenShape(Opened)
  BY DEF Opened, ScreenShape, Shaped
<1>7. NoSweep.at = "idle" /\ Shaped(NoSweep, {"at", "asset", "amount", "seq"})
  BY DEF NoSweep, Shaped
<1>8. DOMAIN sweep = Screens /\ \A s \in Screens : Shaped(sweep[s], {"at", "asset", "amount", "seq"})
  BY DEF MigrationKept, SweepShape
<1>9. ASSUME NEW s \in Screens, NEW why, StopRun(s, why) PROVE ScreensShaped' /\ SweepsAt'
  <2>1. ScreensShaped'
    BY <1>9, ScreenMoves DEF StopRun
  <2>2. SweepsAt'
    BY <1>1, <1>7, <1>8, <1>9 DEF StopRun
  <2>. QED
    BY <2>1, <2>2
<1>10. ASSUME NEW s \in Screens, Discover(s) PROVE MigrationShape'
  <2>1. UNCHANGED <<classic, cached, topUps, sweep>>
    BY <1>10 DEF Discover
  <2>2. CASE cached # {"none"}
    <3>1. ShowFound(s, cached) /\ cached \subseteq Assets
      BY <1>1, <1>10, <2>2 DEF Discover
    <3>2. ScreensShaped'
      BY <3>1, FoundIsShown
    <3>. QED
      BY <1>1, <1>3, <1>4, <2>1, <3>2
  <2>3. CASE ~(cached # {"none"})
    <3>1. screen' = [screen EXCEPT ![s].at = "asking", ![s].found = Migrable]
      BY <1>10, <2>3 DEF Discover
    <3>2. screen'[s] = [at |-> "asking", found |-> Migrable, left |-> screen[s].left]
      BY <1>1, <3>1 DEF ScreenShape, Shaped
    <3>3. ScreensShaped'
      BY <1>1, <1>5, <3>1, <3>2 DEF ScreenShape, Shaped
    <3>. QED
      BY <1>1, <1>3, <1>4, <2>1, <3>3
  <2>. QED
    BY <2>2, <2>3
<1>11. ASSUME NEW s \in Screens, Discovered(s) \/ DiscoverUnreachable(s) PROVE MigrationShape'
  <2>1. UNCHANGED <<classic, topUps, sweep>> /\ cached' \in {screen[s].found, {}, cached}
    BY <1>11 DEF Discovered, DiscoverUnreachable
  <2>2. RestKept'
    BY <1>1, <2>1 DEF ScreenShape
  <2>3. \E found \in SUBSET Assets : ShowFound(s, found)
    BY <1>1, <1>11 DEF Discovered, DiscoverUnreachable, ScreenShape
  <2>4. ScreensShaped'
    BY <2>3, FoundIsShown
  <2>. QED
    BY <1>1, <1>3, <2>1, <2>2, <2>4
<1>12. ASSUME NEW s \in Screens, MigrateNext(s) PROVE MigrationShape'
  <2>1. ScreensShaped' /\ UNCHANGED <<classic, cached, topUps>>
    BY <1>12, ScreenMoves DEF MigrateNext
  <2>2. PICK a \in NextAsset(s) :
          sweep' = [sweep EXCEPT ![s] = [NoSweep EXCEPT !.at = "asked", !.asset = a]]
    BY <1>12 DEF MigrateNext
  <2>3. [NoSweep EXCEPT !.at = "asked", !.asset = a].at = "asked"
    BY <1>7 DEF Shaped
  <2>4. SweepsAt'
    BY <1>1, <1>8, <2>2, <2>3
  <2>. QED
    BY <1>1, <1>4, <2>1, <2>4
<1>13. ASSUME NEW s \in Screens, MigrateDone(s) \/ Reopen(s) PROVE MigrationShape'
  <2>1. screen' = [screen EXCEPT ![s] = Opened] /\ UNCHANGED <<classic, cached, topUps, sweep>>
    BY <1>13 DEF MigrateDone, Reopen
  <2>2. ScreensShaped'
    BY <1>1, <1>6, <2>1
  <2>. QED
    BY <1>1, <1>3, <1>4, <2>1, <2>2
<1>14. ASSUME NEW s \in Screens, MigrateAgain(s) PROVE MigrationShape'
  <2>1. screen' = [screen EXCEPT ![s] = [@ EXCEPT !.at = "shown", !.left = screen[s].found]]
        /\ UNCHANGED <<classic, cached, topUps, sweep>>
    BY <1>14 DEF MigrateAgain
  <2>2. screen'[s] = [at |-> "shown", found |-> screen[s].found, left |-> screen[s].found]
    BY <1>1, <2>1 DEF ScreenShape, Shaped
  <2>3. ScreensShaped'
    BY <1>1, <2>1, <2>2 DEF ScreenShape, Shaped
  <2>. QED
    BY <1>1, <1>3, <1>4, <2>1, <2>3
<1>15. ASSUME NEW s \in Screens, SimulationFails(s) \/ SweepLocked(s) \/ SweepRefused(s)
                                 \/ SendRefused(s) \/ SweepFails(s)
       PROVE  MigrationShape'
  <2>1. UNCHANGED <<classic, cached, topUps>> /\ \E why : StopRun(s, why)
    BY <1>15 DEF SimulationFails, SweepLocked, SweepRefused, SendRefused, SweepFails
  <2>. QED
    BY <1>1, <1>4, <1>9, <2>1
<1>16. ASSUME NEW s \in Screens, SweepRead(s) \/ SweepSend(s) PROVE MigrationShape'
  <2>1. UNCHANGED <<classic, cached, topUps, screen>>
    BY <1>16 DEF SweepRead, SweepSend
  <2>2. sweep'[s].at \in {"built", "polling"} /\ \A r \in Screens \ {s} : sweep'[r] = sweep[r]
    BY <1>8, <1>16 DEF SweepRead, SweepSend, Shaped
  <2>. QED
    BY <1>1, <1>2, <1>4, <2>1, <2>2
<1>17. ASSUME NEW s \in Screens, SweepConfirmed(s) PROVE MigrationShape'
  <2>1. /\ cached' = {"none"} /\ UNCHANGED <<classic, topUps>>
        /\ sweep' = [sweep EXCEPT ![s] = NoSweep]
        /\ screen' = [screen EXCEPT ![s].left = @ \ {sweep[s].asset}]
    BY <1>17 DEF SweepConfirmed
  <2>2. screen'[s] = [at |-> screen[s].at, found |-> screen[s].found,
                      left |-> screen[s].left \ {sweep[s].asset}]
    BY <1>1, <2>1 DEF ScreenShape, Shaped
  <2>3. ScreensShaped'
    BY <1>1, <2>1, <2>2 DEF ScreenShape, Shaped
  <2>4. SweepsAt'
    BY <1>1, <1>7, <1>8, <2>1
  <2>. QED
    BY <1>1, <2>1, <2>3, <2>4
<1>18. ASSUME NEW tx \in mempool, LedgerApplies(tx) PROVE MigrationShape'
  <2>1. UNCHANGED <<cached, topUps, screen>>
    BY <1>18 DEF LedgerApplies
  <2>2. PICK charge \in 0 .. SweepFee + ResourceFee :
          /\ charge + (IF tx[2] = Xlm THEN tx[3] ELSE 0) <= classic.xlm
          /\ classic' = [xlm |-> IF tx[2] = Xlm THEN classic.xlm - charge - tx[3]
                                                ELSE classic.xlm - charge,
                         coins |-> classic.coins \ {tx[2]}, seq |-> tx[4]]
    BY <1>18 DEF LedgerApplies
  <2>3. tx[3] \in Int /\ SweepFee \in Nat /\ ResourceFee \in Nat
    BY <1>18, MigrationAssumption DEF MigrationKept, Affords
  <2>4. classic'.xlm \in Nat /\ classic'.coins \subseteq Coins
    BY <1>1, <2>2, <2>3
  <2>5. SweepsAt'
    BY <1>1, <1>8, <1>18 DEF LedgerApplies, Shaped
  <2>. QED
    BY <1>1, <1>2, <2>1, <2>4, <2>5
<1>19. CASE TopUp
  <2>1. classic' = [classic EXCEPT !.xlm = @ + 1] /\ topUps' = topUps + 1 /\ topUps < MaxTopUps
        /\ UNCHANGED <<cached, screen, sweep>>
    BY <1>19 DEF TopUp
  <2>2. classic'.xlm = classic.xlm + 1 /\ classic'.coins = classic.coins
    BY <2>1 DEF MigrationKept, Shaped
  <2>3. RestKept'
    BY <1>1, <2>1, <2>2, MigrationAssumption
  <2>. QED
    BY <1>1, <1>2, <1>3, <2>1, <2>3
<1>20. CASE UNCHANGED migrationVars \/ UnlockSeed \/ DiscoveryExpires
             \/ \E tx \in mempool : LedgerDrops(tx)
  <2>1. UNCHANGED <<classic, topUps, screen, sweep>> /\ cached' \in {{"none"}, cached}
    BY <1>20 DEF migrationVars, UnlockSeed, DiscoveryExpires, LedgerDrops
  <2>. QED
    BY <1>1, <1>2, <1>3, <2>1
<1>. QED
  BY <1>10, <1>11, <1>12, <1>13, <1>14, <1>15, <1>16, <1>17, <1>18, <1>19, <1>20
  DEF MigrationNext, SweepStep

\* What the types of the credentials need beside ApiKept: a token that is filed,
\* held or used up has a number the API issued.
FiledNumbers(T, n) == \A k \in Nets \X ApiWallets : T[k] = NoToken \/ T[k].no \in 1 .. n

CallNumbered(r, n) ==
    /\ r.at \in {"send", "refresh", "store", "write"} => r.token.no \in 1 .. n
    /\ r.at \in {"write", "erase"} => FiledNumbers(r.base.of, n)

ApiShape ==
    /\ issued \in Nat /\ expired \cup spent \subseteq 1 .. issued
    /\ FiledNumbers(tokens, issued)
    /\ \A c \in ApiCalls : CallNumbered(call[c], issued)
    /\ cookie \subseteq Hosts /\ slot.sid \in Hosts \cup {"none"}
    /\ \A k \in Ceremonies : /\ rite[k].at = "begun" => rite[k].sid \in Hosts
                             /\ rite[k].at = "finishing" => rite[k].host \in Hosts
    /\ toggles \in 0 .. MaxToggles

LEMMA ApiShapeStarts == ApiInit => ApiShape
BY ApiAssumption DEF ApiInit, ApiShape, FiledNumbers, CallNumbered, IdleCall, IdleRite, NoSlot, Hosts

LEMMA ApiTyped == ApiKept /\ ApiShape => ApiTypeOK
<1>. SUFFICES ASSUME ApiKept, ApiShape PROVE ApiTypeOK
  OBVIOUS
<1>1. \A k \in Nets \X ApiWallets : tokens[k].of \in ApiWallets \cup {"none"}
  BY DEF ApiKept, StoreKept, PairKept, NoToken
<1>. QED
  BY <1>1 DEF ApiKept, ApiShape, ApiTypeOK

\* The API may issue one more, and what was numbered stays so.
LEMMA NumbersGrow ==
    ASSUME ApiShape, issued' \in {issued, issued + 1}
    PROVE  /\ issued' \in Nat /\ 1 .. issued \subseteq 1 .. issued'
           /\ \A T : FiledNumbers(T, issued) => FiledNumbers(T, issued')
           /\ \A r : CallNumbered(r, issued) => CallNumbered(r, issued')
<1>1. issued' \in Nat /\ 1 .. issued \subseteq 1 .. issued'
  BY DEF ApiShape
<1>2. \A T : FiledNumbers(T, issued) => FiledNumbers(T, issued')
  BY <1>1 DEF FiledNumbers
<1>. QED
  BY <1>1, <1>2 DEF CallNumbered

\* A call that becomes another record of numbered tokens.
LEMMA NumberedCall ==
    ASSUME ApiKept, ApiShape, issued' \in {issued, issued + 1},
           NEW c \in ApiCalls, NEW r, Call(c, r), CallNumbered(r, issued'),
           FiledNumbers(tokens', issued'), expired' \cup spent' \subseteq 1 .. issued',
           UNCHANGED <<riteVars, toggles>>
    PROVE  ApiShape'
<1>1. \A d \in ApiCalls : call'[d] = r \/ call'[d] = call[d]
  BY DEF Call, ApiKept
<1>2. \A d \in ApiCalls : CallNumbered(call'[d], issued')
  BY <1>1, NumbersGrow DEF ApiShape
<1>. QED
  BY <1>2, NumbersGrow DEF ApiShape, riteVars

LEMMA TokensStay ==
    ASSUME ApiKept, ApiShape, NEW c \in ApiCalls, NEW r, Call(c, r), CallNumbered(r, issued),
           TokensKept
    PROVE  ApiShape'
BY NumberedCall DEF TokensKept, ApiShape

\* A call that holds neither a token nor the store.
LEMMA NothingHeld ==
    ASSUME NEW r, r.at \notin {"send", "refresh", "store", "write", "erase"}
    PROVE  \A n : CallNumbered(r, n)
BY DEF CallNumbered

LEMMA FailingHolds ==
    ASSUME ApiKept, NEW c \in ApiCalls, CallFails(c) \/ RefreshFails(c) \/ CallOver(c)
    PROVE  \E r : Call(c, r) /\ \A n : CallNumbered(r, n)
<1>. DEFINE r == [call[c] EXCEPT !.at = "challenge", !.token = NoToken, !.base = <<>>]
            s == [call[c] EXCEPT !.at = "clear"]
<1>1. CallShape(call[c])
  BY DEF ApiKept, CallKept
<1>2. r.at = "challenge" /\ s.at = "clear" /\ IdleCall.at = "idle"
  BY <1>1 DEF CallShape, Shaped, CallFields, IdleCall
<1>3. Call(c, r) \/ Call(c, s) \/ Call(c, IdleCall)
  BY DEF CallFails, RefreshFails, CallOver
<1>. HIDE DEF r, s
<1>. QED
  BY <1>2, <1>3, NothingHeld

LEMMA CallFailsTyped ==
    ASSUME ApiKept, ApiShape, NEW c \in ApiCalls, CallFails(c) \/ RefreshFails(c) \/ CallOver(c),
           TokensKept
    PROVE  ApiShape'
BY FailingHolds, TokensStay

LEMMA FiledNumber ==
    ASSUME ApiKept, ApiShape, NEW w \in ApiWallets, NEW p, p = tokens[TokenKey(host, w)],
           p # NoToken
    PROVE  p.no \in 1 .. issued
BY DEF TokenKey, NetOf, Nets, ApiShape, FiledNumbers

LEMMA ResolveTyped ==
    ASSUME ApiKept, ApiShape, NEW c \in ApiCalls, ResolveAccessToken(c)
    PROVE  ApiShape'
<1>. DEFINE pair == tokens[TokenKey(host, call[c].of)]
            r == [call[c] EXCEPT !.at = "send", !.token = pair]
            s == [call[c] EXCEPT !.at = "refresh", !.token = pair]
<1>1. CallShape(call[c]) /\ call[c].of \in ApiWallets
  BY DEF ApiKept, CallKept, ResolveAccessToken
<1>. HIDE DEF pair
<1>2. r.at = "send" /\ r.token = pair /\ s.at = "refresh" /\ s.token = pair
  BY <1>1 DEF CallShape, Shaped, CallFields
<1>3. TokensKept /\ (CallFails(c) \/ CallOver(c) \/ (pair # NoToken /\ (Call(c, r) \/ Call(c, s))))
  BY DEF ResolveAccessToken, pair
<1>. HIDE DEF r, s
<1>4. CASE CallFails(c) \/ CallOver(c)
  BY <1>3, <1>4, CallFailsTyped
<1>5. CASE pair # NoToken /\ (Call(c, r) \/ Call(c, s))
  <2>1. pair.no \in 1 .. issued
    BY <1>1, <1>5, FiledNumber DEF pair
  <2>2. CallNumbered(r, issued) /\ CallNumbered(s, issued)
    BY <1>2, <2>1 DEF CallNumbered
  <2>. QED
    BY <1>3, <1>5, <2>2, TokensStay
<1>. QED
  BY <1>3, <1>4, <1>5

LEMMA RefreshTyped ==
    ASSUME ApiKept, ApiShape, NEW c \in ApiCalls, RefreshV1Tokens(c)
    PROVE  ApiShape'
<1>. DEFINE new == Minted(host, call[c].token.of)
            r == [call[c] EXCEPT !.at = "store", !.token = new]
<1>1. CallShape(call[c]) /\ call[c].at = "refresh" /\ call[c].token.no \in 1 .. issued
  BY DEF ApiKept, CallKept, ApiShape, CallNumbered, RefreshV1Tokens
<1>2. new.no = issued + 1
  BY DEF Minted, NoToken
<1>. HIDE DEF new
<1>3. r.at = "store" /\ r.token = new
  BY <1>1 DEF CallShape, Shaped, CallFields
<1>. HIDE DEF r
<1>4. /\ UNCHANGED <<tokens, expired, riteVars, toggles>>
      /\ issued' \in {issued, issued + 1} /\ spent' \subseteq spent \cup {call[c].token.no}
      /\ RefreshFails(c) \/ (issued' = issued + 1 /\ Call(c, r))
  BY DEF RefreshV1Tokens, r, new
<1>5. FiledNumbers(tokens', issued') /\ expired' \cup spent' \subseteq 1 .. issued'
  BY <1>1, <1>4, NumbersGrow DEF ApiShape
<1>6. CASE RefreshFails(c)
  BY <1>4, <1>5, <1>6, FailingHolds, NumberedCall
<1>7. CASE issued' = issued + 1 /\ Call(c, r)
  <2>1. CallNumbered(r, issued')
    BY <1>2, <1>3, <1>7 DEF CallNumbered, ApiShape
  <2>. QED
    BY <1>4, <1>5, <1>7, <2>1, NumberedCall
<1>. QED
  BY <1>4, <1>6, <1>7

LEMMA ReadTokensTyped ==
    ASSUME ApiKept, ApiShape, NEW c \in ApiCalls, ReadTokens(c)
    PROVE  ApiShape'
<1>. DEFINE base == [of |-> tokens, key |-> TokenKey(host, call[c].of)]
            at == IF call[c].at = "store" THEN "write" ELSE "erase"
            r == [call[c] EXCEPT !.at = at, !.base = base]
<1>1. CallShape(call[c]) /\ CallNumbered(call[c], issued) /\ FiledNumbers(tokens, issued)
  BY DEF ApiKept, CallKept, ApiShape
<1>2. base.of = tokens
  OBVIOUS
<1>3. at = "erase" \/ (at = "write" /\ call[c].at = "store")
  OBVIOUS
<1>4. Call(c, r) /\ TokensKept
  BY DEF ReadTokens
<1>. HIDE DEF at, base
<1>5. r.at = at /\ r.base = base /\ r.token = call[c].token
  BY <1>1 DEF CallShape, Shaped, CallFields
<1>. HIDE DEF r
<1>6. CallNumbered(r, issued)
  BY <1>1, <1>2, <1>3, <1>5 DEF CallNumbered
<1>. QED
  BY <1>4, <1>6, TokensStay

\* The store written is the one that was read, with the pair of this wallet set
\* or removed.
LEMMA WrittenNumbers ==
    ASSUME ApiKept, ApiShape, NEW c \in ApiCalls, call[c].at \in {"write", "erase"}, NEW p,
           p = NoToken \/ p.no \in 1 .. issued
    PROVE  FiledNumbers([call[c].base.of EXCEPT ![call[c].base.key] = p], issued)
<1>. DEFINE T == call[c].base.of
            K == call[c].base.key
<1>1. FiledNumbers(T, issued) /\ StoreKept(T)
  BY DEF ApiKept, CallKept, HoldsStore, ApiShape, CallNumbered
<1>. HIDE DEF T, K
<1>2. \A k \in Nets \X ApiWallets : [T EXCEPT ![K] = p][k] \in {p, T[k]}
  BY <1>1 DEF StoreKept
<1>3. FiledNumbers([T EXCEPT ![K] = p], issued)
  BY <1>1, <1>2 DEF FiledNumbers
<1>. QED
  BY <1>3 DEF T, K

LEMMA SetTyped ==
    ASSUME ApiKept, ApiShape, NEW c \in ApiCalls, SetV1TokenPair(c)
    PROVE  ApiShape'
<1>. DEFINE p == [call[c].token EXCEPT !.stray = call[c].stray]
            r == [call[c] EXCEPT !.at = "send", !.base = <<>>]
            s == [call[c] EXCEPT !.at = "resolve", !.base = <<>>, !.token = NoToken]
<1>1. CallShape(call[c]) /\ call[c].at = "write" /\ TokenShape(call[c].token)
      /\ call[c].token.no \in 1 .. issued
  BY DEF ApiKept, CallKept, HoldsToken, ApiShape, CallNumbered, SetV1TokenPair
<1>2. p.no = call[c].token.no
  BY <1>1 DEF TokenShape, Shaped
<1>3. r.at = "send" /\ r.token = call[c].token /\ s.at = "resolve"
  BY <1>1 DEF CallShape, Shaped, CallFields
<1>4. /\ tokens' = [call[c].base.of EXCEPT ![call[c].base.key] = p]
      /\ UNCHANGED <<expired, spent, issued, riteVars, toggles>>
      /\ Call(c, r) \/ Call(c, s) \/ CallOver(c)
  BY DEF SetV1TokenPair
<1>. HIDE DEF p, r, s
<1>5. FiledNumbers(tokens', issued)
  BY <1>1, <1>2, <1>4, WrittenNumbers
<1>6. CallNumbered(r, issued) /\ CallNumbered(s, issued)
  BY <1>1, <1>3 DEF CallNumbered
<1>7. expired' \cup spent' \subseteq 1 .. issued'
  BY <1>4 DEF ApiShape
<1>. QED
  BY <1>4, <1>5, <1>6, <1>7, FailingHolds, NumberedCall

LEMMA ClearTyped ==
    ASSUME ApiKept, ApiShape, NEW c \in ApiCalls, ClearV1TokenPair(c)
    PROVE  ApiShape'
<1>1. /\ tokens' = [call[c].base.of EXCEPT ![call[c].base.key] = NoToken] /\ CallOver(c)
      /\ UNCHANGED <<expired, spent, issued, riteVars, toggles>> /\ call[c].at = "erase"
  BY DEF ClearV1TokenPair
<1>2. FiledNumbers(tokens', issued)
  BY <1>1, WrittenNumbers
<1>3. expired' \cup spent' \subseteq 1 .. issued'
  BY <1>1 DEF ApiShape
<1>. QED
  BY <1>1, <1>2, <1>3, FailingHolds, NumberedCall

LEMMA FetchTyped ==
    ASSUME ApiKept, ApiShape, NEW c \in ApiCalls, V1Fetch(c)
    PROVE  ApiShape'
<1>. DEFINE r == [call[c] EXCEPT !.at = "retry"]
            s == [call[c] EXCEPT !.at = "clear"]
<1>1. CallShape(call[c])
  BY DEF ApiKept, CallKept
<1>2. r.at = "retry" /\ s.at = "clear"
  BY <1>1 DEF CallShape, Shaped, CallFields
<1>3. TokensKept /\ (CallOver(c) \/ Call(c, r) \/ Call(c, s))
  BY DEF V1Fetch
<1>. HIDE DEF r, s
<1>. QED
  BY <1>2, <1>3, NothingHeld, TokensStay, CallFailsTyped

LEMMA RetryTyped ==
    ASSUME ApiKept, ApiShape, NEW c \in ApiCalls, RetryV1FetchAfter401(c)
    PROVE  ApiShape'
<1>. DEFINE pair == tokens[TokenKey(host, call[c].of)]
            at == IF pair = NoToken THEN "clear" ELSE "refresh"
            r == [call[c] EXCEPT !.at = at, !.token = pair, !.again = TRUE]
<1>1. CallShape(call[c]) /\ call[c].of \in ApiWallets
  BY DEF ApiKept, CallKept, RetryV1FetchAfter401
<1>2. TokensKept /\ Call(c, r)
  BY DEF RetryV1FetchAfter401
<1>3. at = "clear" \/ (at = "refresh" /\ pair.no \in 1 .. issued)
  BY <1>1, FiledNumber
<1>. HIDE DEF at, pair
<1>4. r.at = at /\ r.token = pair
  BY <1>1 DEF CallShape, Shaped, CallFields
<1>. HIDE DEF r
<1>5. CallNumbered(r, issued)
  BY <1>3, <1>4 DEF CallNumbered
<1>. QED
  BY <1>2, <1>5, TokensStay

LEMMA SignInTyped ==
    ASSUME ApiKept, ApiShape, NEW c \in ApiCalls, RequestChallenge(c) \/ CompleteWalletSignIn(c)
    PROVE  ApiShape'
<1>. DEFINE new == Minted(host, call[c].of)
            r == [call[c] EXCEPT !.at = "prompt", !.again = TRUE, !.base = host]
            s == [call[c] EXCEPT !.at = "store", !.token = new]
<1>1. CallShape(call[c])
  BY DEF ApiKept, CallKept
<1>2. new.no = issued + 1
  BY DEF Minted, NoToken
<1>. HIDE DEF new
<1>3. r.at = "prompt" /\ s.at = "store" /\ s.token = new
  BY <1>1 DEF CallShape, Shaped, CallFields
<1>4. CASE RequestChallenge(c)
  <2>1. TokensKept /\ (Call(c, r) \/ CallOver(c))
    BY <1>4 DEF RequestChallenge
  <2>. HIDE DEF r, s
  <2>. QED
    BY <1>3, <2>1, NothingHeld, TokensStay, CallFailsTyped
<1>5. CASE CompleteWalletSignIn(c)
  <2>1. /\ UNCHANGED <<tokens, expired, spent, riteVars, toggles>>
        /\ (issued' = issued /\ CallOver(c)) \/ (issued' = issued + 1 /\ Call(c, s))
    BY <1>5 DEF CompleteWalletSignIn, new
  <2>. HIDE DEF r, s
  <2>2. FiledNumbers(tokens', issued') /\ expired' \cup spent' \subseteq 1 .. issued'
    BY <2>1, NumbersGrow DEF ApiShape
  <2>3. issued' = issued + 1 => CallNumbered(s, issued')
    BY <1>2, <1>3 DEF CallNumbered, ApiShape
  <2>. QED
    BY <2>1, <2>2, <2>3, FailingHolds, NumberedCall
<1>. QED
  BY <1>4, <1>5

\* A ceremony that becomes another record.
LEMMA TypedRite ==
    ASSUME ApiKept, ApiShape, RitesOnly, NEW k \in Ceremonies, NEW r, Rite(k, r),
           r.at = "begun" => r.sid \in Hosts, r.at = "finishing" => r.host \in Hosts,
           cookie' \subseteq Hosts, slot'.sid \in Hosts \cup {"none"}
    PROVE  ApiShape'
<1>1. \A j \in Ceremonies : rite'[j] = r \/ rite'[j] = rite[j]
  BY DEF Rite, ApiKept
<1>2. \A c \in ApiCalls : CallNumbered(call[c], issued)'
  BY DEF ApiShape, RitesOnly, tokenVars
<1>. QED
  BY <1>1, <1>2 DEF ApiShape, RitesOnly, tokenVars

LEMMA RitesTyped ==
    ASSUME ApiKept, ApiShape, NEW k \in Ceremonies,
           (\E kind : PasskeyBegin(k, kind)) \/ PersistCeremony(k) \/ PasskeyFinish(k)
             \/ FinishEnds(k) \/ PromptRefused(k)
    PROVE  ApiShape'
<1>1. host \in Hosts /\ cookie \subseteq Hosts /\ slot.sid \in Hosts \cup {"none"}
  BY DEF ApiKept, ApiShape
<1>2. RiteShape(rite[k])
  BY DEF ApiKept, RiteKept
<1>3. ASSUME NEW kind, PasskeyBegin(k, kind) PROVE ApiShape'
  <2>. DEFINE r == [IdleRite EXCEPT !.at = "begun", !.kind = kind, !.host = host, !.sid = host]
  <2>1. r.at = "begun" /\ r.sid = host
    BY DEF IdleRite
  <2>2. Rite(k, r) /\ RitesOnly /\ UNCHANGED slot /\ cookie' = cookie \cup {host}
    BY <1>3 DEF PasskeyBegin
  <2>. HIDE DEF r
  <2>. QED
    BY <1>1, <2>1, <2>2, TypedRite
<1>4. CASE PersistCeremony(k)
  <2>. DEFINE r == [rite[k] EXCEPT !.at = "prompt"]
  <2>1. r.at = "prompt"
    BY <1>2 DEF RiteShape, Shaped, RiteFields
  <2>2. Rite(k, r) /\ RitesOnly /\ UNCHANGED cookie /\ slot'.sid = rite[k].sid
    BY <1>4 DEF PersistCeremony
  <2>3. rite[k].sid \in Hosts
    BY <1>4 DEF PersistCeremony, ApiShape
  <2>. HIDE DEF r
  <2>. QED
    BY <1>1, <2>1, <2>2, <2>3, TypedRite
<1>5. CASE PasskeyFinish(k)
  <2>. DEFINE sid == IF SessionUsable(rite[k].kind) THEN slot.sid
                     ELSE IF host \in cookie THEN host ELSE "none"
              stray == rite[k].stray \/ (SessionUsable(rite[k].kind) /\ slot.stray)
              r == [rite[k] EXCEPT !.at = "finishing", !.host = host, !.sid = sid, !.stray = stray]
  <2>1. Rite(k, r) /\ RitesOnly /\ UNCHANGED <<slot, cookie>>
    BY <1>5 DEF PasskeyFinish
  <2>. HIDE DEF sid, stray
  <2>2. r.at = "finishing" /\ r.host = host
    BY <1>2 DEF RiteShape, Shaped, RiteFields
  <2>. HIDE DEF r
  <2>. QED
    BY <1>1, <2>1, <2>2, TypedRite
<1>6. CASE FinishEnds(k) \/ PromptRefused(k)
  <2>1. /\ Rite(k, IdleRite) /\ RitesOnly /\ slot' \in {NoSlot, slot}
        /\ cookie' \in {cookie, cookie \cup {rite[k].host}}
        /\ cookie' = cookie \/ rite[k].at = "finishing"
    BY <1>6 DEF FinishEnds, PromptRefused
  <2>2. IdleRite.at = "idle" /\ NoSlot.sid = "none"
    BY DEF IdleRite, NoSlot
  <2>3. cookie' \subseteq Hosts
    BY <1>1, <2>1 DEF ApiShape
  <2>. QED
    BY <1>1, <2>1, <2>2, <2>3, TypedRite
<1>. QED
  BY <1>3, <1>4, <1>5, <1>6

LEMMA SwitchTyped == ASSUME ApiKept, ApiShape, SwitchHost PROVE ApiShape'
<1>1. \A c \in ApiCalls : \/ call'[c] = call[c]
                          \/ call'[c] = [call[c] EXCEPT !.stray = TRUE]
  BY DEF SwitchHost
<1>2. ASSUME NEW c \in ApiCalls
      PROVE  LET r == [call[c] EXCEPT !.stray = TRUE]
             IN  r.at = call[c].at /\ r.token = call[c].token /\ r.base = call[c].base
  BY DEF ApiKept, CallKept, CallShape, Shaped, CallFields
<1>3. \A c \in ApiCalls : CallNumbered(call'[c], issued)
  BY <1>1, <1>2 DEF ApiShape, CallNumbered
<1>4. ASSUME NEW k \in Ceremonies
      PROVE  rite'[k].at = rite[k].at /\ rite'[k].sid = rite[k].sid /\ rite'[k].host = rite[k].host
  <2>1. rite'[k] = rite[k] \/ rite'[k] = [rite[k] EXCEPT !.stray = TRUE]
    BY DEF SwitchHost
  <2>2. RiteShape(rite[k])
    BY DEF ApiKept, RiteKept
  <2>. QED
    BY <2>1, <2>2 DEF RiteShape, Shaped, RiteFields
<1>5. UNCHANGED <<tokens, expired, spent, issued, slot, cookie>> /\ toggles' \in 0 .. MaxToggles
  BY ApiAssumption DEF SwitchHost, ApiShape
<1>. QED
  BY <1>3, <1>4, <1>5 DEF ApiShape

LEMMA ApiShapeKept ==
    ApiKept /\ ApiShape /\ [TokensNext \/ RitesNext]_apiVars => ApiShape'
<1>. SUFFICES ASSUME ApiKept, ApiShape, [TokensNext \/ RitesNext]_apiVars PROVE ApiShape'
  OBVIOUS
<1>1. ASSUME NEW c \in ApiCalls, CallStep(c) PROVE ApiShape'
  BY <1>1, ResolveTyped, RefreshTyped, ReadTokensTyped, SetTyped, ClearTyped, FetchTyped,
     RetryTyped, SignInTyped DEF CallStep
<1>2. ASSUME NEW c \in ApiCalls, NEW w, NEW op, StartCall(c, op, w) PROVE ApiShape'
  <2>. DEFINE r == [IdleCall EXCEPT !.at = "resolve", !.op = op, !.of = w]
  <2>1. r.at = "resolve"
    BY DEF IdleCall
  <2>2. Call(c, r) /\ UNCHANGED <<tokens, expired, spent, issued, riteVars, toggles>>
    BY <1>2 DEF StartCall
  <2>. HIDE DEF r
  <2>3. FiledNumbers(tokens', issued') /\ expired' \cup spent' \subseteq 1 .. issued'
    BY <2>2 DEF ApiShape
  <2>. QED
    BY <2>1, <2>2, <2>3, NothingHeld, NumberedCall
<1>3. ASSUME NEW n, TokenExpires(n) PROVE ApiShape'
  BY <1>3 DEF TokenExpires, ApiShape, riteVars
<1>4. CASE SwitchHost
  BY <1>4, SwitchTyped
<1>5. ASSUME NEW k \in Ceremonies,
             (\E kind : PasskeyBegin(k, kind)) \/ PersistCeremony(k) \/ PasskeyFinish(k)
               \/ FinishEnds(k) \/ PromptRefused(k)
      PROVE  ApiShape'
  BY <1>5, RitesTyped
<1>6. CASE ClearCeremonySlot \/ ClearLatchApiSession
  BY <1>6 DEF ClearCeremonySlot, ClearLatchApiSession, RitesOnly, tokenVars, ApiShape, NoSlot
<1>7. CASE UNCHANGED apiVars
  BY <1>7 DEF apiVars, tokenVars, riteVars, ApiShape
<1>. QED
  BY <1>1, <1>2, <1>3, <1>4, <1>5, <1>6, <1>7 DEF TokensNext, RitesNext

\* What the types of the flows that add an account need beside EnrolKept.
EnrolRite(r) ==
    /\ r = [of |-> r.of, with |-> r.with, at |-> r.at]
    /\ r.with \in Sources /\ r.at \in {"window", "finish", "after", "verify"}

EnrolShape ==
    /\ flow \in DOMAIN FirstStep /\ method \in DOMAIN FirstOf \cup {"none"}
    /\ collected \in Sources \cup {None} /\ creating \in BOOLEAN /\ words \in BOOLEAN
    /\ \A r \in rites : EnrolRite(r)

LEMMA EnrolShapeStarts == EnrolInit => EnrolShape
BY DEF EnrolInit, EnrolShape, None

LEMMA EnrolTyped == EnrolKept /\ EnrolShape => EnrolTypeOK
<1>. SUFFICES ASSUME EnrolKept, EnrolShape PROVE EnrolTypeOK
  OBVIOUS
<1>1. handed \in [Visits -> Nat] /\ visit \in 0 .. MaxVisits
  BY DEF EnrolKept
<1>2. options \in Visits \cup {None}
  BY EnrolmentAssumption DEF EnrolKept, Visits, None
<1>. QED
  BY <1>1, <1>2 DEF EnrolKept, EnrolShape, EnrolTypeOK, EnrolRite

LEMMA EnrolShapeKept == EnrolKept /\ EnrolShape /\ [EnrolNext]_enrolVars => EnrolShape'
<1>. SUFFICES ASSUME EnrolKept, EnrolShape, [EnrolNext]_enrolVars PROVE EnrolShape'
  OBVIOUS
<1>1. options # None => options \in Sources
  BY EnrolmentAssumption DEF EnrolKept, Visits, None, Sources
<1>2. ASSUME NEW r \in rites PROVE EnrolRite(r)
  BY DEF EnrolShape
\* A step that begins or moves one rite at most, and collects what a rite was with.
<1>3. ASSUME UNCHANGED flow, method' \in DOMAIN FirstOf \cup {"none"},
             collected' \in Sources \cup {None}, creating' \in BOOLEAN, words' \in BOOLEAN,
             \A r \in rites' : r \in rites \/ EnrolRite(r)
      PROVE  EnrolShape'
  BY <1>3 DEF EnrolShape
<1>4. ASSUME NEW r \in rites, NEW at \in {"window", "finish", "after", "verify"}, Advance(r, at)
      PROVE  \A s \in rites' : s \in rites \/ EnrolRite(s)
  <2>1. EnrolRite([r EXCEPT !.at = at])
    BY <1>2 DEF EnrolRite
  <2>. QED
    BY <1>4, <2>1 DEF Advance
<1>5. ASSUME NEW of, NEW with \in Sources, NEW at \in {"window", "finish", "after", "verify"},
             rites' = rites \cup {[of |-> of, with |-> with, at |-> at]}
      PROVE  \A s \in rites' : s \in rites \/ EnrolRite(s)
  BY <1>5 DEF EnrolRite
<1>6. ASSUME NEW v \in Visits, EnrolAnswers(v) PROVE EnrolShape'
  <2>1. UNCHANGED <<flow, method, rites, collected, creating, words>>
    BY <1>6 DEF EnrolAnswers, NameReserved, BeginFailed, BeginAnswered
  <2>. QED
    BY <2>1 DEF EnrolShape
<1>7. CASE Authenticate
  <2>1. /\ rites' = rites \cup {[of |-> step, with |-> options, at |-> "window"]}
        /\ UNCHANGED <<flow, method, collected, creating, words>> /\ options \in Sources
    BY <1>1, <1>7 DEF Authenticate
  <2>2. \A s \in rites' : s \in rites \/ EnrolRite(s)
    BY <1>5, <2>1
  <2>. QED
    BY <1>3, <2>1, <2>2 DEF EnrolShape
<1>8. ASSUME NEW r \in rites, NEW answer, CeremonyDone(r, answer) PROVE EnrolShape'
  <2>1. /\ UNCHANGED <<flow, method, creating, words>>
        /\ \/ rites' = rites \ {r} /\ collected' = r.with
           \/ Advance(r, "finish") /\ UNCHANGED collected
    BY <1>8 DEF CeremonyDone
  <2>2. collected' \in Sources \cup {None}
    BY <1>2, <2>1 DEF EnrolRite, EnrolShape
  <2>3. \A s \in rites' : s \in rites \/ EnrolRite(s)
    BY <1>4, <2>1
  <2>. QED
    BY <1>3, <2>1, <2>2, <2>3 DEF EnrolShape
<1>9. ASSUME NEW r \in rites, Finished(r) PROVE EnrolShape'
  <2>1. /\ UNCHANGED <<flow, method, creating, words>> /\ Advance(r, "after")
        /\ collected' \in {None, collected}
    BY <1>9 DEF Finished
  <2>2. \A s \in rites' : s \in rites \/ EnrolRite(s)
    BY <1>4, <2>1
  <2>. QED
    BY <1>3, <2>1, <2>2 DEF EnrolShape
<1>10. ASSUME NEW r \in rites, RiteEnds(r) PROVE EnrolShape'
  <2>1. /\ rites' = rites \ {r} /\ UNCHANGED <<flow, method, collected, words>>
        /\ creating' \in {FALSE, creating}
    BY <1>10 DEF RiteEnds, RiteFails, Refetch, CreateFails, ImportEnds, Created, Settled,
       PhraseVerified
  <2>. QED
    BY <2>1 DEF EnrolShape
<1>11. ASSUME NEW m \in DOMAIN FirstOf, ChooseMethod(m) PROVE EnrolShape'
  BY <1>11 DEF ChooseMethod, Goes, EnrolShape
<1>12. CASE BackFromName \/ BackToMethods \/ BackFromNewPasskey \/ NameNewPasskey
  <2>1. UNCHANGED <<flow, rites, creating, collected, words>> /\ method' \in {"none", method}
    BY <1>12 DEF BackFromName, BackToMethods, BackFromNewPasskey, NameNewPasskey, Goes
  <2>. QED
    BY <2>1 DEF EnrolShape
<1>13. CASE CollectPhrase
  BY <1>13 DEF CollectPhrase, Goes, EnrolShape, Sources
<1>14. CASE Create
  <2>1. /\ rites' = rites \cup {[of |-> "createAccount", with |-> collected, at |-> "finish"]}
        /\ UNCHANGED <<flow, method, collected, words>> /\ creating' = TRUE
        /\ collected \in Sources
    BY <1>14 DEF Create, EnrolShape
  <2>2. \A s \in rites' : s \in rites \/ EnrolRite(s)
    BY <1>5, <2>1
  <2>. QED
    BY <1>3, <2>1, <2>2 DEF EnrolShape
<1>15. ASSUME NEW s, Walk(s) \/ StartOver(s) PROVE EnrolShape'
  <2>1. UNCHANGED <<flow, rites, creating, collected, method>> /\ words' \in {FALSE, words}
    BY <1>15 DEF Walk, StartOver, Goes
  <2>. QED
    BY <2>1 DEF EnrolShape
<1>16. CASE VerifyPhrase
  <2>1. /\ rites' = rites \cup {[of |-> "importRecoveryPhrase", with |-> Phrase, at |-> "verify"]}
        /\ UNCHANGED <<flow, method, collected, creating>> /\ words' = TRUE
    BY <1>16 DEF VerifyPhrase
  <2>2. \A s \in rites' : s \in rites \/ EnrolRite(s)
    BY <1>5, <2>1 DEF Sources
  <2>. QED
    BY <1>3, <2>1, <2>2 DEF EnrolShape
<1>17. ASSUME NEW same \in BOOLEAN, ImportPhrase(same) PROVE EnrolShape'
  <2>1. /\ \/ rites' = rites \cup {[of |-> "confirmPassword", with |-> Phrase, at |-> "finish"]}
           \/ UNCHANGED rites
        /\ UNCHANGED <<flow, method, collected, creating, words>>
    BY <1>17 DEF ImportPhrase
  <2>2. \A s \in rites' : s \in rites \/ EnrolRite(s)
    BY <1>5, <2>1 DEF Sources
  <2>. QED
    BY <1>3, <2>1, <2>2 DEF EnrolShape
<1>18. CASE UNCHANGED enrolVars
  BY <1>18 DEF enrolVars, EnrolShape
<1>. QED
  BY <1>6, <1>7, <1>8, <1>9, <1>10, <1>11, <1>12, <1>13, <1>14, <1>15, <1>16, <1>17, <1>18
  DEF EnrolNext

\* What the types of the drafts need beside DraftsKept: who is added is an owner,
\* who joins is a passkey of this wallet, and a threshold asked for is one.
WizardTyped(w) ==
    /\ Shaped(w, {"on", "you", "threshold", "owners", "loading", "known"})
    /\ w.you \in Owners \cup {NoOne} /\ w.owners \subseteq Owners

DraftCallTyped(c, m) ==
    /\ IsCall(c) /\ c.k \in 1 .. m /\ c.who \in Owners \cup {NoOne} /\ c.list \subseteq Owners
    /\ Adds(c) => c.who \in Owners
    /\ c.op = "join" => c.who \in Own
    /\ c.op = "threshold" => c.n \in 1 .. 2

DraftShape ==
    /\ WizardTyped(wizard) /\ made \in Nat
    /\ draft.members \subseteq Owners /\ draft.threshold \in 1 .. 2 /\ invites \subseteq Own
    /\ \A c \in calls : DraftCallTyped(c, made)

LEMMA DraftShapeStarts == DraftInit => DraftShape
<1>. SUFFICES ASSUME DraftInit PROVE DraftShape
  OBVIOUS
<1>1. draft.members \subseteq Owners /\ draft.threshold \in 1 .. 2 /\ invites \subseteq Own
  BY DEF DraftInit, Owners, Own
<1>2. WizardTyped(NoWizard)
  BY DEF WizardTyped, NoWizard, Shaped, Owners
<1>3. CASE wizard = NoWizard
  BY <1>1, <1>2, <1>3 DEF DraftInit, DraftShape
<1>4. CASE wizard # NoWizard
  <2>. DEFINE known == place = "multisigReviewDeploy"
              owners == draft.members
  <2>1. wizard = [NoWizard EXCEPT !.on = TRUE, !.you = "stored", !.owners = owners, !.known = known]
    BY <1>4 DEF DraftInit
  <2>2. owners \subseteq Owners
    BY <1>1
  <2>. HIDE DEF known, owners
  <2>3. WizardTyped(wizard)
    BY <2>1, <2>2 DEF WizardTyped, NoWizard, Shaped, Owners, Own
  <2>. QED
    BY <1>1, <2>3 DEF DraftInit, DraftShape
<1>. QED
  BY <1>3, <1>4

LEMMA DraftTyped == DraftsKept /\ DraftShape => DraftTypeOK
BY DEF DraftsKept, DraftShape, DraftTypeOK, WizardTyped, DraftCallTyped

\* What an answer leaves on the screens.
LEMMA SeesTyped ==
    ASSUME DraftShape, NEW c \in calls
    PROVE  WizardTyped(Sees(c))
<1>. DEFINE seen == [wizard EXCEPT !.owners = c.list]
            you == IF c.op = "enroll" THEN c.who
                   ELSE IF c.op = "remove" THEN (IF wizard.you = c.who THEN NoOne ELSE wizard.you)
                   ELSE IF wizard.you \in c.list THEN wizard.you
                   ELSE IF "stored" \in c.list THEN "stored" ELSE NoOne
            told == [seen EXCEPT !.you = you]
<1>1. WizardTyped(wizard) /\ c.list \subseteq Owners /\ c.who \in Owners \cup {NoOne}
  BY DEF DraftShape, DraftCallTyped
<1>2. you \in Owners \cup {NoOne}
  BY <1>1 DEF WizardTyped, Owners, Own
<1>3. \/ Sees(c) \in {wizard, seen}
      \/ Sees(c) = [seen EXCEPT !.on = TRUE]
      \/ Sees(c) = told
      \/ Sees(c) = [wizard EXCEPT !.threshold = c.n]
      \/ Sees(c) = [wizard EXCEPT !.loading = FALSE, !.known = TRUE]
  <2>1. wizard = [on |-> wizard.on, you |-> wizard.you, threshold |-> wizard.threshold,
                  owners |-> wizard.owners, loading |-> wizard.loading, known |-> wizard.known]
    BY <1>1 DEF WizardTyped, Shaped
  <2>2. CASE c.lost \/ c.op \in {"address", "threshold", "predict", "preview"}
    BY <2>2 DEF Sees
  <2>3. CASE ~c.lost /\ c.op = "create"
    BY <2>1, <2>3 DEF Sees
  <2>4. CASE ~c.lost /\ c.op = "enroll"
    BY <2>1, <2>4 DEF Sees
  <2>5. CASE ~c.lost /\ c.op = "remove"
    BY <2>1, <2>5 DEF Sees
  <2>6. CASE ~c.lost /\ c.op = "refresh"
    BY <2>1, <2>6 DEF Sees
  <2>7. CASE c.op \notin {"create", "enroll", "address", "remove", "refresh", "threshold", "predict",
                          "preview"}
    BY <2>7 DEF Sees
  <2>. QED
    BY <2>2, <2>3, <2>4, <2>5, <2>6, <2>7
<1>. HIDE DEF you
<1>4. WizardTyped(seen)
  BY <1>1 DEF WizardTyped, Shaped
<1>. HIDE DEF seen
<1>5. WizardTyped(told) /\ WizardTyped([seen EXCEPT !.on = TRUE])
  BY <1>2, <1>4 DEF WizardTyped, Shaped
<1>6. WizardTyped([wizard EXCEPT !.threshold = c.n])
      /\ WizardTyped([wizard EXCEPT !.loading = FALSE, !.known = TRUE])
  BY <1>1 DEF WizardTyped, Shaped
<1>. HIDE DEF told
<1>. QED
  BY <1>1, <1>3, <1>4, <1>5, <1>6

\* Calls go on, numbered below those made since.
LEMMA CallsTyped ==
    ASSUME DraftShape, made' \in Nat, made' >= made, WizardTyped(wizard'),
           draft'.members \subseteq Owners, draft'.threshold \in 1 .. 2, invites' \subseteq Own,
           \A c \in calls' : c \in calls \/ DraftCallTyped(c, made')
    PROVE  DraftShape'
<1>1. \A c \in calls : DraftCallTyped(c, made')
  BY DEF DraftShape, DraftCallTyped
<1>. QED
  BY <1>1 DEF DraftShape

LEMMA GoesTyped ==
    ASSUME DraftShape, NEW p, NEW w, WizardTyped(w), NEW left \in SUBSET calls, GoesTo(p, w, left),
           UNCHANGED <<draft, invites>>
    PROVE  DraftShape'
<1>. DEFINE away == Component(p) # Component(place)
            here == IF away THEN NoWizard ELSE w
            asks == IF p = place \/ made >= MaxDraftCalls THEN {} ELSE Effect(p, here)
            kept == IF away THEN {[c EXCEPT !.lost = TRUE] : c \in left} ELSE left
            new == {DraftCall(op, NoOne, 0, "sent", made + 1) : op \in asks}
<1>1. /\ calls' = kept \cup new /\ made' = made + Cardinality(asks)
      /\ wizard' = here \/ wizard' = [here EXCEPT !.loading = TRUE]
  BY DEF GoesTo
<1>2. made \in Nat /\ \A c \in calls : DraftCallTyped(c, made)
  BY DEF DraftShape
<1>3. asks = {} \/ \E op \in {"refresh", "predict", "preview", "hub"} : asks = {op}
  BY DEF Effect
<1>4. WizardTyped(here)
  BY DEF WizardTyped, NoWizard, Shaped, Owners
<1>. HIDE DEF asks, here
<1>5. /\ Cardinality(asks) \in {0, 1} /\ (asks # {} => Cardinality(asks) = 1)
  BY <1>3, FS_Singleton, FS_EmptySet
<1>6. made' \in Nat /\ made' >= made
  BY <1>1, <1>2, <1>5
<1>7. WizardTyped(wizard')
  BY <1>1, <1>4 DEF WizardTyped, Shaped
<1>8. ASSUME NEW d \in kept PROVE d \in calls \/ DraftCallTyped(d, made')
  <2>1. CASE away
    <3>1. PICK c \in left : d = [c EXCEPT !.lost = TRUE]
      BY <1>8, <2>1
    <3>2. DraftCallTyped(c, made')
      BY <1>2, <1>6 DEF DraftCallTyped
    <3>3. d = [op |-> c.op, who |-> c.who, n |-> c.n, at |-> c.at, list |-> c.list, lost |-> TRUE,
               k |-> c.k]
      BY <3>1, <3>2 DEF DraftCallTyped, IsCall
    <3>. QED
      BY <3>2, <3>3 DEF DraftCallTyped, IsCall, Adds
  <2>2. CASE ~away
    BY <1>8, <2>2
  <2>. QED
    BY <2>1, <2>2
<1>9. ASSUME NEW d \in new PROVE DraftCallTyped(d, made')
  <2>1. PICK op \in asks : d = DraftCall(op, NoOne, 0, "sent", made + 1)
    BY <1>9
  <2>2. op \in {"refresh", "predict", "preview", "hub"} /\ made' = made + 1
    BY <1>1, <1>3, <1>5, <2>1
  <2>. QED
    BY <1>2, <2>1, <2>2 DEF DraftCallTyped, DraftCall, IsCall, Adds
<1>. HIDE DEF kept, new
<1>10. \A c \in calls' : c \in calls \/ DraftCallTyped(c, made')
  BY <1>1, <1>8, <1>9
<1>. QED
  BY <1>6, <1>7, <1>10, CallsTyped DEF DraftShape

LEMMA DraftShapeKept == DraftsKept /\ DraftShape /\ [DraftNext]_draftVars => DraftShape'
<1>. SUFFICES ASSUME DraftsKept, DraftShape, [DraftNext]_draftVars PROVE DraftShape'
  OBVIOUS
<1>1. /\ WizardTyped(wizard) /\ made \in Nat /\ made >= made
      /\ draft.members \subseteq Owners /\ draft.threshold \in 1 .. 2 /\ invites \subseteq Own
      /\ \A c \in calls : DraftCallTyped(c, made)
  BY DEF DraftShape
<1>2. Own \subseteq Owners
  BY DEF Own, Owners
\* A call is begun, with whom it is about.
<1>3. ASSUME NEW op, NEW who \in Owners \cup {NoOne}, NEW n, NEW at, Starts(op, who, n, at),
             op \in {"enroll", "address", "join"} => who \in Owners,
             op = "join" => who \in Own, op = "threshold" => n \in 1 .. 2
      PROVE  DraftShape'
  <2>. DEFINE new == DraftCall(op, who, n, at, made + 1)
  <2>1. calls' = calls \cup {new} /\ made' = made + 1 /\ UNCHANGED <<draft, wizard, invites>>
    BY <1>3 DEF Starts
  <2>2. DraftCallTyped(new, made')
    BY <1>1, <1>3, <2>1 DEF DraftCallTyped, DraftCall, IsCall, Adds
  <2>. HIDE DEF new
  <2>. QED
    BY <1>1, <2>1, <2>2, CallsTyped
<1>4. ASSUME NEW p, Turn(p) PROVE DraftShape'
  BY <1>1, <1>4, GoesTyped DEF Turn
<1>5. CASE CreateDraft \/ AddByAddress \/ Poll \/ Deploy \/ AddExisting \/ OpenDeployed
  BY <1>3, <1>5 DEF CreateDraft, AddByAddress, Poll, Deploy, AddExisting, OpenDeployed, Owners
<1>6. ASSUME NEW who \in Own, AddPasskey(who) \/ Join(who) \/ ForgetInvite(who) PROVE DraftShape'
  BY <1>2, <1>3, <1>6 DEF AddPasskey, Join, ForgetInvite
<1>7. ASSUME NEW who \in Owners, RemoveMember(who) PROVE DraftShape'
  BY <1>3, <1>7 DEF RemoveMember
<1>8. ASSUME NEW n \in 1 .. 2, ChooseThreshold(n) PROVE DraftShape'
  BY <1>3, <1>8 DEF ChooseThreshold
<1>9. CASE (\E p \in Pages : OpenPage(p)) \/ Back \/ ContinueToThreshold
  BY <1>4, <1>9 DEF OpenPage, Back, ContinueToThreshold
<1>10. ASSUME NEW m \in SUBSET Owners, OthersChange(m) PROVE DraftShape'
  <2>1. draft'.members = m /\ draft'.threshold = draft.threshold
        /\ UNCHANGED <<wizard, calls, made, invites>>
    BY <1>10 DEF OthersChange, DraftsKept
  <2>. QED
    BY <1>1, <2>1, CallsTyped
\* A call that moved on in place, or is over; an invite is kept with it.
<1>11. ASSUME NEW c \in calls, NEW at PROVE DraftCallTyped([c EXCEPT !.at = at], made)
  BY <1>1 DEF DraftCallTyped, IsCall, Adds
<1>12. ASSUME NEW c \in calls, NEW w, WizardTyped(w),
              Stays(w, calls \ {c}) \/ \E at : Stays(w, MovedOn(c, at)),
              UNCHANGED draft, invites' \subseteq Own
       PROVE  DraftShape'
  BY <1>1, <1>11, <1>12, CallsTyped DEF Stays, MovedOn
<1>13. ASSUME NEW c \in calls, CeremonyMade(c) \/ KeepInvite(c) \/ Recheck(c) PROVE DraftShape'
  <2>1. c.op = "join" => c.who \in Own
    BY <1>1 DEF DraftCallTyped
  <2>2. /\ UNCHANGED draft /\ invites' \subseteq Own
        /\ Stays(wizard, calls \ {c}) \/ \E at : Stays(wizard, MovedOn(c, at))
    BY <1>1, <1>13, <2>1 DEF CeremonyMade, KeepInvite, Recheck, Own
  <2>. QED
    BY <1>1, <1>12, <2>2
<1>14. ASSUME NEW c \in calls, DraftAnswered(c) PROVE DraftShape'
  <2>1. WizardTyped(Sees(c))
    BY SeesTyped
  <2>2. UNCHANGED <<draft, invites>>
        /\ \/ Stays(Sees(c), calls \ {c}) \/ \E at : Stays(Sees(c), MovedOn(c, at))
           \/ \E p : GoesTo(p, Sees(c), calls \ {c})
    BY <1>14 DEF DraftAnswered
  <2>. HIDE DEF DraftShape
  <2>. QED
    BY <1>1, <1>12, <2>1, <2>2, GoesTyped
<1>15. ASSUME NEW c \in calls, Noted(c) \/ JoinSynced(c) PROVE DraftShape'
  BY <1>1, <1>15, GoesTyped DEF Noted, JoinSynced
<1>16. ASSUME NEW c \in calls, DraftCallFails(c) PROVE DraftShape'
  <2>. DEFINE known == wizard.known /\ c.op = "predict"
              w == [wizard EXCEPT !.loading = FALSE, !.known = known]
  <2>1. UNCHANGED <<draft, invites>>
        /\ \/ Stays(wizard, calls \ {c}) \/ Stays(w, calls \ {c})
           \/ \E p : GoesTo(p, wizard, calls \ {c})
    BY <1>1, <1>16 DEF DraftCallFails, WizardTyped, Shaped
  <2>. HIDE DEF known
  <2>2. WizardTyped(w)
    BY <1>1 DEF WizardTyped, Shaped
  <2>. HIDE DEF w
  <2>. QED
    BY <1>1, <1>12, <2>1, <2>2, GoesTyped
<1>17. ASSUME NEW c \in calls, Acts(c) PROVE DraftShape'
  <2>. DEFINE answered == [c EXCEPT !.at = "answered"]
              next == [answered EXCEPT !.list = draft'.members]
  <2>1. calls' = (calls \ {c}) \cup {next} /\ UNCHANGED <<wizard, made>> /\ invites' \subseteq invites
    BY <1>17 DEF Acts
  <2>2. draft'.members \subseteq Owners /\ draft'.threshold \in 1 .. 2
    BY <1>1, <1>17 DEF Acts, DraftAfter, DraftCallTyped, DraftsKept
  <2>3. DraftCallTyped(answered, made)
    BY <1>11
  <2>. HIDE DEF answered
  <2>4. DraftCallTyped(next, made)
    BY <2>2, <2>3 DEF DraftCallTyped, IsCall, Adds
  <2>. HIDE DEF next
  <2>. QED
    BY <1>1, <2>1, <2>2, <2>4, CallsTyped
<1>18. CASE UNCHANGED draftVars
  BY <1>1, <1>18, CallsTyped DEF draftVars
<1>. QED
  BY <1>5, <1>6, <1>7, <1>8, <1>9, <1>10, <1>13, <1>14, <1>15, <1>16, <1>17, <1>18
  DEF DraftNext, CallMoves

\* What the types of the proposals need beside ProposalsKept: an outcome that is
\* stored is of a proposal.
TicketTyped(t) ==
    t.of \in ProposalIds /\ t.at \in {"sent", "window", "begin", "sign", "answered"}

OutcomeTyped(o) ==
    o.of \in ProposalIds \cup {NoId} /\ (o.status = "none" \/ o.of \in ProposalIds)

ProposalShape ==
    /\ ProposalTypeOK /\ OutcomeTyped(outcome) /\ DOMAIN proposal = ProposalIds
    /\ \A i \in ProposalIds : Shaped(proposal[i], {"sim", "mine", "others", "executed"})

LEMMA ProposalShapeStarts == ProposalInit => ProposalShape
<1>. SUFFICES ASSUME ProposalInit PROVE ProposalShape
  OBVIOUS
<1>. USE ProposalsAssumption
<1>1. \A t \in tickets : TicketTyped(t)
  BY DEF ProposalInit, Get, TicketTyped
<1>2. \A i \in ProposalIds : /\ Shaped(proposal[i], {"sim", "mine", "others", "executed"})
                             /\ proposal[i].sim \in 1 .. MaxVersions
  BY DEF ProposalInit, Shaped
<1>3. DOMAIN proposal = ProposalIds /\ acting \in BOOLEAN
  BY DEF ProposalInit
<1>4. linked \in ProposalIds \cup {NoId} /\ pageShown \in {"home", "detail"}
  BY DEF ProposalInit
<1>5. shownProposal.of = NoId /\ openId = NoId /\ OutcomeTyped(outcome)
  BY DEF ProposalInit, NotShown, NoOutcome, OutcomeTyped
<1>. QED
  BY <1>1, <1>2, <1>3, <1>4, <1>5 DEF ProposalShape, ProposalTypeOK, TicketTyped, OutcomeTyped

\* What the clicks and answers of the screen leave typed: the page, what it
\* shows and the calls, given that the proposals of the backend stand still.
LEMMA ScreenTyped ==
    ASSUME ProposalShape, UNCHANGED proposal,
           pageShown' \in {"home", "list", "detail", "closed"},
           shownProposal'.of \in ProposalIds \cup {NoId}, openId' \in ProposalIds \cup {NoId},
           linked' \in ProposalIds \cup {NoId}, acting' \in BOOLEAN,
           OutcomeTyped(outcome'),
           \A t \in tickets' : t \in tickets \/ TicketTyped(t)
    PROVE  ProposalShape'
BY DEF ProposalShape, ProposalTypeOK, TicketTyped, OutcomeTyped

LEMMA ProposalShapeKept ==
    ProposalsKept /\ ProposalShape /\ [ProposalNext]_proposalVars => ProposalShape'
<1>. SUFFICES ASSUME ProposalsKept, ProposalShape, [ProposalNext]_proposalVars
              PROVE  ProposalShape'
  OBVIOUS
<1>1. /\ pageShown \in {"home", "list", "detail", "closed"}
      /\ shownProposal.of \in ProposalIds \cup {NoId} /\ openId \in ProposalIds \cup {NoId}
      /\ linked \in ProposalIds \cup {NoId} /\ acting \in BOOLEAN
      /\ OutcomeTyped(outcome)
      /\ \A t \in tickets : TicketTyped(t) /\ IsTicket(t)
  BY DEF ProposalShape, ProposalTypeOK, TicketTyped, ProposalsKept
<1>2. \A i \in ProposalIds : TicketTyped(Get(i))
  BY DEF TicketTyped, Get
<1>3. ASSUME NEW t \in tickets, NEW at \in {"sent", "window", "begin", "sign", "answered"}
      PROVE  TicketTyped([t EXCEPT !.at = at])
  BY <1>1 DEF TicketTyped, IsTicket
<1>4. ASSUME NEW op, NEW of \in ProposalIds, NEW sim, NEW at \in {"sent", "window", "begin"},
             AsksFor(op, of, sim, at),
             UNCHANGED <<proposal, pageShown, shownProposal, openId, linked>>,
             OutcomeTyped(outcome')
      PROVE  ProposalShape'
  <2>. DEFINE new == [op |-> op, of |-> of, sim |-> sim, seen |-> shownProposal.of, at |-> at,
                      lost |-> FALSE]
  <2>1. tickets' = tickets \cup {new} /\ acting' = TRUE
    BY <1>4 DEF AsksFor
  <2>2. TicketTyped(new)
    BY DEF TicketTyped
  <2>. HIDE DEF new
  <2>. QED
    BY <1>1, <1>4, <2>1, <2>2, ScreenTyped
<1>5. CASE OpenList \/ BackToList
  BY <1>1, <1>5, ScreenTyped DEF OpenList, BackToList
<1>6. ASSUME NEW i \in ProposalIds, OpenProposal(i) PROVE ProposalShape'
  BY <1>1, <1>2, <1>6, ScreenTyped DEF OpenProposal
<1>7. ASSUME NEW to \in {"home", "closed"}, LeaveProposals(to) PROVE ProposalShape'
  <2>1. ASSUME NEW t \in tickets' PROVE TicketTyped(t)
    <3>1. PICK u \in tickets : t = [u EXCEPT !.lost = TRUE]
      BY <1>7, <2>1 DEF LeaveProposals, Left
    <3>. QED
      BY <1>1, <3>1 DEF TicketTyped, IsTicket
  <2>2. /\ shownProposal'.of = NoId /\ openId' = NoId /\ acting' = FALSE /\ pageShown' = to
        /\ linked' \in {NoId, linked} /\ UNCHANGED <<proposal, outcome>>
    BY <1>7 DEF LeaveProposals, NotShown
  <2>. QED
    BY <1>1, <2>1, <2>2, ScreenTyped
<1>8. CASE ClickApprove
  <2>1. Approves \in ProposalIds /\ OutcomeTyped(outcome')
    BY <1>1, <1>8 DEF ClickApprove, Approves, OutcomeTyped
  <2>. QED
    BY <1>4, <1>8, <2>1 DEF ClickApprove
<1>9. CASE ClickExecute
  BY <1>1, <1>4, <1>9 DEF ClickExecute
<1>10. CASE ClickRefresh
  BY <1>1, <1>4, <1>10 DEF ClickRefresh
<1>11. CASE ReopenPopup
  <2>1. OutcomeTyped(outcome') /\ (outcome.status \in {"success", "failure"} => outcome.of \in ProposalIds)
    BY <1>1, <1>11 DEF ReopenPopup, NoOutcome, OutcomeTyped
  <2>. QED
    BY <1>1, <1>2, <1>11, <2>1, ScreenTyped DEF ReopenPopup
<1>12. ASSUME NEW t \in tickets, PasskeySigned(t) \/ SeedSigned(t) PROVE ProposalShape'
  BY <1>1, <1>3, <1>12, ScreenTyped DEF PasskeySigned, SeedSigned, Moves, OnlyMoves
<1>13. ASSUME NEW t \in tickets, SeedGetsTemplate(t) PROVE ProposalShape'
  <2>. DEFINE v == [t EXCEPT !.at = "sign"]
              u == [v EXCEPT !.sim = proposal[t.of].sim]
  <2>1. v.of = t.of /\ v.at = "sign" /\ IsTicket(v)
    BY <1>1 DEF IsTicket
  <2>2. tickets' = (tickets \ {t}) \cup {u} /\ OnlyMoves
    BY <1>13 DEF SeedGetsTemplate
  <2>. HIDE DEF v
  <2>3. TicketTyped(u)
    BY <1>1, <2>1 DEF IsTicket, TicketTyped
  <2>. HIDE DEF u
  <2>. QED
    BY <1>1, <2>2, <2>3, ScreenTyped DEF OnlyMoves
\* The backend's proposals.
<1>14. ASSUME NEW i \in ProposalIds, NEW q, Shaped(q, {"sim", "mine", "others", "executed"}),
              q.sim \in 1 .. MaxVersions, proposal' = [proposal EXCEPT ![i] = q],
              UNCHANGED <<pageShown, shownProposal, openId, acting, linked, outcome>>,
              \A t \in tickets' : t \in tickets \/ TicketTyped(t)
       PROVE  ProposalShape'
  BY <1>1, <1>14 DEF ProposalShape, ProposalTypeOK, TicketTyped
<1>15. ASSUME NEW t \in tickets, BackendActs(t) PROVE ProposalShape'
  <2>. DEFINE p == proposal[t.of]
              fields == {"sim", "mine", "others", "executed"}
              sim == IF p.sim < MaxVersions THEN p.sim + 1 ELSE p.sim
  <2>1. t.of \in ProposalIds /\ Shaped(p, fields) /\ p.sim \in 1 .. MaxVersions
    BY <1>1 DEF TicketTyped, ProposalShape, ProposalTypeOK
  <2>2. sim \in 1 .. MaxVersions
    BY <2>1, ProposalsAssumption
  <2>3. /\ \E q \in {p, [p EXCEPT !.mine = TRUE], [p EXCEPT !.executed = TRUE],
                     [p EXCEPT !.sim = sim]} : proposal' = [proposal EXCEPT ![t.of] = q]
        /\ Moves(t, "answered")
        /\ UNCHANGED <<pageShown, shownProposal, openId, acting, linked, outcome>>
    BY <1>15 DEF BackendActs
  <2>. HIDE DEF p, sim
  <2>4. ASSUME NEW q \in {p, [p EXCEPT !.mine = TRUE], [p EXCEPT !.executed = TRUE],
                          [p EXCEPT !.sim = sim]}
        PROVE  Shaped(q, fields) /\ q.sim \in 1 .. MaxVersions
    BY <2>1, <2>2 DEF Shaped
  <2>5. \A u \in tickets' : u \in tickets \/ TicketTyped(u)
    BY <1>3, <2>3 DEF Moves
  <2>. QED
    BY <1>14, <2>1, <2>3, <2>4, <2>5
<1>16. ASSUME NEW i \in ProposalIds, OthersAct(i) PROVE ProposalShape'
  <2>. DEFINE p == proposal[i]
              fields == {"sim", "mine", "others", "executed"}
  <2>1. Shaped(p, fields) /\ p.sim \in 1 .. MaxVersions
    BY DEF ProposalShape, ProposalTypeOK
  <2>2. /\ \E q \in {[p EXCEPT !.others = TRUE], [p EXCEPT !.executed = TRUE]} :
             proposal' = [proposal EXCEPT ![i] = q]
        /\ UNCHANGED <<pageShown, shownProposal, openId, acting, linked, outcome, tickets>>
    BY <1>16 DEF OthersAct
  <2>. HIDE DEF p
  <2>3. ASSUME NEW q \in {[p EXCEPT !.others = TRUE], [p EXCEPT !.executed = TRUE]}
        PROVE  Shaped(q, fields) /\ q.sim \in 1 .. MaxVersions
    BY <2>1 DEF Shaped
  <2>. QED
    BY <1>14, <2>2, <2>3
<1>17. ASSUME NEW t \in tickets, NEW status
       PROVE  OutcomeTyped(OutcomeAfter(t, status))
  BY <1>1 DEF OutcomeAfter, NoOutcome, TicketTyped, OutcomeTyped
<1>18. ASSUME NEW t \in tickets, ProposalAnswered(t) PROVE ProposalShape'
  <2>1. t.of \in ProposalIds /\ Normalized(t.of).of = t.of
    BY <1>1 DEF TicketTyped, Normalized
  <2>2. /\ shownProposal' \in {shownProposal, Normalized(t.of)} /\ openId' \in {openId, t.of}
        /\ acting' = acting \/ acting' = (acting /\ t.lost)
        /\ tickets' \subseteq tickets \cup {Get(t.of)}
        /\ outcome' = OutcomeAfter(t, "success") /\ UNCHANGED <<pageShown, linked, proposal>>
    BY <1>18 DEF ProposalAnswered
  <2>3. acting' \in BOOLEAN
    BY <1>1, <2>2
  <2>. QED
    BY <1>1, <1>2, <1>17, <2>1, <2>2, <2>3, ScreenTyped
<1>19. ASSUME NEW t \in tickets, ProposalFails(t) PROVE ProposalShape'
  <2>1. /\ acting' = (acting /\ t.lost) /\ tickets' \subseteq tickets
        /\ outcome' = OutcomeAfter(t, "failure")
        /\ UNCHANGED <<pageShown, linked, proposal, openId, shownProposal>>
    BY <1>19 DEF ProposalFails
  <2>2. acting' \in BOOLEAN
    BY <1>1, <2>1
  <2>. QED
    BY <1>1, <1>17, <2>1, <2>2, ScreenTyped
<1>20. CASE UNCHANGED proposalVars
  BY <1>1, <1>20, ScreenTyped DEF proposalVars
<1>. QED
  BY <1>5, <1>6, <1>7, <1>8, <1>9, <1>10, <1>11, <1>12, <1>13, <1>15, <1>16, <1>18, <1>19, <1>20
  DEF ProposalNext, TicketMoves

LEMMA ProposalTyped == ProposalShape => ProposalTypeOK
BY DEF ProposalShape

\* What the types of the send flow need beside SendKept: past the choice of the
\* token and of the recipient there is one, and a Confirm under way is the only
\* one and keeps the summary on screen.
SendTyped(s) ==
    /\ s.step \in Steps /\ s.token \in SendTokens \cup {NoPick}
    /\ s.amount \in Nat /\ s.price \in Nat /\ s.to \in Payees \cup {NoPick}
    /\ s.step \notin {"away", "selectToken"} => s.token \in SendTokens
    /\ s.step \notin {"away", "selectToken", "selectRecipient"} => s.to \in Payees

AskTyped(a) ==
    /\ a.what \in {"price", "max"} => a.token \in SendTokens
    /\ a.what = "max" => a.amount \in Nat
    /\ a.what = "confirm" => /\ a.body = NoBody \/ a.body.to \in Payees
                             /\ a.at = "done" => a.body # NoBody

BookTyped(b) ==
    /\ b \in Seq(Payees) /\ Len(b) <= MaxBook
    /\ \A i, j \in 1 .. Len(b) : b[i] = b[j] => i = j

SendShape ==
    /\ SendTyped(send) /\ BookTyped(book)
    /\ \A a \in sendAsks : AskTyped(a) /\ (a.what = "confirm" => send.step = "summary" /\ send.sending)
    /\ \A a, b \in sendAsks : a.what = "confirm" /\ b.what = "confirm" => a = b

LEMMA SendShapeStarts == SendInit => SendShape
<1>. SUFFICES ASSUME SendInit PROVE SendShape
  OBVIOUS
<1>1. /\ send.step = "enterAmount" /\ send.token = FeeToken /\ send.amount = 0 /\ send.price = 0
      /\ send.to \in Payees
  BY DEF SendInit
<1>2. sendAsks = {ThisPrice(FeeToken)} /\ ThisPrice(FeeToken).what = "price"
      /\ ThisPrice(FeeToken).token = FeeToken
  BY DEF SendInit, ThisPrice
<1>3. BookTyped(book)
  BY SendAssumption DEF SendInit, BookTyped
<1>. QED
  BY <1>1, <1>2, <1>3, SendAssumption DEF SendShape, SendTyped, AskTyped, Steps

LEMMA SendIsTyped == SendKept /\ SendShape => SendTypeOK
<1>. SUFFICES ASSUME SendKept, SendShape PROVE SendTypeOK
  OBVIOUS
<1>1. \A a \in sendAsks : a.what \in {"price", "max", "estimate", "confirm"}
  BY DEF SendKept, AskKept, PriceKept, MaxKept, MaxShape, EstimateKept, EstimateShape, ConfirmShape
<1>2. \A i, j \in 1 .. Len(book) : book[i] \in Payees /\ (book[i] = book[j] => i = j)
  BY DEF SendShape, BookTyped
<1>. QED
  BY <1>1, <1>2 DEF SendShape, SendTyped, BookTyped, SendTypeOK

\* The head of the book moves others by one, and drops the last past the cap.
LEMMA SavedTyped ==
    ASSUME BookTyped(book), NEW to \in Payees
    PROVE  BookTyped(Saved(to))
<1>. DEFINE n == Len(book)
            k == Place(to)
            front == SubSeq(book, 1, k - 1)
            back == SubSeq(book, k + 1, n)
            rest == front \o back
            all == <<to>> \o rest
            cut == IF Len(rest) < MaxBook THEN Len(rest) + 1 ELSE MaxBook
<1>1. book \in Seq(Payees) /\ n \in Nat /\ MaxBook \in Nat /\ n <= MaxBook
      /\ \A i \in 1 .. n : book[i] \in Payees
  BY SendAssumption DEF BookTyped
<1>2. k \in 1 .. n + 1 /\ \A i \in 1 .. n : book[i] = to => i = k
  BY <1>1 DEF Place, BookTyped
<1>. HIDE DEF k
<1>3. front \in Seq(Payees) /\ Len(front) = k - 1 /\ \A i \in 1 .. k - 1 : front[i] = book[i]
  BY <1>1, <1>2
<1>4. back \in Seq(Payees) /\ Len(back) = (IF k < n THEN n - k ELSE 0)
      /\ \A i \in 1 .. Len(back) : back[i] = book[k + i]
  BY <1>1, <1>2
<1>. HIDE DEF front, back
<1>5. /\ rest \in Seq(Payees) /\ Len(rest) = Len(front) + Len(back)
      /\ \A i \in 1 .. Len(rest) : rest[i] = IF i <= k - 1 THEN front[i] ELSE back[i - (k - 1)]
  <2>1. rest \in Seq(Payees) /\ Len(rest) = Len(front) + Len(back)
    BY <1>3, <1>4
  <2>2. \A i \in 1 .. Len(front) + Len(back) :
            rest[i] = IF i <= Len(front) THEN front[i] ELSE back[i - Len(front)]
    BY <1>3, <1>4
  <2>. QED
    BY <1>3, <2>1, <2>2
<1>6. \A i \in 1 .. Len(rest) : rest[i] = book[IF i < k THEN i ELSE i + 1] /\ rest[i] # to
      /\ (IF i < k THEN i ELSE i + 1) \in 1 .. n
  BY <1>1, <1>2, <1>3, <1>4, <1>5
<1>7. \A i, j \in 1 .. Len(rest) : rest[i] = rest[j] => i = j
  <2>. SUFFICES ASSUME NEW i \in 1 .. Len(rest), NEW j \in 1 .. Len(rest), rest[i] = rest[j]
                PROVE  i = j
    OBVIOUS
  <2>. DEFINE p == IF i < k THEN i ELSE i + 1
              q == IF j < k THEN j ELSE j + 1
  <2>1. p \in 1 .. n /\ q \in 1 .. n /\ book[p] = book[q]
    BY <1>6
  <2>2. p = q
    BY <2>1 DEF BookTyped
  <2>. QED
    BY <1>1, <1>2, <2>2
<1>8. Len(rest) \in Nat /\ Len(rest) <= n
  BY <1>1, <1>2, <1>3, <1>4, <1>5
<1>. HIDE DEF rest
<1>9. /\ all \in Seq(Payees) /\ Len(all) = Len(rest) + 1 /\ all[1] = to
      /\ \A i \in 2 .. Len(all) : all[i] = rest[i - 1]
  BY <1>5
<1>10. \A i, j \in 1 .. Len(all) : all[i] = all[j] => i = j
  BY <1>6, <1>7, <1>8, <1>9
<1>11. cut \in 0 .. Len(all) /\ cut <= MaxBook
  BY <1>1, <1>8, <1>9
<1>. HIDE DEF all, cut
<1>12. /\ SubSeq(all, 1, cut) \in Seq(Payees) /\ Len(SubSeq(all, 1, cut)) = cut
       /\ \A i \in 1 .. cut : SubSeq(all, 1, cut)[i] = all[i]
  BY <1>9, <1>11
<1>13. Saved(to) = SubSeq(all, 1, cut)
  BY DEF Saved, all, cut, rest, front, back, k, n
<1>14. BookTyped(SubSeq(all, 1, cut))
  BY <1>10, <1>11, <1>12 DEF BookTyped
<1>. QED
  BY <1>13, <1>14

-----------------------------------------------------------------------------
\* Steps that leave the draft alone: the messages that are new are no Confirm.
LEMMA SendStays ==
    ASSUME SendShape, SendTyped(send'), send'.step = send.step, send'.sending = send.sending,
           BookTyped(book'),
           \A b \in sendAsks' : b \in sendAsks \/ (AskTyped(b) /\ b.what # "confirm")
    PROVE  SendShape'
BY DEF SendShape

LEMMA BecomesFields ==
    ASSUME NEW s, IsSend(s), NEW asks, NEW again \in BOOLEAN, Becomes(s, asks, again)
    PROVE  /\ send'.step = s.step /\ send'.token = s.token /\ send'.amount = s.amount
           /\ send'.price = s.price /\ send'.to = s.to /\ send'.sending = s.sending
<1>. DEFINE fresh == s.step = "summary" /\ (again \/ Changed(s))
            estimates == fresh /\ ~s.multi /\ Body(s) # NoBody
            t == [s EXCEPT !.maxing = @ /\ s.step = "enterAmount"]
            u == [t EXCEPT !.reviewed = NoBody, !.blocked = FALSE, !.setupFailed = FALSE,
                           !.estimating = estimates]
<1>1. send' = IF fresh THEN u ELSE t
  BY DEF Becomes
<1>. HIDE DEF estimates, fresh
<1>2. /\ IsSend(t) /\ t.step = s.step /\ t.token = s.token /\ t.amount = s.amount
      /\ t.price = s.price /\ t.to = s.to /\ t.sending = s.sending
  BY DEF IsSend, Shaped, SendFields
<1>. HIDE DEF t
<1>3. /\ u.step = s.step /\ u.token = s.token /\ u.amount = s.amount
      /\ u.price = s.price /\ u.to = s.to /\ u.sending = s.sending
  BY <1>2 DEF IsSend, Shaped, SendFields
<1>. HIDE DEF u
<1>. QED
  BY <1>1, <1>2, <1>3

\* The flow becomes a typed one, with a Confirm only if it keeps the summary.
LEMMA SendBecomesTyped ==
    ASSUME SendKept, SendShape, NEW s, IsSend(s), SendTyped(s), NEW asks \in SUBSET sendAsks,
           NEW again \in BOOLEAN, Becomes(s, asks, again), BookTyped(book'),
           \A c \in asks : c.what = "confirm" => s.step = "summary" /\ s.sending
    PROVE  SendShape'
<1>1. SendTyped(send') /\ send'.step = s.step /\ send'.sending = s.sending
  BY BecomesFields DEF SendTyped
<1>2. ASSUME NEW b \in sendAsks' PROVE b \in asks \/ (AskTyped(b) /\ b.what # "confirm")
  <2>1. CASE b = Estimate(Body(s))
    BY <2>1 DEF Estimate, AskTyped
  <2>2. CASE b = ThisPrice(s.token) /\ s.token # NoPick
    BY <2>2 DEF ThisPrice, AskTyped, SendTyped
  <2>3. ASSUME NEW a \in asks, a.what \in {"max", "estimate"}, b = [a EXCEPT !.live = FALSE]
        PROVE  AskTyped(b) /\ b.what # "confirm"
    <3>1. MaxShape(a) \/ EstimateShape(a)
      BY <2>3, MaxIsKept, EstimateIsKept DEF MaxKept, EstimateKept
    <3>2. b.what = a.what /\ (a.what = "max" => b.token = a.token /\ b.amount = a.amount)
      BY <2>3, <3>1 DEF MaxShape, EstimateShape, Shaped, MaxFields
    <3>. QED
      BY <2>3, <3>2 DEF SendShape, AskTyped
  <2>. QED
    BY <2>1, <2>2, <2>3, BecomesAsks
<1>. QED
  BY <1>1, <1>2 DEF SendShape

-----------------------------------------------------------------------------
\* The steps of the send flow.

LEMMA AfterFeeTyped ==
    ASSUME NEW token \in SendTokens, NEW fee \in Nat
    PROVE  AfterFee(token, fee) \in Nat
BY SendAssumption DEF AfterFee

LEMMA ProbesOnTyped ==
    ASSUME SendKept, SendShape, NEW a \in sendAsks, a.what = "max", NEW next, MaxShape(next),
           next.token = a.token, next.amount \in Nat, ProbesOn(a, next), UNCHANGED book
    PROVE  SendShape'
<1>. DEFINE at == next.at + (IF next.amount = 0 THEN 9 ELSE 1)
            b == [next EXCEPT !.at = at]
<1>1. send' = send /\ sendAsks' = (sendAsks \ {a}) \cup {b}
  BY DEF ProbesOn, MaxShape, Shaped, MaxFields
<1>. HIDE DEF at
<1>2. b.what = "max" /\ b.token = a.token /\ b.amount \in Nat
  BY DEF MaxShape, Shaped, MaxFields
<1>. HIDE DEF b
<1>3. AskTyped(b)
  BY <1>2 DEF SendShape, AskTyped
<1>. QED
  BY <1>1, <1>2, <1>3, SendStays DEF SendShape

LEMMA ProbeTyped ==
    ASSUME SendKept, SendShape, NEW a \in sendAsks, ProbeBuilt(a) \/ ProbePoor(a)
    PROVE  SendShape'
<1>1. /\ a.what = "max" /\ MaxShape(a) /\ a.fee \in Nat /\ a.token \in SendTokens
      /\ a.amount \in Nat /\ UNCHANGED book
  BY MaxIsKept DEF ProbeBuilt, ProbePoor, MaxKept, MaxCounts, SendShape, AskTyped
<1>2. CASE ProbeBuilt(a)
  <2>1. PICK fee \in Fees : LET next == Probed(a, fee)
                            IN  ProbesOn(a, next) \/ ProbesOn(a, [next EXCEPT !.at = 3])
    BY <1>2 DEF ProbeBuilt
  <2>2. fee \in Nat
    BY SendAssumption
  <2>. DEFINE next == Probed(a, fee)
              last == [next EXCEPT !.at = 3]
  <2>3. MaxShape(next) /\ next.token = a.token /\ next.amount \in {a.amount, AfterFee(a.token, fee)}
    BY <1>1 DEF Probed, MaxShape, Shaped, MaxFields
  <2>. HIDE DEF next
  <2>4. MaxShape(last) /\ last.token = a.token /\ last.amount = next.amount
    BY <2>3 DEF MaxShape, Shaped, MaxFields
  <2>. HIDE DEF last
  <2>5. next.amount \in Nat
    BY <1>1, <2>2, <2>3, AfterFeeTyped
  <2>. QED
    BY <1>1, <2>1, <2>3, <2>4, <2>5, ProbesOnTyped DEF next, last
<1>3. CASE ProbePoor(a)
  <2>. DEFINE none == [a EXCEPT !.amount = 0]
              twice == [a EXCEPT !.fee = 2 * @, !.amount = AfterFee(a.token, 2 * a.fee)]
  <2>1. ProbesOn(a, none) \/ ProbesOn(a, twice)
    BY <1>3 DEF ProbePoor
  <2>2. MaxShape(none) /\ none.token = a.token /\ none.amount = 0
    BY <1>1 DEF MaxShape, Shaped, MaxFields
  <2>3. MaxShape(twice) /\ twice.token = a.token /\ twice.amount = AfterFee(a.token, 2 * a.fee)
    BY <1>1 DEF MaxShape, Shaped, MaxFields
  <2>4. AfterFee(a.token, 2 * a.fee) \in Nat
    BY <1>1, AfterFeeTyped
  <2>. HIDE DEF none, twice
  <2>. QED
    BY <1>1, <2>1, <2>2, <2>3, <2>4, ProbesOnTyped
<1>. QED
  BY <1>2, <1>3

LEMMA MaxEndsTyped ==
    ASSUME SendKept, SendShape, NEW a \in sendAsks, a.what = "max", NEW changes \in BOOLEAN,
           MaxEnds(a, changes), UNCHANGED book
    PROVE  SendShape'
<1>. DEFINE s == [send EXCEPT !.maxing = @ /\ ~a.live]
            t == IF changes THEN [s EXCEPT !.amount = a.amount, !.usd = FALSE] ELSE s
<1>1. Becomes(t, sendAsks \ {a}, changes)
  BY DEF MaxEnds
<1>2. /\ IsSend(s) /\ s.step = send.step /\ s.token = send.token /\ s.price = send.price
      /\ s.amount = send.amount /\ s.to = send.to /\ s.sending = send.sending
  BY DEF SendKept, IsSend, Shaped, SendFields
<1>. HIDE DEF s
<1>3. /\ IsSend(t) /\ t.step = s.step /\ t.token = s.token /\ t.price = s.price
      /\ t.amount \in {s.amount, a.amount} /\ t.to = s.to /\ t.sending = s.sending
  BY <1>2 DEF IsSend, Shaped, SendFields
<1>. HIDE DEF t
<1>4. SendTyped(t)
  BY <1>2, <1>3 DEF SendShape, SendTyped, AskTyped
<1>. QED
  BY <1>1, <1>2, <1>3, <1>4, SendBecomesTyped DEF SendShape

LEMMA EstimatedTyped ==
    ASSUME SendKept, SendShape, NEW a, NEW s, IsSend(s), Estimated(a, s),
           s.step = send.step, s.token = send.token, s.price = send.price,
           s.amount = send.amount, s.to = send.to, s.sending = send.sending, UNCHANGED book
    PROVE  SendShape'
<1>. DEFINE t == [s EXCEPT !.estimating = FALSE]
<1>1. send' = (IF a.live THEN t ELSE send) /\ sendAsks' = sendAsks \ {a}
  BY DEF Estimated
<1>2. /\ t.step = s.step /\ t.token = s.token /\ t.price = s.price
      /\ t.amount = s.amount /\ t.to = s.to /\ t.sending = s.sending
  BY DEF IsSend, Shaped, SendFields
<1>. HIDE DEF t
<1>3. SendTyped(send') /\ send'.step = send.step /\ send'.sending = send.sending
  BY <1>1, <1>2 DEF SendShape, SendTyped
<1>. QED
  BY <1>1, <1>3, SendStays DEF SendShape

LEMMA EstimatesTyped ==
    ASSUME SendKept, SendShape, NEW a \in sendAsks,
           EstimateBuilt(a) \/ EstimateNeedsSetup(a) \/ SetupConfigures(a) \/ SetupFails(a)
             \/ EstimateRefused(a)
    PROVE  SendShape'
<1>. DEFINE s == [send EXCEPT !.reviewed = a.body]
            t == [send EXCEPT !.blocked = TRUE, !.setupFailed = TRUE]
            u(fee) == [send EXCEPT !.blocked = fee]
            Same(r) == /\ IsSend(r) /\ r.step = send.step /\ r.token = send.token
                       /\ r.price = send.price /\ r.amount = send.amount /\ r.to = send.to
                       /\ r.sending = send.sending
<1>1. Same(s) /\ Same(t) /\ \A fee : Same(u(fee))
  BY DEF SendKept, IsSend, Shaped, SendFields
<1>2. CASE EstimateNeedsSetup(a) \/ SetupConfigures(a)
  <2>1. /\ a.what = "estimate" /\ UNCHANGED <<send, book>>
        /\ \E at : sendAsks' = (sendAsks \ {a}) \cup {[a EXCEPT !.at = at]}
    BY <1>2 DEF EstimateNeedsSetup, SetupConfigures
  <2>2. EstimateShape(a)
    BY <2>1, EstimateIsKept DEF EstimateKept
  <2>3. \A at : [a EXCEPT !.at = at].what = "estimate"
    BY <2>1, <2>2 DEF EstimateShape, Shaped
  <2>4. \A at : AskTyped([a EXCEPT !.at = at])
    BY <2>3 DEF AskTyped
  <2>. QED
    BY <2>1, <2>3, <2>4, SendStays DEF SendShape
<1>3. CASE EstimateBuilt(a) \/ SetupFails(a) \/ EstimateRefused(a)
  <2>1. /\ Estimated(a, s) \/ Estimated(a, t) \/ \E fee \in BOOLEAN : Estimated(a, u(fee))
        /\ UNCHANGED book
    BY <1>3 DEF EstimateBuilt, SetupFails, EstimateRefused
  <2>. HIDE DEF s, t, u
  <2>. QED
    BY <1>1, <2>1, EstimatedTyped
<1>. QED
  BY <1>2, <1>3

LEMMA ConfirmTyped ==
    ASSUME SendKept, SendShape, NEW c \in sendAsks,
           Submits(c) \/ SendsBack(c) \/ ConfirmRefused(c) \/ LooksUpTrustline(c)
    PROVE  SendShape'
<1>1. /\ c.what = "confirm" /\ UNCHANGED <<send, book>>
      /\ \E at : ConfirmMoves(c, at) /\ (at = "done" => c.body # NoBody)
  BY DEF Submits, SendsBack, ConfirmRefused, LooksUpTrustline
<1>2. PICK at : ConfirmMoves(c, at) /\ (at = "done" => c.body # NoBody)
  BY <1>1
<1>. DEFINE b == [c EXCEPT !.at = at]
<1>3. ConfirmShape(c)
  BY <1>1, ConfirmIsKept
<1>4. b.what = "confirm" /\ b.at = at /\ b.body = c.body
  BY <1>1, <1>3 DEF ConfirmShape, Shaped
<1>5. sendAsks' = (sendAsks \ {c}) \cup {b}
  BY <1>2 DEF ConfirmMoves
<1>. HIDE DEF b
<1>6. AskTyped(b)
  BY <1>1, <1>2, <1>4 DEF SendShape, AskTyped
<1>. QED
  BY <1>1, <1>4, <1>5, <1>6 DEF SendShape

LEMMA SendAnsweredTyped ==
    ASSUME SendKept, SendShape, NEW c \in sendAsks, SendAnswered(c)
    PROVE  SendShape'
<1>. DEFINE s == [send EXCEPT !.sending = FALSE]
            next == IF c.at = "done" THEN "success" ELSE "failure"
            t == [s EXCEPT !.step = next]
<1>1. /\ c.what = "confirm"
      /\ IF c.at = "again" THEN Becomes(s, sendAsks \ {c}, TRUE)
         ELSE Becomes(t, sendAsks \ {c}, FALSE)
      /\ book' = IF c.at = "done" /\ ~send.multi THEN Saved(c.body.to) ELSE book
  BY DEF SendAnswered
<1>2. next \in {"success", "failure"}
  OBVIOUS
<1>. HIDE DEF next
<1>3. /\ IsSend(s) /\ s.step = send.step /\ s.token = send.token /\ s.price = send.price
      /\ s.amount = send.amount /\ s.to = send.to
  BY DEF SendKept, IsSend, Shaped, SendFields
<1>. HIDE DEF s
<1>4. /\ IsSend(t) /\ t.step = next /\ t.token = s.token /\ t.price = s.price
      /\ t.amount = s.amount /\ t.to = s.to
  BY <1>3 DEF IsSend, Shaped, SendFields
<1>. HIDE DEF t
<1>5. send.step = "summary" /\ SendTyped(s) /\ SendTyped(t)
  BY <1>1, <1>2, <1>3, <1>4 DEF SendShape, SendTyped, Steps
<1>6. BookTyped(book')
  BY <1>1, SavedTyped DEF SendShape, AskTyped
<1>7. \A d \in sendAsks \ {c} : d.what # "confirm"
  BY <1>1 DEF SendShape
<1>. QED
  BY <1>1, <1>3, <1>4, <1>5, <1>6, <1>7, SendBecomesTyped

LEMMA PriceAnsweredTyped ==
    ASSUME SendKept, SendShape, NEW a \in sendAsks, PriceAnswered(a)
    PROVE  SendShape'
<1>1. PICK p \in {0, UnitsPerUsd[a.token]} :
          Becomes([send EXCEPT !.price = p], sendAsks \ {a}, FALSE)
  BY DEF PriceAnswered
<1>. DEFINE s == [send EXCEPT !.price = p]
<1>2. p \in Nat
  BY SendAssumption DEF PriceAnswered, SendShape, AskTyped
<1>3. /\ IsSend(s) /\ s.step = send.step /\ s.token = send.token /\ s.price = p
      /\ s.amount = send.amount /\ s.to = send.to /\ s.sending = send.sending
  BY DEF SendKept, IsSend, Shaped, SendFields
<1>4. Becomes(s, sendAsks \ {a}, FALSE) /\ BookTyped(book')
  BY <1>1 DEF PriceAnswered, SendShape
<1>. HIDE DEF s
<1>5. SendTyped(s)
  BY <1>2, <1>3 DEF SendShape, SendTyped
<1>. QED
  BY <1>3, <1>4, <1>5, SendBecomesTyped DEF SendShape

\* A screen that has what it needs is opened, without a Confirm under way.
LEMMA GoToTyped ==
    ASSUME SendKept, SendShape, NEW target \in Steps, GoTo(target), UNCHANGED book,
           target \notin {"away", "selectToken"} => send.token \in SendTokens,
           target \notin {"away", "selectToken", "selectRecipient"} => send.to \in Payees,
           send.step # "summary" \/ ~send.sending
    PROVE  SendShape'
<1>. DEFINE s == [send EXCEPT !.step = target]
<1>1. /\ IsSend(s) /\ s.step = target /\ s.token = send.token /\ s.price = send.price
      /\ s.amount = send.amount /\ s.to = send.to
  BY DEF SendKept, IsSend, Shaped, SendFields
<1>2. Becomes(s, sendAsks, FALSE)
  BY DEF GoTo
<1>. HIDE DEF s
<1>3. SendTyped(s)
  BY <1>1 DEF SendShape, SendTyped
<1>. QED
  BY <1>1, <1>2, <1>3, SendBecomesTyped DEF SendShape

LEMMA EntersAmountTyped ==
    ASSUME SendKept, SendShape, NEW amount \in Nat, NEW usd, EntersAmount(amount, usd)
    PROVE  SendShape'
<1>. DEFINE s == [send EXCEPT !.amount = amount, !.usd = usd]
<1>1. /\ IsSend(s) /\ s.step = send.step /\ s.token = send.token /\ s.price = send.price
      /\ s.amount = amount /\ s.to = send.to /\ s.sending = send.sending
  BY DEF SendKept, IsSend, Shaped, SendFields
<1>2. Becomes(s, sendAsks, TRUE) /\ UNCHANGED book
  BY DEF EntersAmount
<1>. HIDE DEF s
<1>3. SendTyped(s)
  BY <1>1 DEF SendShape, SendTyped
<1>. QED
  BY <1>1, <1>2, <1>3, SendBecomesTyped DEF SendShape

LEMMA ResetTyped ==
    ASSUME SendKept, SendShape, NEW target \in {"away", "selectToken"}, send.step # "summary",
           Becomes([Reset(send) EXCEPT !.step = target], sendAsks, FALSE), UNCHANGED book
    PROVE  SendShape'
<1>. DEFINE r == Reset(send)
            s == [r EXCEPT !.step = target]
<1>1. IsSend(r) /\ r.price = 0 /\ r.amount = 0 /\ r.token = NoPick /\ r.to = NoPick
  BY DEF SendKept, IsSend, Shaped, SendFields, Reset
<1>. HIDE DEF r
<1>2. /\ IsSend(s) /\ s.step = target /\ s.price = 0 /\ s.amount = 0 /\ s.token = NoPick
      /\ s.to = NoPick
  BY <1>1 DEF IsSend, Shaped, SendFields
<1>3. Becomes(s, sendAsks, FALSE)
  BY DEF r
<1>. HIDE DEF s
<1>4. SendTyped(s)
  BY <1>2 DEF SendTyped, Steps
<1>. QED
  BY <1>2, <1>3, <1>4, SendBecomesTyped DEF SendShape

LEMMA ClickMaxTyped == ASSUME SendKept, SendShape, ClickMax PROVE SendShape'
<1>1. send.step = "enterAmount" /\ send.token \in SendTokens
  BY DEF ClickMax, SendShape, SendTyped
<1>2. CASE send.multi
  BY <1>1, <1>2, EntersAmountTyped, SendAssumption DEF ClickMax
<1>3. CASE ~send.multi
  <2>. DEFINE b == [what |-> "max", token |-> send.token, to |-> send.to, at |-> 1,
                    amount |-> 0, fee |-> 0, top |-> 0, live |-> TRUE]
  <2>1. send' = [send EXCEPT !.maxing = TRUE] /\ sendAsks' = sendAsks \cup {b} /\ UNCHANGED book
    BY <1>3 DEF ClickMax
  <2>2. /\ send'.step = send.step /\ send'.token = send.token /\ send'.price = send.price
        /\ send'.amount = send.amount /\ send'.to = send.to /\ send'.sending = send.sending
    BY <2>1 DEF SendKept, IsSend, Shaped, SendFields
  <2>3. AskTyped(b) /\ b.what = "max"
    BY <1>1 DEF AskTyped
  <2>. HIDE DEF b
  <2>4. SendTyped(send')
    BY <2>2 DEF SendShape, SendTyped
  <2>. QED
    BY <2>1, <2>2, <2>3, <2>4, SendStays DEF SendShape
<1>. QED
  BY <1>2, <1>3

LEMMA ClickSendTyped == ASSUME SendKept, SendShape, ClickSend PROVE SendShape'
<1>1. send.step = "summary" /\ ~send.sending /\ UNCHANGED book
  BY DEF ClickSend
<1>2. \A a \in sendAsks : a.what # "confirm"
  BY <1>1 DEF SendShape
<1>3. CASE Becomes(send, sendAsks, TRUE)
  BY <1>1, <1>2, <1>3, SendBecomesTyped DEF SendKept, SendShape
<1>4. CASE /\ send' = [send EXCEPT !.sending = TRUE]
           /\ sendAsks' = sendAsks \cup {[what |-> "confirm", at |-> "sent", body |-> Body(send)]}
  <2>. DEFINE b == [what |-> "confirm", at |-> "sent", body |-> Body(send)]
  <2>1. /\ send'.step = send.step /\ send'.token = send.token /\ send'.price = send.price
        /\ send'.amount = send.amount /\ send'.to = send.to /\ send'.sending = TRUE
    BY <1>4 DEF SendKept, IsSend, Shaped, SendFields
  <2>2. SendTyped(send')
    BY <2>1 DEF SendShape, SendTyped
  <2>3. Body(send) = NoBody \/ Body(send).to \in Payees
    BY <1>1 DEF Body, SendShape, SendTyped
  <2>4. AskTyped(b) /\ b.what = "confirm" /\ sendAsks' = sendAsks \cup {b}
    BY <1>4, <2>3 DEF AskTyped
  <2>. HIDE DEF b
  <2>. QED
    BY <1>1, <1>2, <2>1, <2>2, <2>4 DEF SendShape
<1>. QED
  BY <1>3, <1>4 DEF ClickSend

LEMMA SendShapeKept == SendKept /\ SendShape /\ [SendNext]_sendVars => SendShape'
<1>. SUFFICES ASSUME SendKept, SendShape, [SendNext]_sendVars PROVE SendShape'
  OBVIOUS
<1>0. SendTyped(send)
  BY DEF SendShape
<1>1. ASSUME NEW a \in sendAsks, ProbeBuilt(a) \/ ProbePoor(a) PROVE SendShape'
  BY <1>1, ProbeTyped
<1>2. ASSUME NEW a \in sendAsks, ProbeFails(a) \/ MaxAnswered(a) PROVE SendShape'
  <2>. DEFINE later == a.at > 1
  <2>1. a.what = "max" /\ (MaxEnds(a, later) \/ MaxEnds(a, TRUE)) /\ UNCHANGED book
    BY <1>2 DEF ProbeFails, MaxAnswered
  <2>2. later \in BOOLEAN
    OBVIOUS
  <2>. HIDE DEF later
  <2>. QED
    BY <2>1, <2>2, MaxEndsTyped
<1>3. ASSUME NEW a \in sendAsks, SendMoves(a) PROVE SendShape'
  BY <1>1, <1>2, <1>3, PriceAnsweredTyped, EstimatesTyped, ConfirmTyped, SendAnsweredTyped
  DEF SendMoves
<1>4. CASE OpenSend \/ LeaveSend
  BY <1>4, ResetTyped DEF OpenSend, LeaveSend
<1>5. CASE SendBack
  <2>1. BackOfSend(send.step) \in {"selectToken", "selectRecipient", "enterAmount"}
        /\ (send.step = "selectRecipient" => BackOfSend(send.step) = "selectToken")
        /\ (send.step = "enterAmount" => BackOfSend(send.step) = "selectRecipient")
    BY <1>5 DEF SendBack, BackOfSend
  <2>. QED
    BY <1>0, <1>5, <2>1, GoToTyped DEF SendBack, SendTyped, Steps
<1>6. CASE ContinueToSummary \/ ViewReceipt \/ TryAgainToSend
  BY <1>0, <1>6, GoToTyped DEF ContinueToSummary, ViewReceipt, TryAgainToSend, SendTyped, Steps
<1>7. ASSUME NEW k \in SendTokens, SelectToken(k) PROVE SendShape'
  <2>. DEFINE s == [send EXCEPT !.token = k, !.step = "selectRecipient"]
  <2>1. /\ IsSend(s) /\ s.step = "selectRecipient" /\ s.token = k /\ s.price = send.price
        /\ s.amount = send.amount /\ s.to = send.to
    BY DEF SendKept, IsSend, Shaped, SendFields
  <2>2. Becomes(s, sendAsks, TRUE) /\ send.step = "selectToken" /\ UNCHANGED book
    BY <1>7 DEF SelectToken
  <2>. HIDE DEF s
  <2>3. SendTyped(s)
    BY <1>0, <2>1 DEF SendTyped, Steps
  <2>. QED
    BY <2>1, <2>2, <2>3, SendBecomesTyped DEF SendShape
<1>8. ASSUME NEW to \in Payees, SelectRecipient(to) PROVE SendShape'
  <2>. DEFINE s == [send EXCEPT !.to = to, !.step = "enterAmount"]
  <2>1. /\ IsSend(s) /\ s.step = "enterAmount" /\ s.token = send.token /\ s.price = send.price
        /\ s.amount = send.amount /\ s.to = to
    BY DEF SendKept, IsSend, Shaped, SendFields
  <2>2. Becomes(s, sendAsks, TRUE) /\ send.step = "selectRecipient" /\ UNCHANGED book
    BY <1>8 DEF SelectRecipient
  <2>. HIDE DEF s
  <2>3. SendTyped(s)
    BY <1>0, <2>1, <2>2 DEF SendTyped, Steps
  <2>. QED
    BY <2>1, <2>2, <2>3, SendBecomesTyped DEF SendShape
<1>9. ASSUME NEW n \in Typed, TypeAmount(n) \/ PresetUsd(n) PROVE SendShape'
  <2>1. n \in Nat /\ n * send.price \in Nat
    BY <1>0, SendAssumption DEF SendTyped
  <2>. QED
    BY <1>9, <2>1, EntersAmountTyped DEF TypeAmount, PresetUsd
<1>10. CASE ToggleMode
  <2>1. Units(send) \in Nat /\ (send.price > 0 => send.amount \div send.price \in Nat)
    BY <1>0 DEF SendTyped, Units
  <2>. QED
    BY <1>10, <2>1, EntersAmountTyped DEF ToggleMode
<1>11. CASE ClickMax \/ ClickSend
  BY <1>11, ClickMaxTyped, ClickSendTyped
<1>12. CASE UNCHANGED sendVars
  BY <1>12, SendStays DEF sendVars, SendShape
<1>. QED
  BY <1>3, <1>4, <1>5, <1>6, <1>7, <1>8, <1>9, <1>10, <1>11, <1>12 DEF SendNext

-----------------------------------------------------------------------------
\* The types of every service at once, with what they rest on.
ServicesShape ==
    /\ part \in Parts
    /\ BridgeKept /\ BridgeTypeOK
    /\ MigrationKept /\ MigrationShape
    /\ ReadsKept /\ ReadsShape
    /\ ActivityKept /\ ActivityShape
    /\ ApiKept /\ ApiShape
    /\ EnrolKept /\ EnrolShape
    /\ DraftsKept /\ DraftShape
    /\ ProposalsKept /\ ProposalShape
    /\ SendKept /\ SendShape

LEMMA BridgeTypedStarts == BridgeInit => BridgeTypeOK
<1>. SUFFICES ASSUME BridgeInit PROVE BridgeTypeOK
  OBVIOUS
<1>. QED
  BY BridgeStarts, BridgeAssumption DEF BridgeInit, BridgeKept, BridgeTypeOK

\* The screens, calls and answers of every service have their types in every
\* reachable state: a screen past the choice of a token has one, a stored
\* outcome is of a proposal, an option at hand is of a visit.
THEOREM ServicesTyped == ServicesSpec => []ServicesTypeOK
<1>1. ServicesInit => ServicesShape
  BY BridgeStarts, BridgeTypedStarts, MigrationStarts, MigrationShapeStarts, ReadsStarts,
     ReadsShapeStarts, ActivityStarts, ActivityShapeStarts, ApiStarts, ApiShapeStarts, EnrolStarts,
     EnrolShapeStarts, DraftsStart, DraftShapeStarts, ProposalsStart, ProposalShapeStarts,
     SendStarts, SendShapeStarts DEF ServicesInit, ServicesShape
<1>2. ServicesShape /\ [ServicesNext]_vars => ServicesShape'
  <2>. SUFFICES ASSUME ServicesShape, [ServicesNext]_vars PROVE ServicesShape'
    OBVIOUS
  <2>1. part' \in Parts
    BY DEF ServicesShape, ServicesNext, Only, vars
  <2>2. (BridgeKept /\ BridgeTypeOK)'
    BY BridgeOnly, BridgeKeeps, BridgeTyped DEF ServicesShape
  <2>3. (MigrationKept /\ MigrationShape)'
    BY MigrationOnly, MigrationKeeps, MigrationShapeKept DEF ServicesShape
  <2>4. (ReadsKept /\ ReadsShape)'
    BY ReadsOnly, ReadsKeeps, ReadsShapeKept DEF ServicesShape
  <2>5. (ActivityKept /\ ActivityShape)'
    BY ActivityOnly, ActivityKeeps, ActivityShapeKept DEF ServicesShape
  <2>6. (ApiKept /\ ApiShape)'
    BY ApiOnly, ApiKeeps, ApiShapeKept DEF ServicesShape
  <2>7. (EnrolKept /\ EnrolShape)'
    BY EnrolOnly, EnrolKeeps, EnrolShapeKept DEF ServicesShape
  <2>8. (DraftsKept /\ DraftShape)'
    BY DraftsOnly, DraftsKeep, DraftShapeKept DEF ServicesShape
  <2>9. (ProposalsKept /\ ProposalShape)'
    BY ProposalsOnly, ProposalsKeep, ProposalShapeKept DEF ServicesShape
  <2>10. (SendKept /\ SendShape)'
    BY SendingOnly, SendKeeps, SendShapeKept DEF ServicesShape
  <2>. QED
    BY <2>1, <2>2, <2>3, <2>4, <2>5, <2>6, <2>7, <2>8, <2>9, <2>10 DEF ServicesShape
<1>3. ServicesShape => ServicesTypeOK
  BY MigrationTyped, ReadsTyped, ActivityTyped, ApiTyped, EnrolTyped, DraftTyped, ProposalTyped,
     SendIsTyped DEF ServicesShape, ServicesTypeOK
<1>. QED
  BY <1>1, <1>2, <1>3, PTL DEF ServicesSpec
=============================================================================
