--------------------------- MODULE ConfirmPipeline ---------------------------
(***************************************************************************)
(* Review, Confirm, sign, report: background/confirm/*, the builds the     *)
(* background holds for a review (reviewedBuildStore.ts), the one-time     *)
(* rule setup (tx/ensureContextRules.ts), the outcome record a destroyed   *)
(* popup comes back to (lib/walletOutcome.ts), and the send and swap       *)
(* screens that use them.                                                  *)
(*                                                                         *)
(* A request from a screen is a call.  One action is the code between two  *)
(* awaits; the passkey ceremony, the backend and the chain answer with one *)
(* of their possible outcomes.                                             *)
(***************************************************************************)
EXTENDS Integers, Sequences, FiniteSets, SequencesExt

CONSTANTS
    Drafts,      \* what a review can be about: send drafts and swap quotes
    Swaps,       \* the swap quotes among them
    Keys, KeyOf, \* coalescing key of a draft: coarser than the draft
    NoDraft,
    Surfaces,    \* the surfaces in use: "popup", "sidepanel"
    Fees,        \* maximum network fees the backend may ask; 0 is "no fee"
    Calls, NoCall,
    Seeded,      \* drafts of seed-phrase accounts; the others have a passkey
    MaxBuilds,   \* bound: builds the backend makes in a behaviour
    MaxEntries,  \* MAX_ENTRIES of the store
    BuildTTL,    \* REVIEWED_BUILD_TTL_MS, in ticks
    OutcomeTTL,  \* PENDING_WALLET_OUTCOME_TTL_MS, in ticks
    MaxTries,    \* attempts of the unreviewed loop
    Happens      \* which of Environment a run lets happen

Environment == {"TICK", "SW_RESTART", "CLOSE", "RULES_LOST"}

ASSUME DraftsAssumption == Swaps \subseteq Drafts /\ Seeded \subseteq Drafts /\ NoDraft \notin Drafts
ASSUME KeysAssumption   ==
    /\ KeyOf \in [Drafts -> Keys]
    /\ \A d, e \in Drafts : KeyOf[d] = KeyOf[e] => (d \in Swaps <=> e \in Swaps)
ASSUME CallsAssumption  == NoCall \notin Calls
ASSUME SurfacesAssumption == Surfaces \subseteq {"popup", "sidepanel"}
ASSUME BoundsAssumption ==
    /\ MaxBuilds \in Nat /\ MaxTries \in Nat /\ MaxEntries \in Nat \ {0}
    /\ BuildTTL \in Nat /\ OutcomeTTL \in Nat
    /\ Fees \subseteq Nat /\ Happens \subseteq Environment

VARIABLES
    \* the backend and the chain
    builds,    \* the builds made so far: their draft, maximum fee, age and
               \* whether the signer's rules were in place
    ruled,     \* drafts' kinds whose context rules are configured
    accepted,  \* <<call, build>>: submissions the network took
    \* chrome.storage.session
    held,      \* latch.reviewedBuilds: build ids, oldest first
    outcome,   \* latch.pendingWalletOutcome
    \* the service worker's memory
    building,  \* builds whose reply is still to come
    jobs,      \* the store's serial queue
    inflight,  \* confirm/inflight.ts: key -> the call that runs it
    setup,     \* inflightContextSetup: kinds being set up
    call,      \* the calls
    \* the screens
    screen,
    \* history
    signed,    \* <<call, build>>: signatures made
    gone       \* builds that left the store for a reason of the code

chain   == <<builds, ruled, accepted>>
worker  == <<building, jobs, inflight, setup>>
history == <<signed, gone>>
vars    == <<chain, held, outcome, worker, call, screen, history>>

Kinds    == {"send", "swap"}
Kind(d)  == IF d \in Swaps THEN "swap" ELSE "send"

BuildIds == 1..MaxBuilds
Made     == 1..Len(builds)
NoBuild  == 0
Valid(b) == builds[b].age <= BuildTTL          \* reviewedBuildStillValid
FeeOf(b) == IF b = NoBuild THEN 0 ELSE builds[b].fee

\* What a call can be doing.  "sent" to "reply" run in the service worker.
Running == {"take", "build", "setup", "sign", "submit", "finish", "reply"}
Pcs     == Running \cup {"idle", "sent", "shared", "replied", "done"}
Results == {"none", "success", "failure", "review_again"}
Reasons == {"none", "out_of_date", "fee_changed", "setup_needed", "rules", "other"}

CallRecords ==
    [pc : Pcs, op : {"confirm", "setup"}, surface : {"popup", "sidepanel"}, alive : BOOLEAN,
     draft : Drafts \cup {NoDraft}, shown : 0..MaxBuilds, build : 0..MaxBuilds,
     lead : Calls \cup {NoCall}, tries : 0..MaxTries, result : Results, why : Reasons]

IdleCall == [pc |-> "idle", op |-> "confirm", surface |-> "popup", alive |-> FALSE,
             draft |-> NoDraft, shown |-> NoBuild, build |-> NoBuild, lead |-> NoCall,
             tries |-> 0, result |-> "none", why |-> "none"]

\* closed: no such surface; opening: mounted, its effects not run; review: the
\* draft waits for an estimate; needs: the estimate asks for the one-time
\* setup; ready: the Confirm button is enabled; waiting: a call is out.
Modes == {"closed", "opening", "review", "estimating", "needs", "ready", "waiting"}
ScreenRecords ==
    [mode : Modes, draft : Drafts \cup {NoDraft}, reviewed : 0..MaxBuilds,
     estimate : 0..MaxBuilds, awaits : Calls \cup {NoCall}]
Closed == [mode |-> "closed", draft |-> NoDraft, reviewed |-> NoBuild,
           estimate |-> NoBuild, awaits |-> NoCall]

NoOutcome == [status |-> "none", draft |-> NoDraft, by |-> NoCall, age |-> 0]
OutcomeRecords ==
    [status : {"none", "in_progress", "success", "failure", "review_again"},
     draft : Drafts \cup {NoDraft}, by : Calls \cup {NoCall}, age : 0..(OutcomeTTL + 1)]
Written(c, status) ==
    [status |-> status, draft |-> call[c].draft, by |-> c, age |-> 0]

\* readPendingWalletOutcome: an expired record is read as none.
Fresh == outcome.status # "none" /\ outcome.age <= OutcomeTTL

-----------------------------------------------------------------------------
(* The screens *)

Set(s, m) == screen' = [screen EXCEPT ![s].mode = m]

\* The surface opens and its mount effects read the outcome record.
Open(s) ==
    /\ screen[s].mode = "closed"
    /\ screen' = [screen EXCEPT ![s] = [Closed EXCEPT !.mode = "opening"]]
    /\ UNCHANGED <<chain, held, outcome, worker, call, history>>

\* consumePendingWalletOutcomeIf: a settled record is removed and its draft
\* restored; "in_progress" is left where it is.
ConsumeOutcome(s) ==
    /\ screen[s].mode = "opening"
    /\ IF Fresh /\ outcome.status # "in_progress"
       THEN /\ outcome' = NoOutcome
            /\ screen' = [screen EXCEPT ![s].mode = "review", ![s].draft = outcome.draft]
       ELSE /\ outcome' = IF Fresh THEN outcome ELSE NoOutcome
            /\ Set(s, "review")
    /\ UNCHANGED <<chain, held, worker, call, history>>

\* The user picks or edits the draft; a running estimate is cancelled, a
\* running setup goes on without the screen.
ChooseDraft(s, d) ==
    /\ \/ screen[s].mode \in {"review", "needs", "ready", "estimating"}
       \/ screen[s].mode = "waiting" /\ call[screen[s].awaits].op = "setup"
    /\ screen[s].draft # d
    /\ screen' = [screen EXCEPT ![s] = [Closed EXCEPT !.mode = "review", !.draft = d]]
    /\ UNCHANGED <<chain, held, outcome, worker, call, history>>

\* BUILD_SEND_TX / PREPARE_SWAP_TX.  The backend makes the build; its age
\* counts from here.  A swap prepare may succeed without the rules and say so.
Estimate(s) ==
    /\ screen[s].mode = "review" /\ screen[s].draft # NoDraft
    /\ Len(builds) < MaxBuilds
    /\ \E f \in Fees :
         builds' = Append(builds, [draft |-> screen[s].draft, fee |-> f, age |-> 0,
                                   ok |-> Kind(screen[s].draft) \in ruled])
    /\ building' = building \cup {Len(builds')}
    /\ screen' = [screen EXCEPT ![s].mode = "estimating", ![s].reviewed = NoBuild,
                                ![s].estimate = Len(builds')]
    /\ UNCHANGED <<ruled, accepted, held, outcome, jobs, inflight, setup, call, history>>

\* The reply about build b reaches the screen still waiting for it.
Answer(b, to, reviewed) ==
    screen' = [s \in Surfaces |->
        IF screen[s].estimate = b
        THEN [screen[s] EXCEPT !.mode = to, !.estimate = NoBuild, !.reviewed = reviewed]
        ELSE screen[s]]

\* The build is held (the write is queued, not awaited) and the reply sent.  A
\* swap build that needs the rules is held too, but the screen sets them up.
BuildAnswered(b) ==
    /\ b \in building
    /\ builds[b].ok \/ builds[b].draft \in Swaps
    /\ building' = building \ {b}
    /\ jobs' = Append(jobs, [op |-> "save", build |-> b, call |-> NoCall,
                             read |-> FALSE, copy |-> <<>>])
    /\ IF builds[b].ok THEN Answer(b, "ready", b) ELSE Answer(b, "needs", NoBuild)
    /\ UNCHANGED <<chain, held, outcome, inflight, setup, call, history>>

\* The backend refuses: for missing rules, for the fee (Confirm stays off) or
\* for any other reason, which leaves the button on without a review.
BuildRefused(b) ==
    /\ b \in building
    /\ building' = building \ {b}
    /\ IF ~builds[b].ok THEN Answer(b, "needs", NoBuild)
       ELSE \E to \in {"ready", "review"} : Answer(b, to, NoBuild)
    /\ UNCHANGED <<chain, held, outcome, jobs, inflight, setup, call, history>>

\* The popup leaves "in_progress" before it sends; the side panel lives on and
\* reads the response.
Send(s, c, op) ==
    /\ call[c] = IdleCall
    /\ call' = [call EXCEPT ![c] =
          [IdleCall EXCEPT !.pc = "sent", !.op = op, !.surface = s, !.alive = TRUE,
                           !.draft = screen[s].draft, !.shown = screen[s].reviewed]]
    /\ screen' = [screen EXCEPT ![s].mode = "waiting", ![s].awaits = c]
    /\ outcome' = IF s # "popup" THEN outcome
                  ELSE [status |-> "in_progress", draft |-> screen[s].draft, by |-> c, age |-> 0]
    /\ UNCHANGED <<chain, held, worker, history>>

\* runSendRulesSetup / runSetup, when the estimate reports missing rules.
RunSetup(s, c) == screen[s].mode = "needs" /\ Send(s, c, "setup")

\* gateReviewed
Expired(s) == screen[s].reviewed # NoBuild /\ ~Valid(screen[s].reviewed)

\* handleSubmitSend / handleConfirmSwap past gateReviewed.
Confirm(s, c) ==
    /\ screen[s].mode = "ready"
    /\ ~Expired(s)
    /\ Send(s, c, "confirm")

\* gateReviewed: an old review is dropped and estimated again.
ConfirmExpired(s) ==
    /\ screen[s].mode = "ready"
    /\ Expired(s)
    /\ screen' = [screen EXCEPT ![s].mode = "review", ![s].reviewed = NoBuild]
    /\ UNCHANGED <<chain, held, outcome, worker, call, history>>

\* The response reaches the screen: every Confirm but a failed one clears the
\* record, a failed one in the popup writes it again; a setup clears its own.
HandleReply(c) ==
    /\ call[c].pc = "replied"
    /\ call' = [call EXCEPT ![c].pc = "done"]
    /\ LET s == call[c].surface
           here == screen[s].awaits = c
       IN /\ IF ~here THEN UNCHANGED screen
             ELSE \E to \in {"review", "ready"} :
                    /\ to = "ready" => call[c].op = "setup" /\ call[c].result = "failure"
                    /\ screen' = [screen EXCEPT ![s].mode = to, ![s].reviewed = NoBuild,
                                                ![s].awaits = NoCall]
          /\ outcome' =
                IF call[c].op = "setup"
                THEN IF s = "popup" THEN NoOutcome ELSE outcome
                ELSE IF call[c].result # "failure" THEN NoOutcome
                ELSE IF s = "popup" THEN Written(c, "failure") ELSE outcome
    /\ UNCHANGED <<chain, held, worker, history>>

-----------------------------------------------------------------------------
(* reviewedBuildStore.ts: a read-modify-write of one key, one job at a time *)

\* How a run ends: with a result for its callers and the reason for it.
Ends(c, result, why) ==
    call' = [call EXCEPT ![c].pc = "finish", ![c].result = result, ![c].why = why]
Refuses(c, why) == Ends(c, "review_again", why)
Fails(c)        == Ends(c, "failure", "other")

\* Variant: the jobs of the queue overlap.
TurnAny(i) == TRUE

\* serialized
Turn(i) == i = 1

StoreRead(i) ==
    /\ Turn(i) /\ ~jobs[i].read
    /\ jobs' = [jobs EXCEPT ![i].read = TRUE, ![i].copy = held]
    /\ UNCHANGED <<chain, held, outcome, building, inflight, setup, call, screen, history>>

\* Variant: a taken build stays in the store.
WithoutNone(entries, d) == entries

\* The entries among bs, in their order.
Kept(entries, bs) ==
    LET first[n \in 0..Len(entries)] ==
            IF n = 0 THEN <<>>
            ELSE IF entries[n] \in bs THEN Append(first[n - 1], entries[n]) ELSE first[n - 1]
    IN first[Len(entries)]

Live == {b \in Made : Valid(b)}
Without(entries, d) == Kept(entries, {b \in Made : builds[b].draft # d})
Newest(entries) ==
    SubSeq(entries, IF Len(entries) > MaxEntries THEN Len(entries) - MaxEntries + 1 ELSE 1,
           Len(entries))

\* Variant: neither limited in number nor one per draft.
SavedAlways(entries, b) == Kept(Append(entries, b), Live)

\* saveReviewedBuild: one entry per draft, the live ones, the newest of them.
Saved(entries, b) ==
    Newest(Kept(Append(Without(entries, builds[b].draft), b), Live))

StoreSave(i) ==
    /\ Turn(i) /\ jobs[i].read /\ jobs[i].op = "save"
    /\ held' = Saved(jobs[i].copy, jobs[i].build)
    /\ gone' = gone \cup ((Range(jobs[i].copy) \cup {jobs[i].build}) \ Range(held'))
    /\ jobs' = RemoveAt(jobs, i)
    /\ UNCHANGED <<chain, outcome, building, inflight, setup, call, screen, signed>>

\* Variant: a lower fee than shown needs no new review.
SameFeeOrLower(shown, b) == FeeOf(b) <= FeeOf(shown)

\* networkFeeEquals
SameFee(shown, b) == FeeOf(shown) = FeeOf(b)

\* takeReviewedBuild: the entry of exactly this draft is removed.  Its Confirm
\* signs it, or nothing: it is missing or old, its fee is not the one shown, or
\* it needs the rules.
StoreTake(i) ==
    /\ Turn(i) /\ jobs[i].read /\ jobs[i].op = "take"
    /\ LET c     == jobs[i].call
           entry == {b \in Range(jobs[i].copy) : builds[b].draft = call[c].draft}
       IN /\ held' = IF entry = {} THEN held ELSE Without(jobs[i].copy, call[c].draft)
          /\ gone' = gone \cup entry
          /\ IF \E b \in entry : Valid(b)
             THEN \E b \in entry :
                    IF ~SameFee(call[c].shown, b) THEN Refuses(c, "fee_changed")
                    ELSE IF call[c].draft \in Swaps /\ ~builds[b].ok
                    THEN Refuses(c, "setup_needed")
                    ELSE call' = [call EXCEPT ![c].pc = "sign", ![c].build = b]
             ELSE Refuses(c, "out_of_date")
    /\ jobs' = RemoveAt(jobs, i)
    /\ UNCHANGED <<chain, outcome, building, inflight, setup, screen, signed>>

-----------------------------------------------------------------------------
(* The service worker *)

\* Variant: only a run of the same surface is shared.
RunOfSurface(c) ==
    LET lead == inflight[KeyOf[call[c].draft]]
    IN IF lead # NoCall /\ call[lead].surface = call[c].surface THEN lead ELSE NoCall

\* The run under way for the key of call c.
RunOf(c) == inflight[KeyOf[call[c].draft]]

\* The message reaches its handler.  coalesce() shares one run per key;
\* withInflightContextSetup() shares one setup per kind of rule.
Arrive(c) ==
    /\ call[c].pc = "sent"
    /\ LET lead == RunOf(c)
       IN \/ /\ call[c].op = "setup"
             /\ call' = [call EXCEPT ![c].pc = "setup"]
             /\ setup' = setup \cup {Kind(call[c].draft)}
             /\ UNCHANGED <<inflight, jobs>>
          \/ /\ call[c].op = "confirm" /\ lead # NoCall
             /\ call' = [call EXCEPT ![c].pc = "shared", ![c].lead = lead]
             /\ UNCHANGED <<inflight, jobs, setup>>
          \/ /\ call[c].op = "confirm" /\ lead = NoCall
             /\ inflight' = [inflight EXCEPT ![KeyOf[call[c].draft]] = c]
             /\ IF call[c].shown # NoBuild
                THEN /\ call' = [call EXCEPT ![c].pc = "take"]
                     /\ jobs' = Append(jobs, [op |-> "take", build |-> NoBuild, call |-> c,
                                              read |-> FALSE, copy |-> <<>>])
                ELSE call' = [call EXCEPT ![c].pc = "build"] /\ UNCHANGED jobs
             /\ UNCHANGED setup
    /\ UNCHANGED <<chain, held, outcome, building, screen, history>>

\* Without a review the background builds itself, sets up missing rules, and
\* never signs a fee the user did not see.
Rebuild(c) ==
    /\ call[c].pc = "build" /\ call[c].tries < MaxTries
    /\ LET d == call[c].draft
       IN \/ /\ Fails(c)
             /\ UNCHANGED <<builds, setup>>
          \/ /\ Kind(d) \notin ruled
             /\ call' = [call EXCEPT ![c].pc = "setup", ![c].tries = @ + 1]
             /\ setup' = setup \cup {Kind(d)}
             /\ UNCHANGED builds
          \/ /\ Kind(d) \in ruled /\ Len(builds) < MaxBuilds
             /\ \E f \in Fees :
                  /\ builds' = Append(builds, [draft |-> d, fee |-> f, age |-> 0, ok |-> TRUE])
                  /\ IF f # 0 THEN Refuses(c, "fee_changed")
                     ELSE call' = [call EXCEPT ![c].pc = "sign", ![c].build = Len(builds')]
             /\ UNCHANGED setup
    /\ UNCHANGED <<ruled, accepted, held, outcome, building, jobs, inflight, screen, history>>

OutOfTries(c) ==
    /\ call[c].pc = "build" /\ call[c].tries = MaxTries
    /\ Fails(c)
    /\ UNCHANGED <<chain, held, outcome, worker, screen, history>>

\* The setup of kind k ends for everyone who waits for it.
SetupEnds(k) ==
    /\ k \in setup
    /\ setup' = setup \ {k}
    /\ \E result \in {"configured", "already_configured", "failed"}, thrown \in BOOLEAN :
         /\ result = "configured" => k \notin ruled
         /\ result = "already_configured" => k \in ruled
         \* a send whose error was not NO_CONTEXT_RULE is thrown again
         /\ thrown => result = "already_configured" /\ k = "send"
         /\ ruled' = IF result = "configured" THEN ruled \cup {k} ELSE ruled
         /\ call' = [c \in Calls |->
                IF call[c].pc # "setup" \/ Kind(call[c].draft) # k THEN call[c]
                ELSE IF call[c].op = "setup"
                THEN [call[c] EXCEPT !.pc = "finish",
                         !.result = IF result = "configured" THEN "success" ELSE "failure"]
                ELSE IF result = "failed" \/ thrown
                THEN [call[c] EXCEPT !.pc = "finish", !.result = "failure", !.why = "other"]
                ELSE [call[c] EXCEPT !.pc = "build"]]
    /\ UNCHANGED <<builds, accepted, held, outcome, building, jobs, inflight, screen, history>>

\* The passkey ceremony (or the seed signer) signs, or is dismissed or times out.
Sign(c) ==
    /\ call[c].pc = "sign"
    /\ \/ /\ signed' = signed \cup {<<c, call[c].build>>}
          /\ call' = [call EXCEPT ![c].pc = "submit"]
       \/ /\ Fails(c)
          /\ UNCHANGED signed
    /\ UNCHANGED <<chain, held, outcome, worker, screen, gone>>

\* The submission is taken (its response may still be lost), or refused.  A
\* refusal for missing rules keeps its code only on the seed signer's path:
\* signPasskeyPath rethrows every submit error as a plain Error.
Submit(c) ==
    /\ call[c].pc = "submit"
    /\ LET b == call[c].build
           k == Kind(call[c].draft)
       IN \/ /\ k \in ruled
             /\ accepted' = accepted \cup {<<c, b>>}
             /\ Ends(c, "success", "none") \/ Fails(c)
             /\ UNCHANGED setup
          \/ /\ Fails(c)
             /\ UNCHANGED <<accepted, setup>>
          \/ /\ k \notin ruled
             /\ IF call[c].draft \in Seeded /\ call[c].shown # NoBuild
                THEN Refuses(c, "setup_needed") /\ UNCHANGED setup
                ELSE IF call[c].draft \in Seeded \cap Swaps /\ call[c].tries < MaxTries
                THEN /\ call' = [call EXCEPT ![c].pc = "setup", ![c].tries = @ + 1]
                     /\ setup' = setup \cup {k}
                ELSE Ends(c, "failure", "rules") /\ UNCHANGED setup
             /\ UNCHANGED accepted
    /\ UNCHANGED <<builds, ruled, held, outcome, building, jobs, inflight, screen, history>>

\* Variant: a setup reports its own result as the draft's.
StatusForResult(c) == call[c].result

StatusFor(c) == IF call[c].op = "setup" THEN "review_again" ELSE call[c].result

\* finishOutcome: only the popup needs the record, and is opened again if it is
\* closed, unless Chrome refuses.  A setup settles it as "review_again", whether
\* it worked or not.
FinishOutcome(c) ==
    /\ call[c].pc = "finish"
    /\ call' = [call EXCEPT ![c].pc = "reply"]
    /\ IF call[c].surface = "popup"
       THEN /\ outcome' = Written(c, StatusFor(c))
            /\ \/ screen["popup"].mode = "closed" /\ Set("popup", "opening")
               \/ UNCHANGED screen
       ELSE UNCHANGED <<outcome, screen>>
    /\ UNCHANGED <<chain, held, worker, history>>

Answered(r, result) ==
    [r EXCEPT !.pc = IF r.alive THEN "replied" ELSE "done", !.result = result]

\* Variant: only the first caller is answered.
AwaitsRunFirst(x, c) == x = c

AwaitsRun(x, c) == x = c \/ (call[x].pc = "shared" /\ call[x].lead = c)

\* The promise settles: coalesce() forgets the run, everyone on it is answered.
Reply(c) ==
    /\ call[c].pc = "reply"
    /\ call' = [x \in Calls |->
                   IF AwaitsRun(x, c) THEN Answered(call[x], call[c].result) ELSE call[x]]
    /\ inflight' = [k \in Keys |-> IF inflight[k] = c THEN NoCall ELSE inflight[k]]
    /\ UNCHANGED <<chain, held, outcome, building, jobs, setup, screen, history>>

-----------------------------------------------------------------------------
(* What surrounds the program *)

\* The popup loses the focus (the passkey window takes it), a panel is closed.
Close(s) ==
    /\ "CLOSE" \in Happens
    /\ screen[s].mode # "closed"
    /\ screen' = [screen EXCEPT ![s] = Closed]
    /\ call' = [c \in Calls |->
                   IF call[c].surface # s \/ ~call[c].alive THEN call[c]
                   ELSE [call[c] EXCEPT !.alive = FALSE,
                                        !.pc = IF @ = "replied" THEN "done" ELSE @]]
    /\ UNCHANGED <<chain, held, outcome, worker, history>>

\* The service worker dies: its memory and its handlers are gone, the callers'
\* ports close, chrome.storage.session stays.
SwRestart ==
    /\ "SW_RESTART" \in Happens
    /\ building' = {} /\ jobs' = <<>> /\ setup' = {}
    /\ inflight' = [k \in Keys |-> NoCall]
    /\ call' = [c \in Calls |-> IF call[c].pc \in Running \cup {"shared"}
                                THEN Answered(call[c], "failure") ELSE call[c]]
    /\ screen' = [s \in Surfaces |->
                     IF screen[s].mode = "estimating"
                     THEN [screen[s] EXCEPT !.mode = "ready", !.estimate = NoBuild] ELSE screen[s]]
    /\ gone' = gone \cup {jobs[i].build : i \in {j \in DOMAIN jobs : jobs[j].op = "save"}}
    /\ UNCHANGED <<chain, held, outcome, signed>>

\* Someone else changes the account's rules on chain.
RulesLost(k) ==
    /\ "RULES_LOST" \in Happens
    /\ ruled' = ruled \ {k}
    /\ UNCHANGED <<builds, accepted, held, outcome, worker, call, screen, history>>

Older(age, ttl) == IF age > ttl THEN age ELSE age + 1
Tick ==
    /\ "TICK" \in Happens
    /\ builds' = [b \in DOMAIN builds |-> [builds[b] EXCEPT !.age = Older(@, BuildTTL)]]
    /\ outcome' = IF outcome.status = "none" THEN outcome
                  ELSE [outcome EXCEPT !.age = Older(@, OutcomeTTL)]
    /\ UNCHANGED <<ruled, accepted, held, worker, call, screen, history>>

-----------------------------------------------------------------------------
Init ==
    /\ builds = <<>> /\ ruled \in SUBSET {Kind(d) : d \in Drafts} /\ accepted = {}
    /\ held = <<>> /\ outcome = NoOutcome
    /\ building = {} /\ jobs = <<>> /\ setup = {}
    /\ inflight = [k \in Keys |-> NoCall]
    /\ call = [c \in Calls |-> IdleCall]
    /\ screen = [s \in Surfaces |-> Closed]
    /\ signed = {} /\ gone = {}

Screen(s) ==
    \/ Open(s) \/ ConsumeOutcome(s) \/ Estimate(s) \/ ConfirmExpired(s) \/ Close(s)
    \/ \E d \in Drafts : ChooseDraft(s, d)
    \/ \E c \in Calls : RunSetup(s, c) \/ Confirm(s, c)

Store(i) == StoreRead(i) \/ StoreSave(i) \/ StoreTake(i)

Handle(c) ==
    \/ Arrive(c) \/ Rebuild(c) \/ OutOfTries(c) \/ Sign(c) \/ Submit(c)
    \/ FinishOutcome(c) \/ Reply(c) \/ HandleReply(c)

Next ==
    \/ \E s \in Surfaces : Screen(s)
    \/ \E b \in BuildIds : BuildAnswered(b) \/ BuildRefused(b)
    \/ \E i \in DOMAIN jobs : Store(i)
    \/ \E c \in Calls : Handle(c)
    \/ \E k \in Kinds : SetupEnds(k) \/ RulesLost(k)
    \/ SwRestart \/ Tick

Spec == Init /\ [][Next]_vars

\* The event loop runs every handler it has; the ceremony times out after two
\* minutes, and the backend is taken to answer.  Nothing is assumed of the user.
Fairness ==
    /\ \A c \in Calls : WF_vars(Handle(c))
    /\ \A k \in Kinds : WF_vars(SetupEnds(k))
    /\ WF_vars(\E i \in DOMAIN jobs : Store(i))
FairSpec == Spec /\ Fairness

-----------------------------------------------------------------------------
(* Properties *)

TypeOK ==
    /\ builds \in Seq([draft : Drafts, fee : Fees, age : 0..(BuildTTL + 1), ok : BOOLEAN])
    /\ Len(builds) <= MaxBuilds
    /\ ruled \subseteq Kinds /\ setup \subseteq Kinds
    /\ accepted \subseteq Calls \X BuildIds /\ signed \subseteq Calls \X BuildIds
    /\ held \in Seq(BuildIds) /\ Len(held) <= MaxEntries
    /\ outcome \in OutcomeRecords
    /\ building \subseteq BuildIds /\ gone \subseteq BuildIds
    /\ jobs \in Seq([op : {"save", "take"}, build : 0..MaxBuilds, call : Calls \cup {NoCall},
                     read : BOOLEAN, copy : Seq(BuildIds)])
    /\ inflight \in [Keys -> Calls \cup {NoCall}]
    /\ call \in [Calls -> CallRecords]
    /\ screen \in [Surfaces -> ScreenRecords]

\* "A build is signed once": no two runs ever sign the same held build, whatever
\* saves and takes are queued, coalesced, or cut off by a restart.
SignedOnce == \A x, y \in signed : x[2] = y[2] => x[1] = y[1]

\* Confirm signs a build of exactly the draft on screen and with the fee on
\* screen; without a review it signs only a build that charges no fee.
SignedAsReviewed ==
    \A x \in signed : /\ builds[x[2]].draft = call[x[1]].draft
                      /\ builds[x[2]].fee = FeeOf(call[x[1]].shown)

\* "A later take (Confirm) always runs after" the save of the build on screen:
\* a Confirm is refused as out of date only when that build expired, was signed,
\* evicted or replaced, or its save died with the service worker.
RefusalIsEarned ==
    \A c \in Calls : call[c].why = "out_of_date" =>
        call[c].shown \in gone \/ ~Valid(call[c].shown)

\* "Share one run between concurrent callers of the same key": two runs of one
\* key are never under way together, so one click cannot sign twice.
OneRunPerKey ==
    \A c, e \in Calls :
        (c # e /\ call[c].op = "confirm" /\ call[e].op = "confirm"
         /\ call[c].pc \in Running /\ call[e].pc \in Running)
        => KeyOf[call[c].draft] # KeyOf[call[e].draft]

LeadOf(c) == IF call[c].lead = NoCall THEN c ELSE call[c].lead
Submitted(c) == {x[2] : x \in {y \in accepted : y[1] = LeadOf(c)}}

\* What is reported is true: "success" of a Confirm means the network took its
\* build, "review again" means nothing of it was submitted, and a success
\* record carries the draft that was sent.
ReportsAreTrue ==
    /\ \A c \in Calls : call[c].op = "confirm" =>
         /\ call[c].result = "success" => Submitted(c) # {}
         /\ call[c].result = "review_again" => Submitted(c) = {}
    /\ outcome.status = "success" =>
         \E b \in Submitted(outcome.by) : builds[b].draft = outcome.draft

\* Every request a screen sent is answered, or its screen is gone.
CallsEnd == \A c \in Calls : call[c].pc = "sent" ~> call[c].pc = "done"

\* Violated.  "Rules went missing since review: back to the summary, which sets
\* them up and re-prices": a reviewed Confirm whose submission is refused for
\* missing rules asks for a new review.
MissingRulesReviewAgain ==
    \A c \in Calls : (call[c].shown # NoBuild /\ call[c].why = "rules")
                     => call[c].result = "review_again"
=============================================================================
