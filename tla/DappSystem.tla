----------------------------- MODULE DappSystem -----------------------------
(***************************************************************************)
(* DappApproval closed by the two sides that talk to it: the page's        *)
(* provider (scripts/inpage.ts through contents/providerBridgeRequest.ts)  *)
(* and the extension's own surfaces (ui/dapp/DappRouteViews.tsx), which    *)
(* list the live requests, decide the first and reject what they list when *)
(* they go away.                                                           *)
(***************************************************************************)
EXTENDS DappApproval

CONSTANTS
    Calls,       \* provider calls, each made at most once (bound)
    CallOrigin,  \* the origin of the page that makes a call
    CallOps,     \* the methods a call may use
    Impatient,   \* bound: the calls that may outlast their page's patience
    Toolbar,     \* the action popup: no tracked window
    MaxRestarts, \* bound: service-worker restarts in a behaviour
    NoClient

ASSUME CallOriginAssumption == CallOrigin \in [Calls -> Origins]
ASSUME CallOpsAssumption == CallOps \in [Calls -> SUBSET (DappOps \ {"DAPP_POLL_REQUEST_RESULT"})]

ASSUME ImpatientAssumption == Impatient \subseteq Calls
ASSUME MaxRestartsAssumption == MaxRestarts \in Nat

Surfaces == Windows \cup {Toolbar}

ASSUME ClientsAssumption == Calls \cap Surfaces = {} /\ NoClient \notin Calls \cup Surfaces

VARIABLES
    call,     \* the promise a page holds
    client,   \* who gets the answer of the handler in a slot
    ui,       \* a surface: open, the requests it lists, busy with a decision
    outbox,   \* rejections a surface sent as it went away (pagehide)
    removed,  \* closed windows whose onRemoved event is on its way
    \* history
    dismissed,  \* requests the user rejected, or that went down with a surface
    revoked,    \* consents given before a disconnect of their origin finished
    restarts    \* how often the service worker was restarted

sysVars == <<vars, call, client, ui, outbox, removed, dismissed, revoked, restarts>>

CallStates  == {"unsent", "sent", "polling", "asking", "done"}
CallRecords == [op : DappOps \cup {"none"}, st : CallStates, id : Ids \cup {0},
                result : Answers \cup {"timeout", "unreachable"}]
Closed      == [open |-> FALSE, shown |-> {}, busy |-> FALSE]

SysInit ==
    /\ Init
    /\ call = [c \in Calls |-> [op |-> "none", st |-> "unsent", id |-> 0, result |-> "none"]]
    /\ client = [t \in Tasks |-> NoClient]
    /\ ui = [s \in Surfaces |-> Closed]
    /\ outbox = {} /\ removed = {} /\ dismissed = {} /\ revoked = {} /\ restarts = 0

-----------------------------------------------------------------------------
(* The page and its bridge. *)
Send(c, t) ==
    \E op \in CallOps[c] :
        /\ call[c].st = "unsent"
        /\ DappCall(t, op, CallOrigin[c])
        /\ call' = [call EXCEPT ![c].op = op, ![c].st = "sent"]
        /\ client' = [client EXCEPT ![t] = c]
        /\ UNCHANGED <<ui, outbox, removed, dismissed, revoked, restarts>>

\* One turn of pollDappRequestResult.
Ask(c, t) ==
    /\ call[c].st = "polling"
    /\ Poll(t, CallOrigin[c], call[c].id)
    /\ call' = [call EXCEPT ![c].st = "asking"]
    /\ client' = [client EXCEPT ![t] = c]
    /\ UNCHANGED <<ui, outbox, removed, dismissed, revoked, restarts>>

Settled(c, r) == [call EXCEPT ![c].st = "done", ![c].result = r]

\* The bridge on the answer a: poll on while the request is pending, else settle.
Heard(c, a, i) ==
    CASE call[c].st = "sent" /\ a = "pending"   ->
              [call EXCEPT ![c].st = "polling", ![c].id = i]
      [] call[c].st = "asking" /\ a = "pending" -> [call EXCEPT ![c].st = "polling"]
      [] call[c].st \in {"sent", "asking"} /\ a # "pending" -> Settled(c, a)
      [] OTHER                                  -> call

Deliver(t) ==
    LET k == client[t] IN
    /\ Reply(t)
    /\ client' = [client EXCEPT ![t] = NoClient]
    /\ call' = IF k \in Calls THEN Heard(k, task[t].ret, task[t].id) ELSE call
    /\ ui' = IF k \in Surfaces
             THEN IF task[t].op = "LIST_PENDING_DAPP_REQUESTS"
                  THEN [ui EXCEPT ![k].shown = task[t].todo, ![k].busy = FALSE]
                  ELSE ui
             ELSE ui
    /\ revoked' = IF task[t].op = "DAPP_DISCONNECT"
                  THEN revoked \cup {i \in userApproved : request[i].origin = task[t].origin}
                  ELSE revoked
    /\ UNCHANGED <<outbox, removed, dismissed, restarts>>

\* inpage.ts's and the bridge's 120 s, which a wedged handler runs into.
Timeout(c) ==
    /\ c \in Impatient
    /\ call[c].st \in {"sent", "polling", "asking"}
    /\ call' = Settled(c, "timeout")
    /\ UNCHANGED <<vars, client, ui, outbox, removed, dismissed, revoked, restarts>>

-----------------------------------------------------------------------------
(* The surfaces. *)
OpenToolbar ==
    /\ ~ui[Toolbar].open
    /\ ui' = [ui EXCEPT ![Toolbar] = [Closed EXCEPT !.open = TRUE]]
    /\ UNCHANGED <<vars, call, client, outbox, removed, dismissed, revoked, restarts>>

UiSends(s, t) ==
    /\ ui[s].open
    /\ client' = [client EXCEPT ![t] = s]
    /\ UNCHANGED <<call, outbox, removed, revoked, restarts>>

\* loadPendingDapp, on mount and on every change of the rows: it asks when what
\* it shows is not what is live.
LoadPending(s, t) ==
    /\ ui[s].shown # LiveIds(store)
    /\ ListPending(t)
    /\ UiSends(s, t) /\ UNCHANGED <<ui, dismissed>>

\* The user decides the first request a surface shows, and presses no second
\* button before the list is fresh again (bound on the user's pace).
Deciding(s, i) ==
    /\ "DECIDE" \in Ops
    /\ ~ui[s].busy /\ \A t \in Tasks : client[t] # s
    /\ i \in ui[s].shown /\ \A j \in ui[s].shown : i <= j

Decide(s, t) ==
    \E i \in Ids, yes \in BOOLEAN :
        /\ Deciding(s, i)
        /\ Resolve(t, i, yes)
        /\ UiSends(s, t)
        /\ ui' = [ui EXCEPT ![s].busy = TRUE]
        /\ dismissed' = IF yes THEN dismissed ELSE dismissed \cup {i}

\* confirmExternalSign
Confirm(s, t) ==
    \E i \in Ids :
        /\ Deciding(s, i)
        /\ Execute(t, i)
        /\ UiSends(s, t)
        /\ ui' = [ui EXCEPT ![s].busy = TRUE]
        /\ UNCHANGED dismissed

\* The user closes the surface, or the toolbar popup loses the focus to the
\* passkey window: pagehide rejects every request it lists.
Hide(s) ==
    /\ "HIDE" \in Ops
    /\ ui[s].open
    /\ outbox' = outbox \cup ui[s].shown
    /\ ui' = [ui EXCEPT ![s] = Closed]
    /\ removed' = IF s \in Windows THEN removed \cup {s} ELSE removed
    /\ client' = [t \in Tasks |-> IF client[t] = s THEN NoClient ELSE client[t]]
    /\ dismissed' = dismissed \cup ui[s].shown
    /\ UNCHANGED <<vars, call, revoked, restarts>>

Dismiss(t) ==
    \E i \in outbox :
        /\ Resolve(t, i, FALSE)
        /\ outbox' = outbox \ {i}
        /\ UNCHANGED <<call, client, ui, removed, dismissed, revoked, restarts>>

WindowRemoved(t) ==
    \E w \in removed :
        /\ removed' = removed \ {w}
        /\ IF w \in tracked THEN WindowClosed(t, w) ELSE UNCHANGED vars
        /\ UNCHANGED <<call, client, ui, outbox, dismissed, revoked, restarts>>

-----------------------------------------------------------------------------
(* The service worker: the windows it opens show a surface, the ones it     *)
(* closes fire their pagehide, which rejects what they list: requests of    *)
(* other origins go down with the window of the one that was decided.       *)
\* What the sweep of a closed window found to reject, as it starts.
SweptBy(t) == IF At(t, "list") /\ task[t].op = "WINDOW_CLOSED" THEN ToReject(t) ELSE {}

Background(t) ==
    LET opened == tracked' \ tracked
        closed == tracked \ tracked'
    IN
    /\ Handle(t)
    /\ \A w \in opened : ~ui[w].open /\ w \notin removed
    /\ ui' = [s \in Surfaces |-> IF s \in opened THEN [Closed EXCEPT !.open = TRUE]
                                 ELSE IF s \in closed THEN Closed ELSE ui[s]]
    /\ outbox' = outbox \cup UNION {ui[s].shown : s \in closed}
    /\ dismissed' = dismissed \cup SweptBy(t) \cup UNION {ui[s].shown : s \in closed}
    /\ client' = [u \in Tasks |-> IF client[u] \in closed THEN NoClient ELSE client[u]]
    /\ UNCHANGED <<call, removed, revoked, restarts>>

\* A message to the old service worker fails: the bridge gives up on the call's
\* first message and polls on after that.
Dead(c) ==
    CASE call[c].st = "sent"   -> [call[c] EXCEPT !.st = "done", !.result = "unreachable"]
      [] call[c].st = "asking" -> [call[c] EXCEPT !.st = "polling"]
      [] OTHER                 -> call[c]

Restart ==
    /\ restarts < MaxRestarts /\ restarts' = restarts + 1
    /\ SwRestart
    /\ call' = [c \in Calls |-> Dead(c)]
    /\ client' = [t \in Tasks |-> NoClient]
    /\ ui' = [s \in Surfaces |-> [ui[s] EXCEPT !.busy = FALSE]]
    /\ UNCHANGED <<outbox, removed, dismissed, revoked>>

Outside ==
    /\ Tick \/ \E o \in Origins : CooldownOver(o)
    /\ UNCHANGED <<call, client, ui, outbox, removed, dismissed, revoked, restarts>>

SysNext ==
    \/ \E t \in Tasks :
         \/ \E c \in Calls : Send(c, t) \/ Ask(c, t)
         \/ \E s \in Surfaces : LoadPending(s, t) \/ Decide(s, t) \/ Confirm(s, t)
         \/ Dismiss(t) \/ WindowRemoved(t) \/ Background(t) \/ Deliver(t)
    \/ \E c \in Calls : Timeout(c)
    \/ \E s \in Surfaces : Hide(s)
    \/ OpenToolbar \/ Restart \/ Outside

SysSpec == SysInit /\ [][SysNext]_sysVars

\* Fairness: a handler whose await completed is resumed, an answer and a poll
\* are delivered (Chrome queues every message, so a poll gets its slot in the
\* end), time passes.  Nothing is assumed of the user.
Fairness ==
    /\ \A t \in Tasks : WF_sysVars(Background(t)) /\ WF_sysVars(Deliver(t))
    /\ \A c \in Calls : SF_sysVars(\E t \in Tasks : Ask(c, t))
    /\ WF_sysVars(Tick /\ Outside)

FairSpec == SysSpec /\ Fairness

-----------------------------------------------------------------------------
(* Properties. *)
SysTypeOK ==
    /\ TypeOK
    /\ call \in [Calls -> CallRecords]
    /\ client \in [Tasks -> Calls \cup Surfaces \cup {NoClient}]
    /\ ui \in [Surfaces -> [open : BOOLEAN, shown : SUBSET Ids, busy : BOOLEAN]]
    /\ outbox \subseteq Ids /\ removed \subseteq Windows
    /\ dismissed \subseteq Ids /\ revoked \subseteq Ids /\ restarts \in 0..MaxRestarts

Asks(c, op) == call[c].op = op /\ call[c].id # 0

\* A page hears "connected" only if the user approved a connect request of its
\* origin, through closed windows, timeouts and service-worker restarts.
ConnectedIsEarned ==
    \A c \in Calls : call[c].result = "connected" => Consented(CallOrigin[c])

\* A page hears "signed" only if the transaction of this very call was signed
\* and submitted, whatever surface went away or service worker died meanwhile.
SignedIsEarned ==
    \A c \in Calls :
        call[c].result = "signed" =>
            /\ call[c].id \in signed
            /\ request[call[c].id] = [origin |-> CallOrigin[c], kind |-> "externalSignReview"]

\* A page that is told its connect request was rejected has a user who rejected
\* it, or a surface that went away and took it along, or disconnected itself: an
\* expiry, a lost row, a restart of the service worker or the disconnect of
\* another page is never reported as a rejection.
OnlyTheUserRejects ==
    \A c \in Calls :
        (Asks(c, "DAPP_GET_PUBLIC_KEY") /\ call[c].result = "rejected") =>
            \/ call[c].id \in dismissed
            \/ \E d \in Calls : call[d].op = "DAPP_DISCONNECT" /\ CallOrigin[d] = CallOrigin[c]

\* A page whose signature request was signed and submitted is never told that
\* the request was rejected.
SignedIsReported ==
    \A c \in Calls :
        (Asks(c, "DAPP_SIGN_TRANSACTION") /\ call[c].id \in signed) =>
            call[c].result # "rejected"

\* Disconnecting takes back every consent the user gave before it: a later
\* grant rests on an approval the disconnect did not revoke.
DisconnectRevokes ==
    [][\A o \in permissions' \ permissions :
          \E i \in userApproved \ revoked : request[i].origin = o]_sysVars

\* Every connect or signature promise is settled, whether or not the user ever
\* answers: an unanswered row expires and the poll finds out.
CallsSettle ==
    \A c \in Calls :
        (call[c].st # "unsent" /\ call[c].op # "DAPP_OPEN_SIGN_REQUEST") ~> call[c].st = "done"
=============================================================================
