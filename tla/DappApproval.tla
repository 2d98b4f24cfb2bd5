---------------------------- MODULE DappApproval ----------------------------
(***************************************************************************)
(* The service worker's half of dApp connect / sign approval:              *)
(* background/dapp/{requestState,approvalSession,handlers}.ts, the dApp    *)
(* part of background/storage.ts and confirm/executeDappSign.ts.           *)
(*                                                                         *)
(* A message handler is an async function.  It runs in a slot of `task',   *)
(* one action per stretch of code between two awaits.  Every operation of  *)
(* storage is "get, change the copy, set": the get is the action Read, and *)
(* the action that uses the copy writes it back, so whatever other         *)
(* handlers wrote in between is lost exactly as in the code.               *)
(***************************************************************************)
EXTENDS RequestState, FiniteSets

CONSTANTS
    Origins,     \* web origins (attested by the router)
    NoOrigin,    \* "no origin": the slot's or the id's origin is not known
    Windows,     \* ids of durable approval windows
    NoWindow,
    Tasks,       \* slots for message handlers running at the same time
    MaxBusy,     \* bound: handlers inside the service worker's code at once
    Ops          \* the message types and faults a run lets happen

ASSUME OriginsAssumption == NoOrigin \notin Origins
ASSUME WindowsAssumption == NoWindow \notin Windows

Requests == {"DAPP_GET_PUBLIC_KEY", "DAPP_OPEN_SIGN_REQUEST", "DAPP_SIGN_TRANSACTION"}
DappOps  == Requests \cup
            {"DAPP_DISCONNECT", "DAPP_PAGE_SESSION_START", "DAPP_POLL_REQUEST_RESULT"}
UiOps    == {"RESOLVE_PENDING_DAPP_REQUEST", "EXECUTE_DAPP_EXTERNAL_SIGN",
             "LIST_PENDING_DAPP_REQUESTS", "LOGOUT"}
HandlerOps == DappOps \cup UiOps \cup {"WINDOW_CLOSED"}
Kinds      == {"getPublicKey", "externalSignReview"}

Faults     == {"TICK", "DECIDE", "HIDE", "SW_RESTART", "BROWSER_RESTART"}

ASSUME OpsAssumption == Ops \subseteq (HandlerOps \cup Faults)

VARIABLES
    \* chrome.storage.session: survives a service-worker restart
    store,
    \* chrome.storage.local: survives a browser restart
    permissions,   \* origins that hold getPublicKey
    disconnected,  \* origins under the sticky disconnect
    \* memory of one service-worker generation
    resolvers,     \* pendingDappResolvers: ids with a registered resolver
    inflight,      \* inflightApprovals, getPublicKey entries: origin -> id or 0
    suppressed,    \* grantAccessSuppressedUntil: origins in their cooldown
    tracked,       \* approvalPopupWindowIds
    windowOf,      \* approvalWindowByOrigin
    task,          \* the running handlers
    \* the ids handed out, and the constant fields of their rows
    nextId,
    request,
    \* history
    userApproved,  \* connect requests the user pressed Approve on
    signed         \* sign requests whose transaction was signed and submitted

persistent == <<store, permissions, disconnected>>
memory     == <<resolvers, inflight, suppressed, tracked, windowOf>>
catalog    == <<nextId, request>>
history    == <<userApproved, signed>>
vars       == <<persistent, memory, task, catalog, history>>

-----------------------------------------------------------------------------
(* Where a handler can stand.  A pc in RowsPcs, PermsPcs or DiscPcs begins  *)
(* by reading that key: its action runs once the copy is there.             *)
RowsPcs  == {"find", "upsert", "list", "get", "resolve", "mark", "poll"}
PermsPcs == {"perms", "allow", "pollPerms", "grant", "forget"}
DiscPcs  == {"assert", "assertAgain", "markDisconnected", "unmark"}
WaitPcs  == {"idle", "waiting", "sign", "prepare"}
Pcs      == RowsPcs \cup PermsPcs \cup DiscPcs \cup WaitPcs \cup
            {"popup", "create", "close", "wake", "next", "clear", "wipe", "reply"}

Phases  == {"issue", "prune", "ready"}
Answers == {"none", "connected", "pending", "approved", "rejected", "expired", "signed",
            "not_connected", "not_found", "failed", "ok", "orphaned"}

TaskRecords ==
    [op : HandlerOps \cup {"idle"}, pc : Pcs, phase : Phases,
     origin : Origins \cup {NoOrigin}, id : Ids \cup {0}, yes : BOOLEAN,
     rows : Stores, perms : SUBSET Origins, disc : SUBSET Origins,
     todo : SUBSET Ids, ret : Answers]

Idle ==
    [op |-> "idle", pc |-> "idle", phase |-> "issue", origin |-> NoOrigin, id |-> 0,
     yes |-> FALSE, rows |-> EmptyStore, perms |-> {}, disc |-> {}, todo |-> {},
     ret |-> "none"]

\* The handler in slot t stands at p with the copy it asked for.
At(t, p) == task[t].pc = p /\ task[t].phase = "ready"

\* The slot's record when its handler moves to p: copies are dropped.
To(r, p) == [r EXCEPT !.pc = p, !.phase = IF p \in RowsPcs \cup PermsPcs \cup DiscPcs
                                          THEN "issue" ELSE "ready",
                      !.rows = EmptyStore, !.perms = {}, !.disc = {}]

Go(t, p)         == task' = [task EXCEPT ![t] = To(@, p)]
GoWith(t, p, i)  == task' = [task EXCEPT ![t] = [To(@, p) EXCEPT !.id = i]]
Answer(t, a)     == task' = [task EXCEPT ![t] = [To(@, "reply") EXCEPT !.ret = a]]

\* Handlers inside the service worker's own code.  MaxBusy bounds how many there
\* are when a handler starts or comes back from a wait on something outside.
Busy(u) == task[u].pc \notin WaitPcs
Room(t) == Cardinality({u \in Tasks \ {t} : Busy(u)}) < MaxBusy

\* Requests that have not taken their id yet: an id is kept for each of them.
Unnumbered(u) == task[u].op \in Requests /\ task[u].id = 0 /\ task[u].pc \notin {"idle", "waiting", "sign", "reply"}
IdLeft(t)     == nextId + Cardinality({u \in Tasks \ {t} : Unnumbered(u)}) <= MaxId

-----------------------------------------------------------------------------
Init ==
    /\ store = EmptyStore
    /\ permissions = {} /\ disconnected = {}
    /\ resolvers = {} /\ inflight = [o \in Origins |-> 0] /\ suppressed = {}
    /\ tracked = {} /\ windowOf = [o \in Origins |-> NoWindow]
    /\ task = [t \in Tasks |-> Idle]
    /\ nextId = 1
    /\ request = [i \in Ids |-> [origin |-> NoOrigin, kind |-> "getPublicKey"]]
    /\ userApproved = {} /\ signed = {}

-----------------------------------------------------------------------------
(* Message arrival: the router has pinned the origin and picked the handler. *)
Begin(t, op, p, o, i, yes) ==
    /\ op \in Ops
    /\ task[t].pc = "idle"
    /\ Room(t)
    /\ task' = [task EXCEPT ![t] = [To(Idle, p) EXCEPT !.op = op, !.origin = o, !.id = i,
                                                       !.yes = yes]]

FirstPc(op) ==
    CASE op \in Requests                 -> "perms"
      [] op = "DAPP_DISCONNECT"          -> "markDisconnected"
      [] op = "DAPP_PAGE_SESSION_START"  -> "unmark"
      [] op = "DAPP_POLL_REQUEST_RESULT" -> "poll"

DappCall(t, op, o) ==
    /\ op \in DappOps \ {"DAPP_POLL_REQUEST_RESULT"}
    /\ op \in Requests => IdLeft(t)
    /\ Begin(t, op, FirstPc(op), o, 0, FALSE)
    /\ UNCHANGED <<persistent, memory, catalog, history>>

Poll(t, o, i) ==
    /\ i < nextId
    /\ Begin(t, "DAPP_POLL_REQUEST_RESULT", "poll", o, i, FALSE)
    /\ UNCHANGED <<persistent, memory, catalog, history>>

\* RESOLVE_PENDING_DAPP_REQUEST.  Only Grant Access approves this way; a sign
\* review is confirmed by EXECUTE_DAPP_EXTERNAL_SIGN.
Resolve(t, i, yes) ==
    /\ i < nextId
    /\ yes => request[i].kind = "getPublicKey"
    /\ Begin(t, "RESOLVE_PENDING_DAPP_REQUEST", "get", NoOrigin, i, yes)
    /\ userApproved' = IF yes THEN userApproved \cup {i} ELSE userApproved
    /\ UNCHANGED <<persistent, memory, catalog, signed>>

Execute(t, i) ==
    /\ i < nextId
    /\ request[i].kind = "externalSignReview"
    /\ Begin(t, "EXECUTE_DAPP_EXTERNAL_SIGN", "mark", NoOrigin, i, FALSE)
    /\ UNCHANGED <<persistent, memory, catalog, history>>

ListPending(t) ==
    /\ Begin(t, "LIST_PENDING_DAPP_REQUESTS", "list", NoOrigin, 0, FALSE)
    /\ UNCHANGED <<persistent, memory, catalog, history>>

Logout(t) ==
    /\ Begin(t, "LOGOUT", "clear", NoOrigin, 0, FALSE)
    /\ UNCHANGED <<persistent, memory, catalog, history>>

\* chrome.windows.onRemoved for a window the service worker tracks: the
\* synchronous part, then rejectAllPendingDappRequests runs in a slot.
WindowClosed(t, w) ==
    /\ w \in tracked
    /\ Begin(t, "WINDOW_CLOSED", "list", NoOrigin, 0, FALSE)
    /\ tracked' = tracked \ {w}
    /\ windowOf' = [o \in Origins |-> IF windowOf[o] = w THEN NoWindow ELSE windowOf[o]]
    /\ suppressed' = suppressed \cup {o \in Origins : windowOf[o] = w}
    /\ UNCHANGED <<persistent, resolvers, inflight, catalog, history>>

-----------------------------------------------------------------------------
(* Storage reads, and the write expireStaleDappRequests makes when the sweep *)
(* changed something.                                                        *)
ReadRows(t) ==
    LET swept == Expire(store) IN
    /\ task[t].phase = "issue" /\ task[t].pc \in RowsPcs
    /\ task' = [task EXCEPT ![t].rows = swept,
                            ![t].phase = IF swept = store THEN "ready" ELSE "prune"]
    /\ UNCHANGED <<persistent, memory, catalog, history>>

Prune(t) ==
    /\ task[t].phase = "prune"
    /\ store' = task[t].rows
    /\ task' = [task EXCEPT ![t].phase = "ready"]
    /\ UNCHANGED <<permissions, disconnected, memory, catalog, history>>

ReadLocal(t) ==
    /\ task[t].phase = "issue"
    /\ \/ /\ task[t].pc \in PermsPcs
          /\ task' = [task EXCEPT ![t].perms = permissions, ![t].phase = "ready"]
       \/ /\ task[t].pc \in DiscPcs
          /\ task' = [task EXCEPT ![t].disc = disconnected, ![t].phase = "ready"]
    /\ UNCHANGED <<persistent, memory, catalog, history>>

-----------------------------------------------------------------------------
(* Connecting: DAPP_GET_PUBLIC_KEY and DAPP_OPEN_SIGN_REQUEST.               *)
CheckPermission(t) ==
    LET granted == task[t].origin \in task[t].perms IN
    /\ At(t, "perms")
    /\ IF task[t].op = "DAPP_SIGN_TRANSACTION"
       THEN IF granted THEN Go(t, "allow") ELSE Answer(t, "not_connected")
       ELSE IF granted
            THEN Answer(t, IF task[t].op = "DAPP_GET_PUBLIC_KEY" THEN "connected" ELSE "ok")
            ELSE Go(t, "assert")
    /\ UNCHANGED <<persistent, memory, catalog, history>>

\* assertDappConnectPromptAllowed, called by the handler and again by enqueue.
AssertPromptAllowed(t) ==
    LET o == task[t].origin IN
    /\ At(t, "assert") \/ At(t, "assertAgain")
    /\ IF o \in task[t].disc \cup suppressed
       THEN Answer(t, "not_connected")
       ELSE Go(t, IF task[t].pc = "assert" THEN "assertAgain" ELSE "find")
    /\ UNCHANGED <<persistent, memory, catalog, history>>

\* The handlers that wait, or will wait, on the current promise of request i.
Holds(u, i) ==
    /\ task[u].op = "DAPP_OPEN_SIGN_REQUEST"
    /\ task[u].id = i /\ task[u].ret = "none"

NewRequest(t, kind) ==
    /\ nextId <= MaxId
    /\ nextId' = nextId + 1
    /\ request' = [request EXCEPT ![nextId] = [origin |-> task[t].origin, kind |-> kind]]
    /\ resolvers' = resolvers \cup {nextId}
    /\ GoWith(t, "upsert", nextId)

\* enqueueDappApproval for getPublicKey, once findLiveDappRequest answered:
\* join the live request, or the in-flight one, or create a request.
Enqueue(t) ==
    LET o    == task[t].origin
        mine == {i \in LiveIds(task[t].rows) :
                    request[i] = [origin |-> o, kind |-> "getPublicKey"]}
    IN
    /\ At(t, "find")
    /\ \/ \E i \in mine :
            /\ \A j \in mine : i <= j
            /\ \/ /\ inflight[o] = i
                  /\ GoWith(t, "popup", i)
                  /\ UNCHANGED <<resolvers, inflight>>
               \/ /\ inflight[o] # i
                  /\ resolvers' = resolvers \cup {i}
                  /\ inflight' = [inflight EXCEPT ![o] = i]
                  /\ task' = [u \in Tasks |->
                        IF u = t THEN [To(task[t], "popup") EXCEPT !.id = i]
                        ELSE IF Holds(u, i) THEN [task[u] EXCEPT !.ret = "orphaned"]
                        ELSE task[u]]
            /\ UNCHANGED catalog
       \/ /\ mine = {} /\ inflight[o] # 0
          /\ GoWith(t, "popup", inflight[o])
          /\ UNCHANGED <<resolvers, inflight, catalog>>
       \/ /\ mine = {} /\ inflight[o] = 0
          /\ NewRequest(t, "getPublicKey")
          /\ inflight' = [inflight EXCEPT ![o] = nextId]
    /\ UNCHANGED <<persistent, suppressed, tracked, windowOf, history>>

\* upsertDappRequest: the new row goes into the copy, the copy into storage.
Upsert(t) ==
    /\ At(t, "upsert")
    /\ store' = Put(task[t].rows, task[t].id, "awaiting_user")
    /\ Go(t, "popup")
    /\ UNCHANGED <<permissions, disconnected, memory, catalog, history>>

\* What follows openApprovalPopup: getPublicKey and signTransaction answer with
\* the id to poll, openSignRequest awaits the in-memory promise.
Opened(t) ==
    IF task[t].op = "DAPP_OPEN_SIGN_REQUEST" THEN Go(t, "waiting") ELSE Answer(t, "pending")

\* openApprovalPopup: focus the origin's tracked window, else the toolbar popup
\* (not tracked), else try to create a durable window.
OpenPopup(t) ==
    /\ At(t, "popup")
    /\ \/ Opened(t)
       \/ windowOf[task[t].origin] = NoWindow /\ Go(t, "create")
    /\ UNCHANGED <<persistent, memory, catalog, history>>

CreateWindow(t) ==
    /\ At(t, "create")
    /\ Opened(t)
    /\ \/ \E w \in Windows \ tracked :
            /\ tracked' = tracked \cup {w}
            /\ windowOf' = [windowOf EXCEPT ![task[t].origin] = w]
       \/ UNCHANGED <<tracked, windowOf>>
    /\ UNCHANGED <<persistent, resolvers, inflight, suppressed, catalog, history>>

\* DAPP_OPEN_SIGN_REQUEST: its promise settled.
Decided(t) ==
    /\ At(t, "waiting") /\ Room(t)
    /\ \/ task[t].ret = "approved" /\ Go(t, "grant")
       \/ task[t].ret = "rejected" /\ Answer(t, "rejected")
    /\ UNCHANGED <<persistent, memory, catalog, history>>

\* setDappPermissions, which ends in clearDappOriginDisconnected.
Grant(t) ==
    /\ At(t, "grant")
    /\ permissions' = task[t].perms \cup {task[t].origin}
    /\ Go(t, "unmark")
    /\ UNCHANGED <<store, disconnected, memory, catalog, history>>

Unmark(t) ==
    LET o == task[t].origin IN
    /\ At(t, "unmark")
    /\ disconnected' = IF o \in task[t].disc THEN task[t].disc \ {o} ELSE disconnected
    /\ Answer(t, IF task[t].op = "DAPP_POLL_REQUEST_RESULT" THEN "connected" ELSE "ok")
    /\ UNCHANGED <<store, permissions, memory, catalog, history>>

-----------------------------------------------------------------------------
(* DAPP_SIGN_TRANSACTION: runExternalSignFlow checks the allow list, prepares *)
(* the transaction in the backend and enqueues the review.                    *)
CheckAllowed(t) ==
    /\ At(t, "allow")
    /\ IF task[t].origin \in task[t].perms THEN Go(t, "prepare") ELSE Answer(t, "not_connected")
    /\ UNCHANGED <<persistent, memory, catalog, history>>

Prepared(t) ==
    /\ At(t, "prepare") /\ Room(t)
    /\ NewRequest(t, "externalSignReview")
    /\ UNCHANGED <<persistent, inflight, suppressed, tracked, windowOf, history>>

PrepareFailed(t) ==
    /\ At(t, "prepare")
    /\ Answer(t, "failed")
    /\ UNCHANGED <<persistent, memory, catalog, history>>

-----------------------------------------------------------------------------
(* DAPP_POLL_REQUEST_RESULT *)
\* Variants: a rejected row is taken for an approved one; an expired row is
\* reported as rejected.
PollRowRejectedPasses(t) ==
    LET i      == task[t].id
        status == IF request[i].origin = task[t].origin THEN task[t].rows[i].status ELSE "none"
    IN
    /\ At(t, "poll")
    /\ CASE status = "none"         -> Answer(t, "not_found")
         [] status \in LiveStatuses -> Answer(t, "pending")
         [] status = "expired"      -> Answer(t, status)
         [] OTHER -> IF request[i].kind = "getPublicKey" THEN Go(t, "pollPerms")
                                                         ELSE Answer(t, "signed")
    /\ UNCHANGED <<persistent, memory, catalog, history>>

PollRowExpiredIsRejected(t) ==
    LET i      == task[t].id
        status == IF request[i].origin = task[t].origin THEN task[t].rows[i].status ELSE "none"
    IN
    /\ At(t, "poll")
    /\ CASE status = "none"                    -> Answer(t, "not_found")
         [] status \in LiveStatuses            -> Answer(t, "pending")
         [] status \in {"expired", "rejected"} -> Answer(t, "rejected")
         [] OTHER -> IF request[i].kind = "getPublicKey" THEN Go(t, "pollPerms")
                                                         ELSE Answer(t, "signed")
    /\ UNCHANGED <<persistent, memory, catalog, history>>

PollRow(t) ==
    LET i      == task[t].id
        status == IF request[i].origin = task[t].origin THEN task[t].rows[i].status ELSE "none"
    IN
    /\ At(t, "poll")
    /\ CASE status = "none"                  -> Answer(t, "not_found")
         [] status \in LiveStatuses          -> Answer(t, "pending")
         [] status \in {"expired", "rejected"} -> Answer(t, status)
         [] OTHER -> IF request[i].kind = "getPublicKey" THEN Go(t, "pollPerms")
                                                         ELSE Answer(t, "signed")
    /\ UNCHANGED <<persistent, memory, catalog, history>>

PollPermission(t) ==
    /\ At(t, "pollPerms")
    /\ IF task[t].origin \in task[t].perms THEN Answer(t, "connected") ELSE Go(t, "grant")
    /\ UNCHANGED <<persistent, memory, catalog, history>>

-----------------------------------------------------------------------------
(* Decisions: RESOLVE_PENDING_DAPP_REQUEST, EXECUTE_DAPP_EXTERNAL_SIGN and    *)
(* the two sweeps that reject, DAPP_DISCONNECT's and the closed window's.     *)
CloseWindowOf(o) ==
    IF o # NoOrigin /\ windowOf[o] # NoWindow
    THEN /\ tracked' = tracked \ {windowOf[o]}
         /\ windowOf' = [windowOf EXCEPT ![o] = NoWindow]
    ELSE UNCHANGED <<tracked, windowOf>>

\* The origin a row names, when there is a row.
OriginIn(t) == IF task[t].rows[task[t].id].status = "none" THEN task[t].origin
                                                           ELSE request[task[t].id].origin

\* getDappRequest, before the decision.
GetBefore(t) ==
    /\ At(t, "get")
    /\ task' = [task EXCEPT ![t] = [To(@, "resolve") EXCEPT !.origin = OriginIn(t)]]
    /\ UNCHANGED <<persistent, memory, catalog, history>>

\* What the waiters are told: an answered row keeps its answer.
Verdict(row, yes) ==
    IF (Terminal(row) /\ row.status = "approved") \/ (~Terminal(row) /\ yes)
    THEN "approved" ELSE "rejected"

\* resolveDappRequest: a live row takes the decision, any other keeps its own.
ResolveRow(t) ==
    LET i   == task[t].id
        row == task[t].rows[i]
    IN
    /\ At(t, "resolve")
    /\ store' = IF Decidable(row)
                THEN Put(task[t].rows, i, IF task[t].yes THEN "approved" ELSE "rejected")
                ELSE store
    /\ task' = [task EXCEPT ![t] =
                    [To(@, "wake") EXCEPT !.ret = Verdict(row, task[t].yes),
                                          !.origin = IF task[t].op \in UiOps
                                                     THEN OriginIn(t) ELSE task[t].origin]]
    /\ UNCHANGED <<permissions, disconnected, memory, catalog, history>>

\* Variant: nothing takes a settled promise out of the in-flight map.
InflightAfterSettlingKept(i) == inflight

\* registerInflight's finally: a settled promise leaves the in-flight map.
InflightAfterSettling(i) ==
    [o \in Origins |-> IF i \in resolvers /\ inflight[o] = i THEN 0 ELSE inflight[o]]

\* wakeResolver: the promise settles, its handlers go on and its in-flight
\* entry goes; then the caller's synchronous tail.
Wake(t) ==
    LET i    == task[t].id
        o    == task[t].origin
        mine == CASE task[t].op \in UiOps -> [To(task[t], "reply") EXCEPT !.ret = "ok"]
                  [] OTHER                -> [To(task[t], "next") EXCEPT !.ret = "none"]
    IN
    /\ At(t, "wake")
    /\ task' = [u \in Tasks |->
                  IF u = t THEN mine
                  ELSE IF i \in resolvers /\ Holds(u, i)
                       THEN [task[u] EXCEPT !.ret = task[t].ret] ELSE task[u]]
    /\ resolvers' = resolvers \ {i}
    /\ inflight' = InflightAfterSettling(i)
    /\ suppressed' = IF /\ task[t].op = "RESOLVE_PENDING_DAPP_REQUEST" /\ ~task[t].yes
                        /\ request[i].kind = "getPublicKey" /\ o # NoOrigin
                     THEN suppressed \cup {o} ELSE suppressed
    /\ IF task[t].op \in UiOps THEN CloseWindowOf(o) ELSE UNCHANGED <<tracked, windowOf>>
    /\ UNCHANGED <<persistent, catalog, history>>

\* executeDappSign: markDappRequestSigning, whose answer nobody looks at, then
\* sign and submit, then resolve.
MarkSigning(t) ==
    LET i == task[t].id IN
    /\ At(t, "mark")
    /\ store' = IF Live(task[t].rows[i]) THEN Put(task[t].rows, i, "signing") ELSE store
    /\ Go(t, "sign")
    /\ UNCHANGED <<permissions, disconnected, memory, catalog, history>>

SignSubmitted(t) ==
    /\ At(t, "sign") /\ Room(t)
    /\ signed' = signed \cup {task[t].id}
    /\ task' = [task EXCEPT ![t] = [To(@, "resolve") EXCEPT !.yes = TRUE]]
    /\ UNCHANGED <<persistent, memory, catalog, userApproved>>

\* Variant: the failed attempt resolves the row as approved.
SignFailedApproved(t) ==
    /\ At(t, "sign") /\ Room(t)
    /\ task' = [task EXCEPT ![t] = [To(@, "resolve") EXCEPT !.yes = TRUE]]
    /\ UNCHANGED <<persistent, memory, catalog, history>>

SignFailed(t) ==
    /\ At(t, "sign") /\ Room(t)
    /\ Go(t, "resolve")
    /\ UNCHANGED <<persistent, memory, catalog, history>>

\* DAPP_DISCONNECT: the sticky mark, the permission, the window, the sweep.
MarkDisconnected(t) ==
    LET o == task[t].origin IN
    /\ At(t, "markDisconnected")
    /\ disconnected' = IF o \in task[t].disc THEN disconnected ELSE task[t].disc \cup {o}
    /\ Go(t, "forget")
    /\ UNCHANGED <<store, permissions, memory, catalog, history>>

\* Variant: the permission outlives the disconnect.
ForgetNothing(t) ==
    /\ At(t, "forget")
    /\ Go(t, "close")
    /\ UNCHANGED <<persistent, memory, catalog, history>>

Forget(t) ==
    LET o == task[t].origin IN
    /\ At(t, "forget")
    /\ permissions' = IF o \in task[t].perms THEN task[t].perms \ {o} ELSE permissions
    /\ Go(t, "close")
    /\ UNCHANGED <<store, disconnected, memory, catalog, history>>

CloseWindow(t) ==
    /\ At(t, "close")
    /\ CloseWindowOf(task[t].origin)
    /\ Go(t, "list")
    /\ UNCHANGED <<persistent, resolvers, inflight, suppressed, catalog, history>>

\* Variant: a disconnect sweeps every origin's requests.
ToRejectAll(t) == LiveIds(task[t].rows)

\* What a sweep rejects: a disconnect the caller's live requests, a closed
\* window everybody's.
ToReject(t) ==
    {i \in LiveIds(task[t].rows) :
        task[t].op = "DAPP_DISCONNECT" => request[i].origin = task[t].origin}

\* listLiveDappRequests: the UI's list, or what a sweep is going to reject.
List(t) ==
    /\ At(t, "list")
    /\ IF task[t].op = "LIST_PENDING_DAPP_REQUESTS"
       THEN task' = [task EXCEPT ![t] = [To(@, "reply") EXCEPT !.todo = LiveIds(task[t].rows),
                                                               !.ret = "ok"]]
       ELSE task' = [task EXCEPT ![t] = [To(@, "next") EXCEPT !.todo = ToReject(t)]]
    /\ UNCHANGED <<persistent, memory, catalog, history>>

\* One turn of the sweep's loop, oldest request first.
RejectNext(t) ==
    /\ At(t, "next")
    /\ \E i \in task[t].todo :
         /\ \A j \in task[t].todo : i <= j
         /\ task' = [task EXCEPT ![t] = [To(@, "resolve") EXCEPT !.id = i, !.todo = task[t].todo \ {i}]]
         /\ inflight' = [o \in Origins |->
                IF /\ task[t].op = "DAPP_DISCONNECT" /\ o = task[t].origin
                   /\ request[i].kind = "getPublicKey"
                THEN 0 ELSE inflight[o]]
    /\ UNCHANGED <<persistent, resolvers, suppressed, tracked, windowOf, catalog, history>>

RejectDone(t) ==
    /\ At(t, "next") /\ task[t].todo = {}
    /\ IF task[t].op = "DAPP_DISCONNECT"
       THEN Answer(t, "ok") /\ UNCHANGED inflight
       ELSE Go(t, "clear") /\ inflight' = [o \in Origins |-> 0]
    /\ UNCHANGED <<persistent, resolvers, suppressed, tracked, windowOf, catalog, history>>

\* clearAllDappRequests: every row goes, terminal ones too.
ClearAll(t) ==
    /\ At(t, "clear")
    /\ store' = EmptyStore
    /\ IF task[t].op = "LOGOUT" THEN Go(t, "wipe") ELSE task' = [task EXCEPT ![t] = Idle]
    /\ UNCHANGED <<permissions, disconnected, memory, catalog, history>>

\* The dApp keys of clearSession.
Wipe(t) ==
    /\ At(t, "wipe")
    /\ permissions' = {} /\ disconnected' = {}
    /\ Answer(t, "ok")
    /\ UNCHANGED <<store, memory, catalog, history>>

\* sendResponse: the sender has its answer, the slot is free.
Reply(t) ==
    /\ At(t, "reply")
    /\ task' = [task EXCEPT ![t] = Idle]
    /\ UNCHANGED <<persistent, memory, catalog, history>>

-----------------------------------------------------------------------------
(* Time and faults. *)
Tick ==
    /\ "TICK" \in Ops
    /\ store' = Older(store)
    /\ task' = [t \in Tasks |-> [task[t] EXCEPT !.rows = Older(@)]]
    /\ UNCHANGED <<permissions, disconnected, memory, catalog, history>>

\* GRANT_ACCESS_COOLDOWN_MS passed.
CooldownOver(o) ==
    /\ o \in suppressed
    /\ suppressed' = suppressed \ {o}
    /\ UNCHANGED <<persistent, resolvers, inflight, tracked, windowOf, task, catalog,
                   history>>

ForgetMemory ==
    /\ resolvers' = {} /\ inflight' = [o \in Origins |-> 0] /\ suppressed' = {}
    /\ tracked' = {} /\ windowOf' = [o \in Origins |-> NoWindow]
    /\ task' = [t \in Tasks |-> Idle]

\* The browser stops the service worker; the next message starts a new one.
SwRestart ==
    /\ "SW_RESTART" \in Ops
    /\ ForgetMemory
    /\ UNCHANGED <<persistent, catalog, history>>

\* chrome.storage.session goes with the browser, chrome.storage.local stays.
BrowserRestart ==
    /\ "BROWSER_RESTART" \in Ops
    /\ ForgetMemory
    /\ store' = EmptyStore
    /\ UNCHANGED <<permissions, disconnected, catalog, history>>

-----------------------------------------------------------------------------
Dapp(t) ==
    \/ \E op \in DappOps, o \in Origins : DappCall(t, op, o)
    \/ \E o \in Origins, i \in Ids : Poll(t, o, i)

User(t) ==
    \/ \E i \in Ids, yes \in BOOLEAN : Resolve(t, i, yes)
    \/ \E i \in Ids : Execute(t, i)
    \/ ListPending(t) \/ Logout(t)
    \/ \E w \in Windows : WindowClosed(t, w)

\* Every step a running handler takes by itself.
Handle(t) ==
    \/ ReadRows(t) \/ Prune(t) \/ ReadLocal(t)
    \/ CheckPermission(t) \/ AssertPromptAllowed(t) \/ Enqueue(t) \/ Upsert(t)
    \/ OpenPopup(t) \/ CreateWindow(t) \/ Decided(t) \/ Grant(t) \/ Unmark(t)
    \/ CheckAllowed(t) \/ Prepared(t) \/ PrepareFailed(t)
    \/ PollRow(t) \/ PollPermission(t)
    \/ GetBefore(t) \/ ResolveRow(t) \/ Wake(t)
    \/ MarkSigning(t) \/ SignSubmitted(t) \/ SignFailed(t)
    \/ MarkDisconnected(t) \/ Forget(t) \/ CloseWindow(t)
    \/ List(t) \/ RejectNext(t) \/ RejectDone(t) \/ ClearAll(t) \/ Wipe(t)

Environment == Tick \/ (\E o \in Origins : CooldownOver(o)) \/ SwRestart \/ BrowserRestart

Next ==
    \/ \E t \in Tasks : Dapp(t) \/ User(t) \/ Handle(t) \/ Reply(t)
    \/ Environment

Spec == Init /\ [][Next]_vars

-----------------------------------------------------------------------------
(* Properties. *)

\* Type invariant: every variable holds what the code stores in it.
TypeOK ==
    /\ store \in Stores
    /\ permissions \subseteq Origins /\ disconnected \subseteq Origins
    /\ resolvers \subseteq Ids
    /\ inflight \in [Origins -> Ids \cup {0}]
    /\ suppressed \subseteq Origins
    /\ tracked \subseteq Windows
    /\ windowOf \in [Origins -> Windows \cup {NoWindow}]
    /\ task \in [Tasks -> TaskRecords]
    /\ nextId \in 1..MaxId + 1
    /\ request \in [Ids -> [origin : Origins \cup {NoOrigin}, kind : Kinds]]
    /\ userApproved \subseteq Ids /\ signed \subseteq Ids

\* The user pressed Approve on a connect request of origin o.
Consented(o) ==
    \E i \in userApproved : request[i] = [origin |-> o, kind |-> "getPublicKey"]

\* No origin ever holds getPublicKey unless the user approved a Grant Access
\* request of that very origin, whatever handlers overlap, lose writes, time
\* out or die with the service worker (setDappPermissions' two callers).
GrantNeedsApproval == \A o \in permissions : Consented(o)

\* A page is told "connected" only for an origin the user approved, and a
\* poll answers "signed" only for a transaction that was signed and submitted
\* for the polling origin (DAPP_GET_PUBLIC_KEY, DAPP_POLL_REQUEST_RESULT).
AnswersAreEarned ==
    \A t \in Tasks :
        /\ task[t].ret = "connected" => Consented(task[t].origin)
        /\ task[t].ret = "signed" => /\ task[t].id \in signed
                                     /\ request[task[t].id].origin = task[t].origin

\* A coalesced connect prompt can still be settled: the in-flight entry of an
\* origin names one of its own requests, whose resolver is still registered.
\* Otherwise every later getPublicKey would join a promise nobody can settle
\* (registerInflight's finally, rejectAllPendingDappRequests' clear).
InflightCanSettle ==
    \A o \in Origins : inflight[o] # 0 =>
        /\ inflight[o] \in resolvers
        /\ request[inflight[o]] = [origin |-> o, kind |-> "getPublicKey"]

-----------------------------------------------------------------------------
(* When handlers do not overlap (MaxBusy = 1). *)

\* What became of request i: not stored yet, the stored status, or gone.
StatusOf(i) ==
    IF store[i].status # "none" THEN store[i].status
    ELSE IF i >= nextId \/ (\E t \in Tasks : task[t].pc = "upsert" /\ task[t].id = i)
         THEN "new" ELSE "gone"

\* The rows go through the life cycle requestState.ts promises: the first
\* terminal writer wins and an id never comes back.
Lifecycle == INSTANCE RequestLifecycle WITH Reqs <- Ids, status <- [i \in Ids |-> StatusOf(i)]
LifecycleSpec == Lifecycle!LSpec

\* A handler of op in slot t takes a step.
Steps(t, op) ==
    /\ task[t].op = op /\ task'[t].op = op
    /\ <<task[t].pc, task[t].phase>> # <<task'[t].pc, task'[t].phase>>

\* "disconnect() revokes": when a disconnect answers, its origin holds no
\* permission and has no connect request left for the user to approve.
DisconnectCloses ==
    [][\A t \in Tasks :
          (Steps(t, "DAPP_DISCONNECT") /\ task'[t].pc = "reply") =>
             /\ task[t].origin \notin permissions'
             /\ \A i \in LiveIds(store') :
                   request[i] # [origin |-> task[t].origin, kind |-> "getPublicKey"]]_vars

\* "disconnect() revokes Latch access for the current origin only": no step of a
\* disconnect changes another origin's permission, or its rows but for their TTL.
DisconnectIsLocal ==
    [][\A t \in Tasks : Steps(t, "DAPP_DISCONNECT") =>
          /\ \A o \in Origins \ {task[t].origin} : o \in permissions <=> o \in permissions'
          /\ \A i \in Ids : request[i].origin # task[t].origin =>
                store'[i].status \in {store[i].status, Swept(store[i]).status}]_vars
=============================================================================
