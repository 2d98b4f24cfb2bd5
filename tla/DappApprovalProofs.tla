------------------------- MODULE DappApprovalProofs -------------------------
(***************************************************************************)
(* Type correctness of DappApproval, and no permission, no "connected" and *)
(* no "signed" without the user, and no in-flight prompt nobody can settle:*)
(* for every number of origins, requests, windows and slots, with handlers *)
(* overlapping as they like and restarts at any step.                      *)
(*                                                                         *)
(* TypeOK is not inductive by itself: a handler that writes another row    *)
(* than a row of Ids, or grants "no origin", would break it.  TypeInv adds *)
(* what a handler is known to hold at each of its places.                  *)
(*                                                                         *)
(* Nor are the others: a permission comes from a handler that read an      *)
(* approved row, the row from a handler that was told "approved", and a row*)
(* of a request that is not handed out yet could be anything.  Consent     *)
(* follows the user's approval through all of them.                        *)
(*                                                                         *)
(* The last part is about handlers that do not overlap (Serial): then the  *)
(* rows implement RequestLifecycle, and a disconnect closes its origin and *)
(* nothing else.                                                           *)
(***************************************************************************)
EXTENDS DappApproval, FiniteSetTheorems, TLAPS

\* The places of handlers that have an origin, that have a request, that have
\* not created their request yet, and of the sweeps that reject.
OriginPcs == {"perms", "assert", "assertAgain", "find", "upsert", "popup", "create", "waiting",
              "grant", "unmark", "allow", "prepare", "poll", "pollPerms", "markDisconnected",
              "forget", "close"}
IdPcs     == {"upsert", "popup", "create", "waiting", "poll", "pollPerms", "get", "resolve",
              "wake", "mark", "sign"}
EarlyPcs  == {"perms", "assert", "assertAgain", "find", "allow", "prepare"}
SweepPcs  == {"markDisconnected", "forget", "close", "list", "next"}

Decisions == {"RESOLVE_PENDING_DAPP_REQUEST", "EXECUTE_DAPP_EXTERNAL_SIGN"}
Sweeps    == {"DAPP_DISCONNECT", "WINDOW_CLOSED", "LIST_PENDING_DAPP_REQUESTS"}

\* What a handler of op at p holds.
Fits(p, op, o, i, a, yes) ==
    /\ p \in OriginPcs => o \in Origins
    /\ p \in IdPcs => i \in Ids
    /\ p \in EarlyPcs => op \in Requests /\ i = 0 /\ a = "none"
    /\ p \in SweepPcs => op \in Sweeps /\ a = "none"
    /\ p = "waiting" => op = "DAPP_OPEN_SIGN_REQUEST"
    /\ p \in {"poll", "pollPerms"} => op = "DAPP_POLL_REQUEST_RESULT"
    /\ p \in {"get", "mark", "sign"} => op \in Decisions
    /\ p \in {"resolve", "wake"} => op \in Decisions \cup Sweeps
    /\ p = "wake" => a \in {"approved", "rejected"}
    /\ a \in {"connected", "signed"} => p = "reply"
    /\ yes => op \in Decisions /\ i \in Ids
    /\ a = "approved" => i \in Ids

FitsIn(r) == Fits(r.pc, r.op, r.origin, r.id, r.ret, r.yes)

Located(r) == r \in TaskRecords /\ FitsIn(r)

\* The inductive invariant.
TypeInv == TypeOK /\ \A t \in Tasks : Located(task[t])

-----------------------------------------------------------------------------
(* Rows. *)
LEMMA EmptyStoreType == EmptyStore \in Stores
  BY MaxIdAssumption, TTLAssumption DEF EmptyStore, Stores, Absent, Rows, Statuses, Ages

\* The sweep of expireStaleDappRequests keeps the shape of the rows.
LEMMA ExpireType == ASSUME NEW rows \in Stores PROVE Expire(rows) \in Stores
  BY TTLAssumption
  DEF Stores, Rows, Absent, Ages, Statuses, LiveStatuses, TerminalStatuses, Live, Terminal,
      Fresh, Swept, Expire

LEMMA OlderType == ASSUME NEW rows \in Stores PROVE Older(rows) \in Stores
  BY TTLAssumption DEF Stores, Rows, Ages, Older

LEMMA PutType ==
  ASSUME NEW rows \in Stores, NEW i \in Ids, NEW s \in Statuses
  PROVE  Put(rows, i, s) \in Stores
  BY TTLAssumption DEF Stores, Rows, Ages, Put

-----------------------------------------------------------------------------
(* Handlers' records. *)
LEMMA PcNames ==
  Pcs = RowsPcs \cup PermsPcs \cup DiscPcs \cup
        {"idle", "waiting", "sign", "prepare", "popup", "create", "close", "wake", "next",
         "clear", "wipe", "reply"}
  BY DEF Pcs, WaitPcs

LEMMA ToType ==
  ASSUME NEW r \in TaskRecords, NEW p \in Pcs
  PROVE  /\ To(r, p) \in TaskRecords
         /\ To(r, p).op = r.op /\ To(r, p).pc = p /\ To(r, p).origin = r.origin
         /\ To(r, p).id = r.id /\ To(r, p).yes = r.yes /\ To(r, p).todo = r.todo
         /\ To(r, p).ret = r.ret /\ To(r, p).perms = {} /\ To(r, p).rows = EmptyStore
  BY EmptyStoreType DEF TaskRecords, To, Phases

LEMMA IdleType == Idle \in TaskRecords /\ Located(Idle)
  BY EmptyStoreType, PcNames
  DEF Idle, TaskRecords, Located, FitsIn, Fits, Phases, Answers, OriginPcs, IdPcs, EarlyPcs,
      SweepPcs

\* One slot's record is replaced by a located one.
LEMMA SlotType ==
  ASSUME TypeInv, NEW t \in Tasks, NEW r, Located(r), task' = [task EXCEPT ![t] = r]
  PROVE  task' \in [Tasks -> TaskRecords] /\ \A u \in Tasks : Located(task'[u])
  BY DEF TypeInv, TypeOK, Located

LEMMA GoType ==
  ASSUME TypeInv, NEW t \in Tasks, NEW p \in Pcs, Go(t, p),
         Fits(p, task[t].op, task[t].origin, task[t].id, task[t].ret, task[t].yes)
  PROVE  task' \in [Tasks -> TaskRecords] /\ \A u \in Tasks : Located(task'[u])
<1>1. Located(To(task[t], p))
  BY ToType DEF TypeInv, TypeOK, Located, FitsIn
<1> QED BY <1>1, SlotType DEF Go

LEMMA GoWithType ==
  ASSUME TypeInv, NEW t \in Tasks, NEW p \in Pcs, NEW i \in Ids, GoWith(t, p, i),
         Fits(p, task[t].op, task[t].origin, i, task[t].ret, task[t].yes)
  PROVE  task' \in [Tasks -> TaskRecords] /\ \A u \in Tasks : Located(task'[u])
<1> DEFINE q == To(task[t], p)
<1>1. Located([q EXCEPT !.id = i])
  BY ToType DEF TypeInv, TypeOK, Located, FitsIn, TaskRecords
<1> QED BY <1>1, SlotType DEF GoWith

LEMMA AnswerType ==
  ASSUME TypeInv, NEW t \in Tasks, NEW a \in Answers, a # "approved", Answer(t, a)
  PROVE  task' \in [Tasks -> TaskRecords] /\ \A u \in Tasks : Located(task'[u])
<1> DEFINE q == To(task[t], "reply")
           r == [q EXCEPT !.ret = a]
<1>1. "reply" \in Pcs /\ "reply" \notin OriginPcs \cup IdPcs \cup EarlyPcs \cup SweepPcs
  BY DEF Pcs, OriginPcs, IdPcs, EarlyPcs, SweepPcs
<1>2. q \in TaskRecords /\ q.pc = "reply" /\ q.yes = task[t].yes /\ q.op = task[t].op
      /\ q.id = task[t].id
  BY <1>1, ToType DEF TypeInv, TypeOK
<1>3. Located(r)
  BY <1>1, <1>2 DEF Located, FitsIn, Fits, TaskRecords, TypeInv
<1> QED BY <1>3, SlotType DEF Answer

\* A message arrives in slot t.
LEMMA BeginType ==
  ASSUME TypeInv, NEW t \in Tasks, NEW op \in HandlerOps, NEW p \in Pcs,
         NEW o \in Origins \cup {NoOrigin}, NEW i \in Ids \cup {0}, NEW yes \in BOOLEAN,
         Begin(t, op, p, o, i, yes), Fits(p, op, o, i, "none", yes)
  PROVE  task' \in [Tasks -> TaskRecords] /\ \A u \in Tasks : Located(task'[u])
<1> DEFINE q == To(Idle, p)
           r == [q EXCEPT !.op = op, !.origin = o, !.id = i, !.yes = yes]
<1>1. q \in TaskRecords /\ q.pc = p /\ q.ret = "none"
  <2>1. Idle.ret = "none"
    BY DEF Idle
  <2> QED BY <2>1, IdleType, ToType
<1>2. Located(r)
  BY <1>1 DEF Located, FitsIn, TaskRecords
<1> QED BY <1>2, SlotType DEF Begin

-----------------------------------------------------------------------------
(* Messages arrive. *)
LEMMA DappCallType ==
  ASSUME TypeInv, NEW t \in Tasks, NEW op \in DappOps, NEW o \in Origins, DappCall(t, op, o)
  PROVE  TypeInv'
<1>1. \/ op \in Requests /\ FirstPc(op) = "perms"
      \/ op = "DAPP_DISCONNECT" /\ FirstPc(op) = "markDisconnected"
      \/ op = "DAPP_PAGE_SESSION_START" /\ FirstPc(op) = "unmark"
  BY DEF DappCall, DappOps, Requests, FirstPc
<1>2. FirstPc(op) \in Pcs /\ op \in HandlerOps
  BY <1>1 DEF Pcs, RowsPcs, PermsPcs, DiscPcs, HandlerOps
<1>3. Fits(FirstPc(op), op, o, 0, "none", FALSE)
  BY <1>1 DEF Fits, OriginPcs, IdPcs, EarlyPcs, SweepPcs, Sweeps
<1>4. task' \in [Tasks -> TaskRecords] /\ \A u \in Tasks : Located(task'[u])
  BY <1>2, <1>3, BeginType DEF DappCall
<1> QED BY <1>4 DEF TypeInv, TypeOK, DappCall, persistent, memory, catalog, history

LEMMA PollType ==
  ASSUME TypeInv, NEW t \in Tasks, NEW o \in Origins, NEW i \in Ids, Poll(t, o, i) PROVE TypeInv'
<1>1. Begin(t, "DAPP_POLL_REQUEST_RESULT", "poll", o, i, FALSE)
  BY DEF Poll
<1>2. task' \in [Tasks -> TaskRecords] /\ \A u \in Tasks : Located(task'[u])
  BY <1>1, PcNames, BeginType
  DEF Fits, OriginPcs, IdPcs, EarlyPcs, SweepPcs, RowsPcs, PermsPcs, DiscPcs, HandlerOps, DappOps, UiOps, Requests, Decisions, Sweeps
<1> QED BY <1>2 DEF TypeInv, TypeOK, Poll, persistent, memory, catalog, history

LEMMA ResolveType ==
  ASSUME TypeInv, NEW t \in Tasks, NEW i \in Ids, NEW yes \in BOOLEAN, Resolve(t, i, yes) PROVE TypeInv'
<1>1. Begin(t, "RESOLVE_PENDING_DAPP_REQUEST", "get", NoOrigin, i, yes)
  BY DEF Resolve
<1>2. task' \in [Tasks -> TaskRecords] /\ \A u \in Tasks : Located(task'[u])
  BY <1>1, PcNames, BeginType
  DEF Fits, OriginPcs, IdPcs, EarlyPcs, SweepPcs, RowsPcs, PermsPcs, DiscPcs, HandlerOps, DappOps, UiOps, Requests, Decisions, Sweeps
<1> QED BY <1>2 DEF TypeInv, TypeOK, Resolve, persistent, memory, catalog, history

LEMMA ExecuteType ==
  ASSUME TypeInv, NEW t \in Tasks, NEW i \in Ids, Execute(t, i) PROVE TypeInv'
<1>1. Begin(t, "EXECUTE_DAPP_EXTERNAL_SIGN", "mark", NoOrigin, i, FALSE)
  BY DEF Execute
<1>2. task' \in [Tasks -> TaskRecords] /\ \A u \in Tasks : Located(task'[u])
  BY <1>1, PcNames, BeginType
  DEF Fits, OriginPcs, IdPcs, EarlyPcs, SweepPcs, RowsPcs, PermsPcs, DiscPcs, HandlerOps, DappOps, UiOps, Requests, Decisions, Sweeps
<1> QED BY <1>2 DEF TypeInv, TypeOK, Execute, persistent, memory, catalog, history

LEMMA ListPendingType ==
  ASSUME TypeInv, NEW t \in Tasks, ListPending(t) PROVE TypeInv'
<1>1. Begin(t, "LIST_PENDING_DAPP_REQUESTS", "list", NoOrigin, 0, FALSE)
  BY DEF ListPending
<1>2. task' \in [Tasks -> TaskRecords] /\ \A u \in Tasks : Located(task'[u])
  BY <1>1, PcNames, BeginType
  DEF Fits, OriginPcs, IdPcs, EarlyPcs, SweepPcs, RowsPcs, PermsPcs, DiscPcs, HandlerOps, DappOps, UiOps, Requests, Decisions, Sweeps
<1> QED BY <1>2 DEF TypeInv, TypeOK, ListPending, persistent, memory, catalog, history

LEMMA LogoutType ==
  ASSUME TypeInv, NEW t \in Tasks, Logout(t) PROVE TypeInv'
<1>1. Begin(t, "LOGOUT", "clear", NoOrigin, 0, FALSE)
  BY DEF Logout
<1>2. task' \in [Tasks -> TaskRecords] /\ \A u \in Tasks : Located(task'[u])
  BY <1>1, PcNames, BeginType
  DEF Fits, OriginPcs, IdPcs, EarlyPcs, SweepPcs, RowsPcs, PermsPcs, DiscPcs, HandlerOps, DappOps, UiOps, Requests, Decisions, Sweeps
<1> QED BY <1>2 DEF TypeInv, TypeOK, Logout, persistent, memory, catalog, history

LEMMA WindowClosedType ==
  ASSUME TypeInv, NEW t \in Tasks, NEW w \in Windows, WindowClosed(t, w) PROVE TypeInv'
<1>1. Begin(t, "WINDOW_CLOSED", "list", NoOrigin, 0, FALSE)
  BY DEF WindowClosed
<1>2. task' \in [Tasks -> TaskRecords] /\ \A u \in Tasks : Located(task'[u])
  BY <1>1, PcNames, BeginType
  DEF Fits, OriginPcs, IdPcs, EarlyPcs, SweepPcs, RowsPcs, PermsPcs, DiscPcs, HandlerOps, DappOps, UiOps, Requests, Decisions, Sweeps
<1> QED BY <1>2 DEF TypeInv, TypeOK, WindowClosed, persistent, memory, catalog, history

-----------------------------------------------------------------------------
(* Storage reads. *)
\* A slot's copies change, its place does not.
LEMMA SamePlace ==
  ASSUME NEW r, Located(r), NEW s \in TaskRecords, s.pc = r.pc, s.op = r.op,
         s.origin = r.origin, s.id = r.id, s.ret = r.ret, s.yes = r.yes
  PROVE  Located(s)
  BY DEF Located, FitsIn

LEMMA ReadRowsType ==
  ASSUME TypeInv, NEW t \in Tasks, ReadRows(t) PROVE TypeInv'
<1>1. \A u \in Tasks : task[u] \in TaskRecords /\ Located(task[u])
  BY DEF TypeInv, TypeOK
<1>2. task' \in [Tasks -> TaskRecords]
  BY <1>1, ExpireType DEF ReadRows, TypeInv, TypeOK, TaskRecords, Phases
<1>3. \A u \in Tasks :
        /\ task'[u].pc = task[u].pc /\ task'[u].op = task[u].op
        /\ task'[u].origin = task[u].origin /\ task'[u].id = task[u].id
        /\ task'[u].ret = task[u].ret /\ task'[u].yes = task[u].yes
  BY <1>1 DEF ReadRows, TypeInv, TypeOK, TaskRecords
<1>4. task' \in [Tasks -> TaskRecords] /\ \A u \in Tasks : Located(task'[u])
  BY <1>1, <1>2, <1>3, SamePlace
<1> QED BY <1>4 DEF TypeInv, TypeOK, ReadRows, persistent, memory, catalog, history

LEMMA PruneType ==
  ASSUME TypeInv, NEW t \in Tasks, Prune(t) PROVE TypeInv'
<1>1. \A u \in Tasks : task[u] \in TaskRecords /\ Located(task[u])
  BY DEF TypeInv, TypeOK
<1>2. task' \in [Tasks -> TaskRecords]
  BY <1>1 DEF Prune, TypeInv, TypeOK, TaskRecords, Phases
<1>3. \A u \in Tasks :
        /\ task'[u].pc = task[u].pc /\ task'[u].op = task[u].op
        /\ task'[u].origin = task[u].origin /\ task'[u].id = task[u].id
        /\ task'[u].ret = task[u].ret /\ task'[u].yes = task[u].yes
  BY <1>1 DEF Prune, TypeInv, TypeOK, TaskRecords
<1>4. task' \in [Tasks -> TaskRecords] /\ \A u \in Tasks : Located(task'[u])
  BY <1>1, <1>2, <1>3, SamePlace
<1> QED BY <1>4, <1>1 DEF TypeInv, TypeOK, Prune, persistent, memory, catalog, history, TaskRecords

LEMMA ReadLocalType ==
  ASSUME TypeInv, NEW t \in Tasks, ReadLocal(t) PROVE TypeInv'
<1>1. \A u \in Tasks : task[u] \in TaskRecords /\ Located(task[u])
  BY DEF TypeInv, TypeOK
<1>2. task' \in [Tasks -> TaskRecords]
  BY <1>1 DEF ReadLocal, TypeInv, TypeOK, TaskRecords, Phases
<1>3. \A u \in Tasks :
        /\ task'[u].pc = task[u].pc /\ task'[u].op = task[u].op
        /\ task'[u].origin = task[u].origin /\ task'[u].id = task[u].id
        /\ task'[u].ret = task[u].ret /\ task'[u].yes = task[u].yes
  BY <1>1 DEF ReadLocal, TypeInv, TypeOK, TaskRecords
<1>4. task' \in [Tasks -> TaskRecords] /\ \A u \in Tasks : Located(task'[u])
  BY <1>1, <1>2, <1>3, SamePlace
<1> QED BY <1>4 DEF TypeInv, TypeOK, ReadLocal, persistent, memory, catalog, history

-----------------------------------------------------------------------------
(* Connecting and signing requests. *)
LEMMA CheckPermissionType ==
  ASSUME TypeInv, NEW t \in Tasks, CheckPermission(t) PROVE TypeInv'
<1>1. task[t] \in TaskRecords /\ FitsIn(task[t]) /\ task[t].pc \in {"perms"}
  BY DEF CheckPermission, At, TypeInv, TypeOK, Located
<1>2. \/ \E p \in {"allow", "assert"} : Go(t, p)
      \/ \E a \in {"not_connected", "connected", "ok"} : Answer(t, a)
  BY <1>1 DEF CheckPermission
<1>3. ASSUME NEW p \in {"allow", "assert"}, Go(t, p)
      PROVE  task' \in [Tasks -> TaskRecords] /\ \A u \in Tasks : Located(task'[u])
  BY <1>1, <1>3, PcNames, GoType DEF FitsIn, Fits, OriginPcs, IdPcs, EarlyPcs, SweepPcs, RowsPcs, PermsPcs, DiscPcs
<1>4. ASSUME NEW a \in {"not_connected", "connected", "ok"}, Answer(t, a)
      PROVE  task' \in [Tasks -> TaskRecords] /\ \A u \in Tasks : Located(task'[u])
  BY <1>4, AnswerType DEF Answers
<1>5. task' \in [Tasks -> TaskRecords] /\ \A u \in Tasks : Located(task'[u])
  BY <1>2, <1>3, <1>4
<1> QED BY <1>5 DEF TypeInv, TypeOK, CheckPermission, persistent, memory, catalog, history

LEMMA AssertPromptAllowedType ==
  ASSUME TypeInv, NEW t \in Tasks, AssertPromptAllowed(t) PROVE TypeInv'
<1>1. task[t] \in TaskRecords /\ FitsIn(task[t]) /\ task[t].pc \in {"assert", "assertAgain"}
  BY DEF AssertPromptAllowed, At, TypeInv, TypeOK, Located
<1>2. \/ \E p \in {"assertAgain", "find"} : Go(t, p)
      \/ \E a \in {"not_connected"} : Answer(t, a)
  BY <1>1 DEF AssertPromptAllowed
<1>3. ASSUME NEW p \in {"assertAgain", "find"}, Go(t, p)
      PROVE  task' \in [Tasks -> TaskRecords] /\ \A u \in Tasks : Located(task'[u])
  BY <1>1, <1>3, PcNames, GoType DEF FitsIn, Fits, OriginPcs, IdPcs, EarlyPcs, SweepPcs, RowsPcs, PermsPcs, DiscPcs
<1>4. ASSUME NEW a \in {"not_connected"}, Answer(t, a)
      PROVE  task' \in [Tasks -> TaskRecords] /\ \A u \in Tasks : Located(task'[u])
  BY <1>4, AnswerType DEF Answers
<1>5. task' \in [Tasks -> TaskRecords] /\ \A u \in Tasks : Located(task'[u])
  BY <1>2, <1>3, <1>4
<1> QED BY <1>5 DEF TypeInv, TypeOK, AssertPromptAllowed, persistent, memory, catalog, history

LEMMA UpsertType ==
  ASSUME TypeInv, NEW t \in Tasks, Upsert(t) PROVE TypeInv'
<1>1. task[t] \in TaskRecords /\ FitsIn(task[t]) /\ task[t].pc \in {"upsert"}
  BY DEF Upsert, At, TypeInv, TypeOK, Located
<1>2. \E p \in {"popup"} : Go(t, p)
  BY <1>1 DEF Upsert
<1>3. ASSUME NEW p \in {"popup"}, Go(t, p)
      PROVE  task' \in [Tasks -> TaskRecords] /\ \A u \in Tasks : Located(task'[u])
  BY <1>1, <1>3, PcNames, GoType DEF FitsIn, Fits, OriginPcs, IdPcs, EarlyPcs, SweepPcs, RowsPcs, PermsPcs, DiscPcs
<1>4. task' \in [Tasks -> TaskRecords] /\ \A u \in Tasks : Located(task'[u])
  BY <1>2, <1>3
<1> QED BY <1>4, <1>1, PutType DEF TypeInv, TypeOK, Upsert, persistent, memory, catalog, history, TaskRecords, FitsIn, Fits, IdPcs, Statuses, LiveStatuses

LEMMA OpenPopupType ==
  ASSUME TypeInv, NEW t \in Tasks, OpenPopup(t) PROVE TypeInv'
<1>1. task[t] \in TaskRecords /\ FitsIn(task[t]) /\ task[t].pc \in {"popup"}
  BY DEF OpenPopup, At, TypeInv, TypeOK, Located
<1>2. \/ \E p \in {"waiting", "create"} : Go(t, p) /\ (p = "waiting" => task[t].op = "DAPP_OPEN_SIGN_REQUEST")
      \/ \E a \in {"pending"} : Answer(t, a)
  BY <1>1 DEF OpenPopup, Opened
<1>3. ASSUME NEW p \in {"waiting", "create"}, Go(t, p) /\ (p = "waiting" => task[t].op = "DAPP_OPEN_SIGN_REQUEST")
      PROVE  task' \in [Tasks -> TaskRecords] /\ \A u \in Tasks : Located(task'[u])
  BY <1>1, <1>3, PcNames, GoType DEF FitsIn, Fits, OriginPcs, IdPcs, EarlyPcs, SweepPcs, RowsPcs, PermsPcs, DiscPcs
<1>4. ASSUME NEW a \in {"pending"}, Answer(t, a)
      PROVE  task' \in [Tasks -> TaskRecords] /\ \A u \in Tasks : Located(task'[u])
  BY <1>4, AnswerType DEF Answers
<1>5. task' \in [Tasks -> TaskRecords] /\ \A u \in Tasks : Located(task'[u])
  BY <1>2, <1>3, <1>4
<1> QED BY <1>5 DEF TypeInv, TypeOK, OpenPopup, persistent, memory, catalog, history

LEMMA CreateWindowType ==
  ASSUME TypeInv, NEW t \in Tasks, CreateWindow(t) PROVE TypeInv'
<1>1. task[t] \in TaskRecords /\ FitsIn(task[t]) /\ task[t].pc \in {"create"}
  BY DEF CreateWindow, At, TypeInv, TypeOK, Located
<1>2. \/ \E p \in {"waiting"} : Go(t, p) /\ task[t].op = "DAPP_OPEN_SIGN_REQUEST"
      \/ \E a \in {"pending"} : Answer(t, a)
  BY <1>1 DEF CreateWindow, Opened
<1>3. ASSUME NEW p \in {"waiting"}, Go(t, p) /\ task[t].op = "DAPP_OPEN_SIGN_REQUEST"
      PROVE  task' \in [Tasks -> TaskRecords] /\ \A u \in Tasks : Located(task'[u])
  BY <1>1, <1>3, PcNames, GoType DEF FitsIn, Fits, OriginPcs, IdPcs, EarlyPcs, SweepPcs, RowsPcs, PermsPcs, DiscPcs
<1>4. ASSUME NEW a \in {"pending"}, Answer(t, a)
      PROVE  task' \in [Tasks -> TaskRecords] /\ \A u \in Tasks : Located(task'[u])
  BY <1>4, AnswerType DEF Answers
<1>5. task' \in [Tasks -> TaskRecords] /\ \A u \in Tasks : Located(task'[u])
  BY <1>2, <1>3, <1>4
<1> QED BY <1>5, <1>1 DEF TypeInv, TypeOK, CreateWindow, persistent, memory, catalog, history, TaskRecords

LEMMA DecidedType ==
  ASSUME TypeInv, NEW t \in Tasks, Decided(t) PROVE TypeInv'
<1>1. task[t] \in TaskRecords /\ FitsIn(task[t]) /\ task[t].pc \in {"waiting"}
  BY DEF Decided, At, TypeInv, TypeOK, Located
<1>2. \/ \E p \in {"grant"} : Go(t, p)
      \/ \E a \in {"rejected"} : Answer(t, a)
  BY <1>1 DEF Decided
<1>3. ASSUME NEW p \in {"grant"}, Go(t, p)
      PROVE  task' \in [Tasks -> TaskRecords] /\ \A u \in Tasks : Located(task'[u])
  BY <1>1, <1>3, PcNames, GoType DEF FitsIn, Fits, OriginPcs, IdPcs, EarlyPcs, SweepPcs, RowsPcs, PermsPcs, DiscPcs
<1>4. ASSUME NEW a \in {"rejected"}, Answer(t, a)
      PROVE  task' \in [Tasks -> TaskRecords] /\ \A u \in Tasks : Located(task'[u])
  BY <1>4, AnswerType DEF Answers
<1>5. task' \in [Tasks -> TaskRecords] /\ \A u \in Tasks : Located(task'[u])
  BY <1>2, <1>3, <1>4
<1> QED BY <1>5 DEF TypeInv, TypeOK, Decided, persistent, memory, catalog, history

LEMMA GrantType ==
  ASSUME TypeInv, NEW t \in Tasks, Grant(t) PROVE TypeInv'
<1>1. task[t] \in TaskRecords /\ FitsIn(task[t]) /\ task[t].pc \in {"grant"}
  BY DEF Grant, At, TypeInv, TypeOK, Located
<1>2. \E p \in {"unmark"} : Go(t, p)
  BY <1>1 DEF Grant
<1>3. ASSUME NEW p \in {"unmark"}, Go(t, p)
      PROVE  task' \in [Tasks -> TaskRecords] /\ \A u \in Tasks : Located(task'[u])
  BY <1>1, <1>3, PcNames, GoType DEF FitsIn, Fits, OriginPcs, IdPcs, EarlyPcs, SweepPcs, RowsPcs, PermsPcs, DiscPcs
<1>4. task' \in [Tasks -> TaskRecords] /\ \A u \in Tasks : Located(task'[u])
  BY <1>2, <1>3
<1> QED BY <1>4, <1>1 DEF TypeInv, TypeOK, Grant, persistent, memory, catalog, history, TaskRecords, FitsIn, Fits, OriginPcs

LEMMA UnmarkType ==
  ASSUME TypeInv, NEW t \in Tasks, Unmark(t) PROVE TypeInv'
<1>1. task[t] \in TaskRecords /\ FitsIn(task[t]) /\ task[t].pc \in {"unmark"}
  BY DEF Unmark, At, TypeInv, TypeOK, Located
<1>2. \E a \in {"connected", "ok"} : Answer(t, a)
  BY <1>1 DEF Unmark
<1>3. ASSUME NEW a \in {"connected", "ok"}, Answer(t, a)
      PROVE  task' \in [Tasks -> TaskRecords] /\ \A u \in Tasks : Located(task'[u])
  BY <1>3, AnswerType DEF Answers
<1>4. task' \in [Tasks -> TaskRecords] /\ \A u \in Tasks : Located(task'[u])
  BY <1>2, <1>3
<1> QED BY <1>4, <1>1 DEF TypeInv, TypeOK, Unmark, persistent, memory, catalog, history, TaskRecords

LEMMA CheckAllowedType ==
  ASSUME TypeInv, NEW t \in Tasks, CheckAllowed(t) PROVE TypeInv'
<1>1. task[t] \in TaskRecords /\ FitsIn(task[t]) /\ task[t].pc \in {"allow"}
  BY DEF CheckAllowed, At, TypeInv, TypeOK, Located
<1>2. \/ \E p \in {"prepare"} : Go(t, p)
      \/ \E a \in {"not_connected"} : Answer(t, a)
  BY <1>1 DEF CheckAllowed
<1>3. ASSUME NEW p \in {"prepare"}, Go(t, p)
      PROVE  task' \in [Tasks -> TaskRecords] /\ \A u \in Tasks : Located(task'[u])
  BY <1>1, <1>3, PcNames, GoType DEF FitsIn, Fits, OriginPcs, IdPcs, EarlyPcs, SweepPcs, RowsPcs, PermsPcs, DiscPcs
<1>4. ASSUME NEW a \in {"not_connected"}, Answer(t, a)
      PROVE  task' \in [Tasks -> TaskRecords] /\ \A u \in Tasks : Located(task'[u])
  BY <1>4, AnswerType DEF Answers
<1>5. task' \in [Tasks -> TaskRecords] /\ \A u \in Tasks : Located(task'[u])
  BY <1>2, <1>3, <1>4
<1> QED BY <1>5 DEF TypeInv, TypeOK, CheckAllowed, persistent, memory, catalog, history

LEMMA PrepareFailedType ==
  ASSUME TypeInv, NEW t \in Tasks, PrepareFailed(t) PROVE TypeInv'
<1>1. task[t] \in TaskRecords /\ FitsIn(task[t]) /\ task[t].pc \in {"prepare"}
  BY DEF PrepareFailed, At, TypeInv, TypeOK, Located
<1>2. \E a \in {"failed"} : Answer(t, a)
  BY <1>1 DEF PrepareFailed
<1>3. ASSUME NEW a \in {"failed"}, Answer(t, a)
      PROVE  task' \in [Tasks -> TaskRecords] /\ \A u \in Tasks : Located(task'[u])
  BY <1>3, AnswerType DEF Answers
<1>4. task' \in [Tasks -> TaskRecords] /\ \A u \in Tasks : Located(task'[u])
  BY <1>2, <1>3
<1> QED BY <1>4 DEF TypeInv, TypeOK, PrepareFailed, persistent, memory, catalog, history

LEMMA PollRowType ==
  ASSUME TypeInv, NEW t \in Tasks, PollRow(t) PROVE TypeInv'
<1>1. task[t] \in TaskRecords /\ FitsIn(task[t]) /\ task[t].pc \in {"poll"}
  BY DEF PollRow, At, TypeInv, TypeOK, Located
<1>2. \/ \E p \in {"pollPerms"} : Go(t, p)
      \/ \E a \in {"not_found", "pending", "expired", "rejected", "signed"} : Answer(t, a)
  BY <1>1 DEF PollRow
<1>3. ASSUME NEW p \in {"pollPerms"}, Go(t, p)
      PROVE  task' \in [Tasks -> TaskRecords] /\ \A u \in Tasks : Located(task'[u])
  BY <1>1, <1>3, PcNames, GoType DEF FitsIn, Fits, OriginPcs, IdPcs, EarlyPcs, SweepPcs, RowsPcs, PermsPcs, DiscPcs
<1>4. ASSUME NEW a \in {"not_found", "pending", "expired", "rejected", "signed"}, Answer(t, a)
      PROVE  task' \in [Tasks -> TaskRecords] /\ \A u \in Tasks : Located(task'[u])
  BY <1>4, AnswerType DEF Answers
<1>5. task' \in [Tasks -> TaskRecords] /\ \A u \in Tasks : Located(task'[u])
  BY <1>2, <1>3, <1>4
<1> QED BY <1>5 DEF TypeInv, TypeOK, PollRow, persistent, memory, catalog, history

LEMMA PollPermissionType ==
  ASSUME TypeInv, NEW t \in Tasks, PollPermission(t) PROVE TypeInv'
<1>1. task[t] \in TaskRecords /\ FitsIn(task[t]) /\ task[t].pc \in {"pollPerms"}
  BY DEF PollPermission, At, TypeInv, TypeOK, Located
<1>2. \/ \E p \in {"grant"} : Go(t, p)
      \/ \E a \in {"connected"} : Answer(t, a)
  BY <1>1 DEF PollPermission
<1>3. ASSUME NEW p \in {"grant"}, Go(t, p)
      PROVE  task' \in [Tasks -> TaskRecords] /\ \A u \in Tasks : Located(task'[u])
  BY <1>1, <1>3, PcNames, GoType DEF FitsIn, Fits, OriginPcs, IdPcs, EarlyPcs, SweepPcs, RowsPcs, PermsPcs, DiscPcs
<1>4. ASSUME NEW a \in {"connected"}, Answer(t, a)
      PROVE  task' \in [Tasks -> TaskRecords] /\ \A u \in Tasks : Located(task'[u])
  BY <1>4, AnswerType DEF Answers
<1>5. task' \in [Tasks -> TaskRecords] /\ \A u \in Tasks : Located(task'[u])
  BY <1>2, <1>3, <1>4
<1> QED BY <1>5 DEF TypeInv, TypeOK, PollPermission, persistent, memory, catalog, history

LEMMA MarkSigningType ==
  ASSUME TypeInv, NEW t \in Tasks, MarkSigning(t) PROVE TypeInv'
<1>1. task[t] \in TaskRecords /\ FitsIn(task[t]) /\ task[t].pc \in {"mark"}
  BY DEF MarkSigning, At, TypeInv, TypeOK, Located
<1>2. \E p \in {"sign"} : Go(t, p)
  BY <1>1 DEF MarkSigning
<1>3. ASSUME NEW p \in {"sign"}, Go(t, p)
      PROVE  task' \in [Tasks -> TaskRecords] /\ \A u \in Tasks : Located(task'[u])
  BY <1>1, <1>3, PcNames, GoType DEF FitsIn, Fits, OriginPcs, IdPcs, EarlyPcs, SweepPcs, RowsPcs, PermsPcs, DiscPcs
<1>4. task' \in [Tasks -> TaskRecords] /\ \A u \in Tasks : Located(task'[u])
  BY <1>2, <1>3
<1> QED BY <1>4, <1>1, PutType DEF TypeInv, TypeOK, MarkSigning, persistent, memory, catalog, history, TaskRecords, FitsIn, Fits, IdPcs, Statuses, LiveStatuses

LEMMA SignFailedType ==
  ASSUME TypeInv, NEW t \in Tasks, SignFailed(t) PROVE TypeInv'
<1>1. task[t] \in TaskRecords /\ FitsIn(task[t]) /\ task[t].pc \in {"sign"}
  BY DEF SignFailed, At, TypeInv, TypeOK, Located
<1>2. \E p \in {"resolve"} : Go(t, p)
  BY <1>1 DEF SignFailed
<1>3. ASSUME NEW p \in {"resolve"}, Go(t, p)
      PROVE  task' \in [Tasks -> TaskRecords] /\ \A u \in Tasks : Located(task'[u])
  BY <1>1, <1>3, PcNames, GoType DEF FitsIn, Fits, OriginPcs, IdPcs, EarlyPcs, SweepPcs, RowsPcs, PermsPcs, DiscPcs
<1>4. task' \in [Tasks -> TaskRecords] /\ \A u \in Tasks : Located(task'[u])
  BY <1>2, <1>3
<1> QED BY <1>4 DEF TypeInv, TypeOK, SignFailed, persistent, memory, catalog, history

LEMMA MarkDisconnectedType ==
  ASSUME TypeInv, NEW t \in Tasks, MarkDisconnected(t) PROVE TypeInv'
<1>1. task[t] \in TaskRecords /\ FitsIn(task[t]) /\ task[t].pc \in {"markDisconnected"}
  BY DEF MarkDisconnected, At, TypeInv, TypeOK, Located
<1>2. \E p \in {"forget"} : Go(t, p)
  BY <1>1 DEF MarkDisconnected
<1>3. ASSUME NEW p \in {"forget"}, Go(t, p)
      PROVE  task' \in [Tasks -> TaskRecords] /\ \A u \in Tasks : Located(task'[u])
  BY <1>1, <1>3, PcNames, GoType DEF FitsIn, Fits, OriginPcs, IdPcs, EarlyPcs, SweepPcs, RowsPcs, PermsPcs, DiscPcs
<1>4. task' \in [Tasks -> TaskRecords] /\ \A u \in Tasks : Located(task'[u])
  BY <1>2, <1>3
<1> QED BY <1>4, <1>1 DEF TypeInv, TypeOK, MarkDisconnected, persistent, memory, catalog, history, TaskRecords, FitsIn, Fits, OriginPcs

LEMMA ForgetType ==
  ASSUME TypeInv, NEW t \in Tasks, Forget(t) PROVE TypeInv'
<1>1. task[t] \in TaskRecords /\ FitsIn(task[t]) /\ task[t].pc \in {"forget"}
  BY DEF Forget, At, TypeInv, TypeOK, Located
<1>2. \E p \in {"close"} : Go(t, p)
  BY <1>1 DEF Forget
<1>3. ASSUME NEW p \in {"close"}, Go(t, p)
      PROVE  task' \in [Tasks -> TaskRecords] /\ \A u \in Tasks : Located(task'[u])
  BY <1>1, <1>3, PcNames, GoType DEF FitsIn, Fits, OriginPcs, IdPcs, EarlyPcs, SweepPcs, RowsPcs, PermsPcs, DiscPcs
<1>4. task' \in [Tasks -> TaskRecords] /\ \A u \in Tasks : Located(task'[u])
  BY <1>2, <1>3
<1> QED BY <1>4, <1>1 DEF TypeInv, TypeOK, Forget, persistent, memory, catalog, history, TaskRecords

LEMMA CloseWindowType ==
  ASSUME TypeInv, NEW t \in Tasks, CloseWindow(t) PROVE TypeInv'
<1>1. task[t] \in TaskRecords /\ FitsIn(task[t]) /\ task[t].pc \in {"close"}
  BY DEF CloseWindow, At, TypeInv, TypeOK, Located
<1>2. \E p \in {"list"} : Go(t, p)
  BY <1>1 DEF CloseWindow
<1>3. ASSUME NEW p \in {"list"}, Go(t, p)
      PROVE  task' \in [Tasks -> TaskRecords] /\ \A u \in Tasks : Located(task'[u])
  BY <1>1, <1>3, PcNames, GoType DEF FitsIn, Fits, OriginPcs, IdPcs, EarlyPcs, SweepPcs, RowsPcs, PermsPcs, DiscPcs
<1>4. task' \in [Tasks -> TaskRecords] /\ \A u \in Tasks : Located(task'[u])
  BY <1>2, <1>3
<1> QED BY <1>4, <1>1 DEF TypeInv, TypeOK, CloseWindow, persistent, memory, catalog, history, TaskRecords, CloseWindowOf

LEMMA WipeType ==
  ASSUME TypeInv, NEW t \in Tasks, Wipe(t) PROVE TypeInv'
<1>1. task[t] \in TaskRecords /\ FitsIn(task[t]) /\ task[t].pc \in {"wipe"}
  BY DEF Wipe, At, TypeInv, TypeOK, Located
<1>2. \E a \in {"ok"} : Answer(t, a)
  BY <1>1 DEF Wipe
<1>3. ASSUME NEW a \in {"ok"}, Answer(t, a)
      PROVE  task' \in [Tasks -> TaskRecords] /\ \A u \in Tasks : Located(task'[u])
  BY <1>3, AnswerType DEF Answers
<1>4. task' \in [Tasks -> TaskRecords] /\ \A u \in Tasks : Located(task'[u])
  BY <1>2, <1>3
<1> QED BY <1>4 DEF TypeInv, TypeOK, Wipe, persistent, memory, catalog, history

\* The other waiters of request i get an answer: their place stays.
LEMMA AnsweredType ==
  ASSUME NEW r, Located(r), NEW i \in Ids, r.op = "DAPP_OPEN_SIGN_REQUEST", r.id = i,
         r.ret = "none", NEW a \in {"approved", "rejected", "orphaned"}
  PROVE  Located([r EXCEPT !.ret = a])
<1> DEFINE s == [r EXCEPT !.ret = a]
<1>1. s \in TaskRecords /\ s.ret = a
  BY DEF Located, TaskRecords, Answers
<1>2. s.pc = r.pc /\ s.op = r.op /\ s.origin = r.origin /\ s.id = r.id /\ s.yes = r.yes
  BY DEF Located, TaskRecords
<1>3. r.pc \notin EarlyPcs \cup SweepPcs
  BY DEF Located, FitsIn, Fits, Ids, Sweeps
<1> HIDE DEF s
<1>4. Located(s)
  BY <1>1, <1>2, <1>3 DEF Located, FitsIn, Fits
<1> QED BY <1>4 DEF s

LEMMA PreparedType ==
  ASSUME TypeInv, NEW t \in Tasks, Prepared(t) PROVE TypeInv'
<1>1. task[t] \in TaskRecords /\ FitsIn(task[t]) /\ task[t].pc \in {"prepare"}
  BY DEF Prepared, At, TypeInv, TypeOK, Located
<1>2. nextId \in Ids /\ nextId' \in 1..MaxId + 1 /\ GoWith(t, "upsert", nextId)
  BY MaxIdAssumption DEF Prepared, NewRequest, TypeInv, TypeOK, Ids
<1>3. task' \in [Tasks -> TaskRecords] /\ \A u \in Tasks : Located(task'[u])
  BY <1>1, <1>2, PcNames, GoWithType DEF FitsIn, Fits, OriginPcs, IdPcs, EarlyPcs, SweepPcs, RowsPcs, PermsPcs, DiscPcs
<1> QED BY <1>3, <1>1, <1>2 DEF TypeInv, TypeOK, Prepared, persistent, memory, catalog, history, NewRequest, TaskRecords, Kinds

LEMMA EnqueueType ==
  ASSUME TypeInv, NEW t \in Tasks, Enqueue(t) PROVE TypeInv'
<1> DEFINE o == task[t].origin
           mine == {i \in LiveIds(task[t].rows) :
                       request[i] = [origin |-> o, kind |-> "getPublicKey"]}
<1>1. task[t] \in TaskRecords /\ FitsIn(task[t]) /\ task[t].pc = "find" /\ o \in Origins
  BY DEF Enqueue, At, TypeInv, TypeOK, Located, FitsIn, Fits, OriginPcs
<1>2. \A p \in {"popup", "upsert"}, i \in Ids :
        p \in Pcs /\ Fits(p, task[t].op, o, i, task[t].ret, task[t].yes)
  BY <1>1, PcNames DEF FitsIn, Fits, OriginPcs, IdPcs, EarlyPcs, SweepPcs, RowsPcs, PermsPcs, DiscPcs
<1>3. CASE \E i \in mine : inflight[o] = i /\ GoWith(t, "popup", i)
                          /\ UNCHANGED <<resolvers, inflight, catalog>>
  <2>1. PICK i \in Ids : GoWith(t, "popup", i)
    BY <1>3 DEF LiveIds
  <2>2. task' \in [Tasks -> TaskRecords] /\ \A u \in Tasks : Located(task'[u])
    BY <1>2, <2>1, GoWithType
  <2> QED BY <1>3, <2>2 DEF Enqueue, TypeInv, TypeOK, persistent, catalog, history
<1>4. CASE \E i \in mine :
            /\ resolvers' = resolvers \cup {i}
            /\ inflight' = [inflight EXCEPT ![o] = i]
            /\ task' = [u \in Tasks |->
                  IF u = t THEN [To(task[t], "popup") EXCEPT !.id = i]
                  ELSE IF Holds(u, i) THEN [task[u] EXCEPT !.ret = "orphaned"]
                  ELSE task[u]]
            /\ UNCHANGED catalog
  <2>1. PICK i \in Ids :
            /\ resolvers' = resolvers \cup {i}
            /\ inflight' = [inflight EXCEPT ![o] = i]
            /\ task' = [u \in Tasks |->
                  IF u = t THEN [To(task[t], "popup") EXCEPT !.id = i]
                  ELSE IF Holds(u, i) THEN [task[u] EXCEPT !.ret = "orphaned"]
                  ELSE task[u]]
            /\ UNCHANGED catalog
    BY <1>4 DEF LiveIds
  <2>2. Located(task'[t])
    <3> DEFINE q == To(task[t], "popup")
    <3>1. Located([q EXCEPT !.id = i])
      BY <1>1, <1>2, ToType DEF Located, FitsIn, TaskRecords
    <3> QED BY <2>1, <3>1
  <2>3. ASSUME NEW u \in Tasks \ {t} PROVE Located(task'[u])
    <3>1. CASE Holds(u, i)
      BY <2>1, <3>1, AnsweredType DEF Holds, TypeInv
    <3>2. CASE ~Holds(u, i)
      BY <2>1, <3>2 DEF TypeInv
    <3> QED BY <3>1, <3>2
  <2>4. task' \in [Tasks -> TaskRecords] /\ \A u \in Tasks : Located(task'[u])
    BY <2>1, <2>2, <2>3 DEF Located
  <2> QED BY <1>1, <2>1, <2>4 DEF Enqueue, TypeInv, TypeOK, persistent, catalog, history
<1>5. CASE inflight[o] # 0 /\ GoWith(t, "popup", inflight[o])
           /\ UNCHANGED <<resolvers, inflight, catalog>>
  <2>1. inflight[o] \in Ids
    BY <1>1, <1>5 DEF TypeInv, TypeOK
  <2>2. task' \in [Tasks -> TaskRecords] /\ \A u \in Tasks : Located(task'[u])
    BY <1>2, <1>5, <2>1, GoWithType
  <2> QED BY <1>5, <2>2 DEF Enqueue, TypeInv, TypeOK, persistent, catalog, history
<1>6. CASE NewRequest(t, "getPublicKey") /\ inflight' = [inflight EXCEPT ![o] = nextId]
  <2>1. nextId \in Ids /\ nextId' \in 1..MaxId + 1
    BY <1>6, MaxIdAssumption DEF NewRequest, TypeInv, TypeOK, Ids
  <2>2. task' \in [Tasks -> TaskRecords] /\ \A u \in Tasks : Located(task'[u])
    BY <1>2, <1>6, <2>1, GoWithType DEF NewRequest
  <2>3. request' \in [Ids -> [origin : Origins \cup {NoOrigin}, kind : Kinds]]
    BY <1>1, <1>6, <2>1 DEF NewRequest, TypeInv, TypeOK, Kinds
  <2> QED BY <1>1, <1>6, <2>1, <2>2, <2>3 DEF Enqueue, NewRequest, TypeInv, TypeOK, persistent, history
<1> QED BY <1>3, <1>4, <1>5, <1>6 DEF Enqueue

-----------------------------------------------------------------------------
(* Decisions. *)
LEMMA GetBeforeType ==
  ASSUME TypeInv, NEW t \in Tasks, GetBefore(t) PROVE TypeInv'
<1> DEFINE q == To(task[t], "resolve")
           r == [q EXCEPT !.origin = OriginIn(t)]
<1>1. task[t] \in TaskRecords /\ FitsIn(task[t]) /\ task[t].pc \in {"get"}
  BY DEF GetBefore, At, TypeInv, TypeOK, Located
<1>2. q \in TaskRecords /\ q.pc = "resolve" /\ q.op = task[t].op /\ q.origin = task[t].origin
      /\ q.id = task[t].id /\ q.ret = task[t].ret /\ q.yes = task[t].yes
      /\ q.todo = task[t].todo
  BY <1>1, PcNames, ToType DEF RowsPcs, PermsPcs, DiscPcs
<1>3. OriginIn(t) \in Origins \cup {NoOrigin}
  BY <1>1 DEF OriginIn, FitsIn, Fits, IdPcs, TypeInv, TypeOK, TaskRecords
<1>4. Located(r)
  BY <1>1, <1>2, <1>3 DEF Located, FitsIn, Fits, OriginPcs, IdPcs, EarlyPcs, SweepPcs, TaskRecords
<1>5. task' = [task EXCEPT ![t] = r]
  BY DEF GetBefore
<1>6. task' \in [Tasks -> TaskRecords] /\ \A u \in Tasks : Located(task'[u])
  BY <1>4, <1>5, SlotType
<1> QED BY <1>6 DEF TypeInv, TypeOK, GetBefore, persistent, memory, catalog, history

LEMMA ResolveRowType ==
  ASSUME TypeInv, NEW t \in Tasks, ResolveRow(t) PROVE TypeInv'
<1>1. task[t] \in TaskRecords /\ FitsIn(task[t]) /\ task[t].pc = "resolve" /\ task[t].id \in Ids
  BY DEF ResolveRow, At, TypeInv, TypeOK, Located, FitsIn, Fits, IdPcs
<1>2. OriginIn(t) \in Origins \cup {NoOrigin}
  BY <1>1 DEF OriginIn, TypeInv, TypeOK, TaskRecords
<1> DEFINE q   == To(task[t], "wake")
           a   == Verdict(task[t].rows[task[t].id], task[t].yes)
           o   == IF task[t].op \in UiOps THEN OriginIn(t) ELSE task[t].origin
<1>3. task' = [task EXCEPT ![t] = [q EXCEPT !.ret = a, !.origin = o]]
  BY DEF ResolveRow
<1>4. a \in {"approved", "rejected"} /\ o \in Origins \cup {NoOrigin}
  BY <1>1, <1>2 DEF Verdict, TaskRecords
<1> HIDE DEF a, o
<1>5. Located([q EXCEPT !.ret = a, !.origin = o])
  <2> DEFINE r == [q EXCEPT !.ret = a, !.origin = o]
  <2>1. q \in TaskRecords /\ q.pc = "wake" /\ q.op = task[t].op /\ q.id = task[t].id
        /\ q.yes = task[t].yes
    BY <1>1, PcNames, ToType
  <2>2. r \in TaskRecords /\ r.ret = a
    BY <1>4, <2>1 DEF TaskRecords, Answers
  <2>3. r.pc = "wake" /\ r.op = task[t].op /\ r.id = task[t].id /\ r.yes = task[t].yes
    BY <2>1 DEF TaskRecords
  <2> HIDE DEF r
  <2>4. Located(r)
    BY <1>1, <1>4, <2>2, <2>3 DEF Located, FitsIn, Fits, OriginPcs, IdPcs, EarlyPcs, SweepPcs
  <2> QED BY <2>4 DEF r
<1>6. task' \in [Tasks -> TaskRecords] /\ \A u \in Tasks : Located(task'[u])
  BY <1>3, <1>5, SlotType
<1>7. store' \in Stores
  BY <1>1, PutType DEF ResolveRow, TypeInv, TypeOK, TaskRecords, Statuses, TerminalStatuses
<1> QED BY <1>6, <1>7 DEF TypeInv, TypeOK, ResolveRow, memory, catalog, history

LEMMA WakeType ==
  ASSUME TypeInv, NEW t \in Tasks, Wake(t) PROVE TypeInv'
<1> DEFINE i == task[t].id
           p == IF task[t].op \in UiOps THEN "reply" ELSE "next"
           q == To(task[t], p)
           r == [q EXCEPT !.ret = IF task[t].op \in UiOps THEN "ok" ELSE "none"]
<1>1. /\ task[t] \in TaskRecords /\ FitsIn(task[t]) /\ i \in Ids
      /\ task[t].ret \in {"approved", "rejected"}
  BY DEF Wake, At, TypeInv, TypeOK, Located, FitsIn, Fits, IdPcs
<1>2. task' = [u \in Tasks |->
                 IF u = t THEN r
                 ELSE IF i \in resolvers /\ Holds(u, i)
                      THEN [task[u] EXCEPT !.ret = task[t].ret] ELSE task[u]]
  BY DEF Wake
<1>3. Located(r)
  <2>1. q \in TaskRecords /\ q.pc = p /\ q.op = task[t].op /\ q.origin = task[t].origin
        /\ q.id = task[t].id /\ q.yes = task[t].yes
    BY <1>1, PcNames, ToType
  <2>2. task[t].op \in Decisions \cup Sweeps /\ task[t].pc = "wake"
    BY <1>1 DEF Wake, At, FitsIn, Fits
  <2>3. r \in TaskRecords /\ r.pc = p /\ r.ret = (IF task[t].op \in UiOps THEN "ok" ELSE "none")
    BY <2>1 DEF TaskRecords, Answers
  <2>4. r.op = task[t].op /\ r.origin = task[t].origin /\ r.id = i /\ r.yes = task[t].yes
    BY <2>1 DEF TaskRecords
  <2> HIDE DEF r
  <2>5. Located(r)
    BY <1>1, <2>2, <2>3, <2>4
    DEF Located, FitsIn, Fits, OriginPcs, IdPcs, EarlyPcs, SweepPcs, UiOps, Decisions, Sweeps
  <2> QED BY <2>5 DEF r
<1>4. ASSUME NEW u \in Tasks \ {t} PROVE Located(task'[u])
  <2>1. CASE i \in resolvers /\ Holds(u, i)
    BY <1>1, <1>2, <2>1, AnsweredType DEF Holds, TypeInv
  <2>2. CASE ~(i \in resolvers /\ Holds(u, i))
    BY <1>2, <2>2 DEF TypeInv
  <2> QED BY <2>1, <2>2
<1>5. task' \in [Tasks -> TaskRecords] /\ \A u \in Tasks : Located(task'[u])
  BY <1>2, <1>3, <1>4 DEF Located
<1>6. inflight' \in [Origins -> Ids \cup {0}] /\ resolvers' \subseteq Ids
      /\ suppressed' \subseteq Origins
  BY <1>1 DEF Wake, InflightAfterSettling, TypeInv, TypeOK, TaskRecords
<1>7. tracked' \subseteq Windows /\ windowOf' \in [Origins -> Windows \cup {NoWindow}]
  BY <1>1 DEF Wake, CloseWindowOf, TypeInv, TypeOK, TaskRecords
<1> QED BY <1>5, <1>6, <1>7 DEF Wake, TypeInv, TypeOK, persistent, catalog, history

LEMMA SignSubmittedType ==
  ASSUME TypeInv, NEW t \in Tasks, SignSubmitted(t) PROVE TypeInv'
<1> DEFINE q == To(task[t], "resolve")
           r == [q EXCEPT !.yes = TRUE]
<1>1. task[t] \in TaskRecords /\ FitsIn(task[t]) /\ task[t].pc \in {"sign"}
  BY DEF SignSubmitted, At, TypeInv, TypeOK, Located
<1>2. q \in TaskRecords /\ q.pc = "resolve" /\ q.op = task[t].op /\ q.id = task[t].id
      /\ q.ret = task[t].ret
  BY <1>1, PcNames, ToType DEF RowsPcs, PermsPcs, DiscPcs
<1>3. Located(r)
  BY <1>1, <1>2 DEF Located, FitsIn, Fits, OriginPcs, IdPcs, EarlyPcs, SweepPcs, TaskRecords
<1>4. task' = [task EXCEPT ![t] = r]
  BY DEF SignSubmitted
<1>5. task[t].id \in Ids
  BY <1>1 DEF FitsIn, Fits, IdPcs
<1>6. task' \in [Tasks -> TaskRecords] /\ \A u \in Tasks : Located(task'[u])
  BY <1>3, <1>4, SlotType
<1> QED BY <1>5, <1>6 DEF TypeInv, TypeOK, SignSubmitted, persistent, memory, catalog

LEMMA ListType ==
  ASSUME TypeInv, NEW t \in Tasks, List(t) PROVE TypeInv'
<1>1. task[t] \in TaskRecords /\ FitsIn(task[t]) /\ task[t].pc \in {"list"}
  BY DEF List, At, TypeInv, TypeOK, Located
<1>2. LiveIds(task[t].rows) \subseteq Ids /\ ToReject(t) \subseteq Ids
  BY DEF LiveIds, ToReject
<1>3. ASSUME task[t].op = "LIST_PENDING_DAPP_REQUESTS"
      PROVE  task' \in [Tasks -> TaskRecords] /\ \A u \in Tasks : Located(task'[u])
  <2> DEFINE q == To(task[t], "reply")
             r == [q EXCEPT !.todo = LiveIds(task[t].rows), !.ret = "ok"]
  <2>1. q \in TaskRecords /\ q.pc = "reply" /\ q.op = task[t].op /\ q.yes = task[t].yes
        /\ q.id = task[t].id
    BY <1>1, PcNames, ToType
  <2>2. Located(r)
    BY <1>1, <1>2, <2>1 DEF Located, FitsIn, Fits, OriginPcs, IdPcs, EarlyPcs, SweepPcs, TaskRecords, Answers
  <2>3. task' = [task EXCEPT ![t] = r]
    BY <1>3 DEF List
  <2> QED BY <2>2, <2>3, SlotType
<1>4. ASSUME task[t].op # "LIST_PENDING_DAPP_REQUESTS"
      PROVE  task' \in [Tasks -> TaskRecords] /\ \A u \in Tasks : Located(task'[u])
  <2> DEFINE q == To(task[t], "next")
             r == [q EXCEPT !.todo = ToReject(t)]
  <2>1. q \in TaskRecords /\ q.pc = "next" /\ q.op = task[t].op /\ q.yes = task[t].yes
        /\ q.ret = task[t].ret /\ q.id = task[t].id
    BY <1>1, PcNames, ToType
  <2>2. Located(r)
    BY <1>1, <1>2, <2>1 DEF Located, FitsIn, Fits, OriginPcs, IdPcs, EarlyPcs, SweepPcs, TaskRecords
  <2>3. task' = [task EXCEPT ![t] = r]
    BY <1>4 DEF List
  <2> QED BY <2>2, <2>3, SlotType
<1>5. task' \in [Tasks -> TaskRecords] /\ \A u \in Tasks : Located(task'[u])
  BY <1>3, <1>4
<1> QED BY <1>5 DEF TypeInv, TypeOK, List, persistent, memory, catalog, history

LEMMA RejectNextType ==
  ASSUME TypeInv, NEW t \in Tasks, RejectNext(t) PROVE TypeInv'
<1> DEFINE q == To(task[t], "resolve")
<1>1. task[t] \in TaskRecords /\ FitsIn(task[t]) /\ task[t].pc \in {"next"}
  BY DEF RejectNext, At, TypeInv, TypeOK, Located
<1>2. q \in TaskRecords /\ q.pc = "resolve" /\ q.op = task[t].op /\ q.todo = task[t].todo
      /\ q.ret = task[t].ret /\ q.yes = task[t].yes
  BY <1>1, PcNames, ToType DEF RowsPcs, PermsPcs, DiscPcs
<1>3. PICK i \in Ids :
        /\ task' = [task EXCEPT ![t] = [q EXCEPT !.id = i, !.todo = task[t].todo \ {i}]]
        /\ inflight' \in [Origins -> Ids \cup {0}]
  BY <1>1 DEF RejectNext, TaskRecords, TypeInv, TypeOK
<1>4. Located([q EXCEPT !.id = i, !.todo = task[t].todo \ {i}])
  BY <1>1, <1>2 DEF Located, FitsIn, Fits, OriginPcs, IdPcs, EarlyPcs, SweepPcs, TaskRecords
<1>5. task' \in [Tasks -> TaskRecords] /\ \A u \in Tasks : Located(task'[u])
  BY <1>3, <1>4, SlotType
<1> QED BY <1>3, <1>5 DEF TypeInv, TypeOK, RejectNext, persistent, memory, catalog, history

LEMMA RejectDoneType ==
  ASSUME TypeInv, NEW t \in Tasks, RejectDone(t) PROVE TypeInv'
<1>1. task[t] \in TaskRecords /\ FitsIn(task[t]) /\ task[t].pc \in {"next"}
  BY DEF RejectDone, At, TypeInv, TypeOK, Located
<1>2. Fits("clear", task[t].op, task[t].origin, task[t].id, task[t].ret, task[t].yes)
  BY <1>1 DEF FitsIn, Fits, OriginPcs, IdPcs, EarlyPcs, SweepPcs
<1>3. task' \in [Tasks -> TaskRecords] /\ \A u \in Tasks : Located(task'[u])
  BY <1>2, PcNames, GoType, AnswerType DEF RejectDone, Answers
<1> QED BY <1>3 DEF TypeInv, TypeOK, RejectDone, persistent, catalog, history

LEMMA ClearAllType ==
  ASSUME TypeInv, NEW t \in Tasks, ClearAll(t) PROVE TypeInv'
<1>1. task[t] \in TaskRecords /\ FitsIn(task[t]) /\ task[t].pc \in {"clear"}
  BY DEF ClearAll, At, TypeInv, TypeOK, Located
<1>2. Fits("wipe", task[t].op, task[t].origin, task[t].id, task[t].ret, task[t].yes)
  BY <1>1 DEF FitsIn, Fits, OriginPcs, IdPcs, EarlyPcs, SweepPcs
<1>3. task' \in [Tasks -> TaskRecords] /\ \A u \in Tasks : Located(task'[u])
  BY <1>2, PcNames, GoType, IdleType, SlotType DEF ClearAll
<1> QED BY <1>3, EmptyStoreType DEF TypeInv, TypeOK, ClearAll, memory, catalog, history

LEMMA ReplyType ==
  ASSUME TypeInv, NEW t \in Tasks, Reply(t) PROVE TypeInv'
<1>1. task' \in [Tasks -> TaskRecords] /\ \A u \in Tasks : Located(task'[u])
  BY IdleType, SlotType DEF Reply
<1> QED BY <1>1 DEF TypeInv, TypeOK, Reply, persistent, memory, catalog, history

-----------------------------------------------------------------------------
(* Time and faults. *)
LEMMA TickType == ASSUME TypeInv, Tick PROVE TypeInv'
<1>1. \A u \in Tasks : Located(task'[u])
  <2> SUFFICES ASSUME NEW u \in Tasks PROVE Located(task'[u])
    OBVIOUS
  <2>1. task[u] \in TaskRecords /\ Located(task[u]) /\ task[u].rows \in Stores
    BY DEF TypeInv, TypeOK, TaskRecords
  <2>2. task'[u] = [task[u] EXCEPT !.rows = Older(task[u].rows)]
    BY DEF Tick
  <2>3. task'[u] \in TaskRecords
    BY <2>1, <2>2, OlderType DEF TaskRecords
  <2>4. /\ task'[u].pc = task[u].pc /\ task'[u].op = task[u].op
        /\ task'[u].origin = task[u].origin /\ task'[u].id = task[u].id
        /\ task'[u].ret = task[u].ret /\ task'[u].yes = task[u].yes
    BY <2>1, <2>2 DEF TaskRecords
  <2> QED BY <2>1, <2>3, <2>4, SamePlace
<1>2. task' \in [Tasks -> TaskRecords]
  BY <1>1 DEF Tick, Located
<1> QED BY <1>1, <1>2, OlderType DEF TypeInv, TypeOK, Tick, memory, catalog, history

LEMMA CooldownOverType == ASSUME TypeInv, NEW o \in Origins, CooldownOver(o) PROVE TypeInv'
  BY DEF TypeInv, TypeOK, CooldownOver, persistent, catalog, history

\* A restart leaves no handler and no memory.
LEMMA ForgetMemoryType ==
  ASSUME ForgetMemory
  PROVE  /\ resolvers' = {} /\ inflight' \in [Origins -> Ids \cup {0}] /\ suppressed' = {}
         /\ tracked' = {} /\ windowOf' \in [Origins -> Windows \cup {NoWindow}]
         /\ task' \in [Tasks -> TaskRecords] /\ \A u \in Tasks : Located(task'[u])
  BY IdleType DEF ForgetMemory

LEMMA RestartType == ASSUME TypeInv, SwRestart \/ BrowserRestart PROVE TypeInv'
  BY ForgetMemoryType, EmptyStoreType
  DEF TypeInv, TypeOK, SwRestart, BrowserRestart, persistent, catalog, history

-----------------------------------------------------------------------------
LEMMA InitType == Init => TypeInv
  BY EmptyStoreType, IdleType, MaxIdAssumption DEF Init, TypeInv, TypeOK, Kinds, Ids

LEMMA NextType == TypeInv /\ [Next]_vars => TypeInv'
<1> SUFFICES ASSUME TypeInv, [Next]_vars PROVE TypeInv'
  OBVIOUS
<1>1. CASE UNCHANGED vars
  BY <1>1 DEF TypeInv, TypeOK, vars, persistent, memory, catalog, history
<1>2. ASSUME NEW t \in Tasks, Dapp(t) PROVE TypeInv'
  BY <1>2, DappCallType, PollType DEF Dapp
<1>3. ASSUME NEW t \in Tasks, User(t) PROVE TypeInv'
  BY <1>3, ResolveType, ExecuteType, ListPendingType, LogoutType, WindowClosedType DEF User
<1>4. ASSUME NEW t \in Tasks, Handle(t) PROVE TypeInv'
  <2>1. CASE ReadRows(t) \/ Prune(t) \/ ReadLocal(t)
    BY <2>1, ReadRowsType, PruneType, ReadLocalType
  <2>2. CASE CheckPermission(t) \/ AssertPromptAllowed(t) \/ Enqueue(t) \/ Upsert(t)
             \/ OpenPopup(t) \/ CreateWindow(t) \/ Decided(t) \/ Grant(t) \/ Unmark(t)
    BY <2>2, CheckPermissionType, AssertPromptAllowedType, EnqueueType, UpsertType,
       OpenPopupType, CreateWindowType, DecidedType, GrantType, UnmarkType
  <2>3. CASE CheckAllowed(t) \/ Prepared(t) \/ PrepareFailed(t) \/ PollRow(t)
             \/ PollPermission(t)
    BY <2>3, CheckAllowedType, PreparedType, PrepareFailedType, PollRowType, PollPermissionType
  <2>4. CASE GetBefore(t) \/ ResolveRow(t) \/ Wake(t) \/ MarkSigning(t) \/ SignSubmitted(t)
             \/ SignFailed(t)
    BY <2>4, GetBeforeType, ResolveRowType, WakeType, MarkSigningType, SignSubmittedType,
       SignFailedType
  <2>5. CASE MarkDisconnected(t) \/ Forget(t) \/ CloseWindow(t) \/ List(t) \/ RejectNext(t)
             \/ RejectDone(t) \/ ClearAll(t) \/ Wipe(t)
    BY <2>5, MarkDisconnectedType, ForgetType, CloseWindowType, ListType, RejectNextType,
       RejectDoneType, ClearAllType, WipeType
  <2> QED BY <1>4, <2>1, <2>2, <2>3, <2>4, <2>5 DEF Handle
<1>5. ASSUME NEW t \in Tasks, Reply(t) PROVE TypeInv'
  BY <1>5, ReplyType
<1>6. CASE Environment
  BY <1>6, TickType, CooldownOverType, RestartType DEF Environment
<1> QED BY <1>1, <1>2, <1>3, <1>4, <1>5, <1>6 DEF Next

\* Type correctness, and where handlers stand, in every reachable state.
THEOREM TypeCorrect == Spec => []TypeInv
  BY InitType, NextType, PTL DEF Spec

\* TypeOK, the type invariant the runs check, in every reachable state.
THEOREM Typed == Spec => []TypeOK
<1>1. TypeInv => TypeOK
  BY DEF TypeInv
<1> QED BY <1>1, TypeCorrect, PTL

-----------------------------------------------------------------------------
(* Consent. *)

(* The operators take the catalog n, q (nextId, request) and the history a,   *)
(* s (userApproved, signed) as parameters: the same copy of a row or of the   *)
(* permissions is judged before and after a step.                             *)

\* The user approved a connect request of origin o.
Granted(o, q, a) == \E i \in a : q[i] = [origin |-> o, kind |-> "getPublicKey"]

\* Request i was approved by the user, or signed.
Earned(i, q, a, s) == IF q[i].kind = "getPublicKey" THEN i \in a ELSE i \in s

\* Rows, and copies of them, name requests that were handed out; the approved
\* ones are earned.
RowsEarned(rows, n, q, a, s) ==
    \A i \in Ids : rows[i].status # "none" =>
        i < n /\ (rows[i].status = "approved" => Earned(i, q, a, s))

\* What a handler knows, has copied, is about to write or to answer is earned.
Honest(r, n, q, a, s) ==
    /\ r.id < n /\ \A i \in r.todo : i < n
    /\ RowsEarned(r.rows, n, q, a, s)
    /\ \A o \in r.perms : Granted(o, q, a)
    /\ (r.yes \/ r.ret = "approved") => Earned(r.id, q, a, s)
    /\ r.pc \in {"allow", "prepare"} => r.op # "DAPP_OPEN_SIGN_REQUEST"
    /\ r.pc \in {"mark", "sign"} => q[r.id].kind # "getPublicKey"
    /\ (r.op = "DAPP_OPEN_SIGN_REQUEST" /\ r.id # 0) =>
          q[r.id] = [origin |-> r.origin, kind |-> "getPublicKey"]
    /\ r.pc \in {"pollPerms", "grant"} => Granted(r.origin, q, a)
    /\ (r.pc = "unmark" /\ r.op = "DAPP_POLL_REQUEST_RESULT") => Granted(r.origin, q, a)
    /\ r.ret = "connected" => Granted(r.origin, q, a)
    /\ r.ret = "signed" => r.id \in s /\ q[r.id].origin = r.origin

RowsConsent  == RowsEarned(store, nextId, request, userApproved, signed)
PermsConsent == \A o \in permissions : Granted(o, request, userApproved)
Handed       == \A i \in userApproved \cup signed : i < nextId
InflightOK   ==
    \A o \in Origins : inflight[o] # 0 =>
        /\ inflight[o] < nextId /\ inflight[o] \in resolvers
        /\ request[inflight[o]] = [origin |-> o, kind |-> "getPublicKey"]
TasksHonest  == \A t \in Tasks : Honest(task[t], nextId, request, userApproved, signed)

Consent == RowsConsent /\ PermsConsent /\ Handed /\ InflightOK /\ TasksHonest

-----------------------------------------------------------------------------
(* Rows. *)
LEMMA EmptyEarned ==
  ASSUME NEW n, NEW q, NEW a, NEW s PROVE RowsEarned(EmptyStore, n, q, a, s)
  BY DEF RowsEarned, EmptyStore, Absent

\* The sweep approves nothing.
LEMMA ExpireEarned ==
  ASSUME NEW rows \in Stores, NEW n, NEW q, NEW a, NEW s, RowsEarned(rows, n, q, a, s)
  PROVE  RowsEarned(Expire(rows), n, q, a, s)
  BY DEF RowsEarned, Stores, Rows, Expire, Swept, Absent, Live, LiveStatuses

LEMMA OlderEarned ==
  ASSUME NEW rows \in Stores, NEW n, NEW q, NEW a, NEW s, RowsEarned(rows, n, q, a, s)
  PROVE  RowsEarned(Older(rows), n, q, a, s)
  BY DEF RowsEarned, Stores, Rows, Older

LEMMA PutEarned ==
  ASSUME NEW rows \in Stores, NEW n, NEW q, NEW a, NEW s, RowsEarned(rows, n, q, a, s),
         NEW i \in Ids, i < n, NEW st, st = "approved" => Earned(i, q, a, s)
  PROVE  RowsEarned(Put(rows, i, st), n, q, a, s)
  BY DEF RowsEarned, Stores, Put

-----------------------------------------------------------------------------
(* Handlers' records, while the catalog and the history stay. *)
HonestNow(r) == Honest(r, nextId, request, userApproved, signed)

LEMMA ToHonest ==
  ASSUME NEW r \in TaskRecords, NEW p \in Pcs, HonestNow(r),
         p \in {"allow", "prepare"} => r.op # "DAPP_OPEN_SIGN_REQUEST",
         p \in {"mark", "sign"} => request[r.id].kind # "getPublicKey",
         p \in {"pollPerms", "grant"} => Granted(r.origin, request, userApproved),
         (p = "unmark" /\ r.op = "DAPP_POLL_REQUEST_RESULT") =>
             Granted(r.origin, request, userApproved)
  PROVE  HonestNow(To(r, p))
  BY ToType, EmptyEarned DEF HonestNow, Honest

LEMMA SlotHonest ==
  ASSUME TypeInv, Consent, NEW t \in Tasks, NEW r, HonestNow(r), task' = [task EXCEPT ![t] = r],
         UNCHANGED <<catalog, history>>
  PROVE  TasksHonest'
  BY DEF TypeInv, TypeOK, Consent, TasksHonest, HonestNow, catalog, history

\* Consent survives a step that only moves handlers.
LEMMA KeptConsent ==
  ASSUME Consent, TasksHonest',
         UNCHANGED <<store, permissions, resolvers, inflight, catalog, history>>
  PROVE  Consent'
  BY DEF Consent, RowsConsent, PermsConsent, Handed, InflightOK, catalog, history

LEMMA GoHonest ==
  ASSUME TypeInv, Consent, NEW t \in Tasks, NEW p \in Pcs, Go(t, p),
         p \in {"allow", "prepare"} => task[t].op # "DAPP_OPEN_SIGN_REQUEST",
         p \in {"mark", "sign"} => request[task[t].id].kind # "getPublicKey",
         p \in {"pollPerms", "grant"} => Granted(task[t].origin, request, userApproved),
         (p = "unmark" /\ task[t].op = "DAPP_POLL_REQUEST_RESULT") =>
             Granted(task[t].origin, request, userApproved),
         UNCHANGED <<catalog, history>>
  PROVE  TasksHonest'
<1>1. task[t] \in TaskRecords /\ HonestNow(task[t])
  BY DEF TypeInv, TypeOK, Consent, TasksHonest, HonestNow
<1>2. HonestNow(To(task[t], p))
  BY <1>1, ToHonest
<1> QED BY <1>2, SlotHonest DEF Go

LEMMA AnswerHonest ==
  ASSUME TypeInv, Consent, NEW t \in Tasks, NEW a \in Answers, Answer(t, a), a # "approved",
         a = "connected" => Granted(task[t].origin, request, userApproved),
         a = "signed" => /\ task[t].id \in signed
                         /\ request[task[t].id].origin = task[t].origin,
         UNCHANGED <<catalog, history>>
  PROVE  TasksHonest'
<1> DEFINE q == To(task[t], "reply")
           r == [q EXCEPT !.ret = a]
<1>1. task[t] \in TaskRecords /\ HonestNow(task[t])
  BY DEF TypeInv, TypeOK, Consent, TasksHonest, HonestNow
<1>2. HonestNow(q) /\ q \in TaskRecords /\ q.id = task[t].id /\ q.origin = task[t].origin
      /\ q.pc = "reply"
  BY <1>1, PcNames, ToHonest, ToType
<1>3. HonestNow(r)
  BY <1>2 DEF HonestNow, Honest, TaskRecords
<1> QED BY <1>3, SlotHonest DEF Answer

\* A message that carries no decision arrives.
LEMMA BeginHonest ==
  ASSUME TypeInv, Consent, NEW t \in Tasks, NEW op \in HandlerOps, NEW p \in Pcs,
         NEW o \in Origins \cup {NoOrigin}, NEW i \in Ids \cup {0},
         Begin(t, op, p, o, i, FALSE), i < nextId, i = 0 \/ op # "DAPP_OPEN_SIGN_REQUEST",
         p \notin {"allow", "prepare", "pollPerms", "grant", "sign"}, 
         p = "unmark" => op = "DAPP_PAGE_SESSION_START",
         p = "mark" => request[i].kind # "getPublicKey", UNCHANGED <<catalog, history>>
  PROVE  TasksHonest'
<1> DEFINE q == To(Idle, p)
           r == [q EXCEPT !.op = op, !.origin = o, !.id = i, !.yes = FALSE]
<1>1. q \in TaskRecords /\ q.pc = p /\ q.ret = "none" /\ q.todo = {} /\ q.perms = {}
      /\ q.rows = EmptyStore
  <2>1. Idle.ret = "none" /\ Idle.todo = {}
    BY DEF Idle
  <2> QED BY <2>1, IdleType, ToType
<1>2. HonestNow(r)
  BY <1>1, EmptyEarned DEF HonestNow, Honest, TaskRecords
<1> QED BY <1>2, SlotHonest DEF Begin

-----------------------------------------------------------------------------
(* The catalog and the history grow. *)
LEMMA LaterEarned ==
  ASSUME NEW n \in Nat, NEW m \in Nat, n <= m, NEW q, NEW p, NEW a, NEW b, NEW s, NEW u,
         \A i \in Ids : i < n => p[i] = q[i], a \subseteq b, s \subseteq u,
         \A i \in a \cup s : i \in Ids /\ i < n
  PROVE  /\ \A o : Granted(o, q, a) => Granted(o, p, b)
         /\ \A i \in Ids : i < n /\ Earned(i, q, a, s) => Earned(i, p, b, u)
         /\ \A rows : RowsEarned(rows, n, q, a, s) => RowsEarned(rows, m, p, b, u)
<1>1. \A o : Granted(o, q, a) => Granted(o, p, b)
  BY DEF Granted
<1>2. \A i \in Ids : i < n /\ Earned(i, q, a, s) => Earned(i, p, b, u)
  BY DEF Earned
<1>3. ASSUME NEW rows, RowsEarned(rows, n, q, a, s) PROVE RowsEarned(rows, m, p, b, u)
  <2>1. ASSUME NEW i \in Ids, rows[i].status # "none"
        PROVE  i < m /\ (rows[i].status = "approved" => Earned(i, p, b, u))
    <3>1. i < n /\ (rows[i].status = "approved" => Earned(i, q, a, s))
      BY <1>3, <2>1 DEF RowsEarned
    <3>2. i < m
      BY <3>1 DEF Ids
    <3> QED BY <1>2, <3>1, <3>2
  <2> QED BY <2>1 DEF RowsEarned
<1> QED BY <1>1, <1>2, <1>3

\* What was honest stays honest.  No handler without a request is told
\* "approved", decides, or was signed.
LEMMA LaterHonest ==
  ASSUME NEW n \in Nat, NEW m \in Nat, n <= m, NEW q, NEW p, NEW a, NEW b, NEW s, NEW u,
         \A i \in Ids : i < n => p[i] = q[i], a \subseteq b, s \subseteq u,
         \A i \in a \cup s : i \in Ids /\ i < n,
         NEW r, Located(r), Honest(r, n, q, a, s)
  PROVE  Honest(r, m, p, b, u)
<1>1. /\ \A o : Granted(o, q, a) => Granted(o, p, b)
      /\ \A i \in Ids : i < n /\ Earned(i, q, a, s) => Earned(i, p, b, u)
      /\ \A rows : RowsEarned(rows, n, q, a, s) => RowsEarned(rows, m, p, b, u)
  BY LaterEarned
<1>2. r \in TaskRecords /\ FitsIn(r) /\ r.id \in Ids \cup {0} /\ r.todo \subseteq Ids
  BY DEF Located, TaskRecords
<1>3. r.id < m /\ \A i \in r.todo : i < m
  BY <1>2 DEF Honest, Ids
<1>4. (r.yes \/ r.ret = "approved") => r.id \in Ids
  BY <1>2 DEF FitsIn, Fits
<1> QED BY <1>1, <1>2, <1>3, <1>4 DEF Honest, FitsIn, Fits, IdPcs

-----------------------------------------------------------------------------
(* Messages arrive. *)
LEMMA DappCallConsent ==
  ASSUME TypeInv, Consent, NEW t \in Tasks, NEW op \in DappOps, NEW o \in Origins,
         DappCall(t, op, o)
  PROVE  Consent'
<1>1. Begin(t, op, FirstPc(op), o, 0, FALSE)
      /\ UNCHANGED <<catalog, history>>
  BY DEF DappCall
<1>2. FirstPc(op) \in {"perms", "markDisconnected", "unmark"} /\ op \in HandlerOps
      /\ (FirstPc(op) = "unmark" => op = "DAPP_PAGE_SESSION_START")
  BY DEF DappCall, DappOps, Requests, FirstPc, HandlerOps
<1>3. FirstPc(op) \in Pcs /\ 0 < nextId
  BY <1>2, MaxIdAssumption, PcNames DEF TypeInv, TypeOK, RowsPcs, PermsPcs, DiscPcs
<1>4. TasksHonest'
  BY <1>1, <1>2, <1>3, BeginHonest
<1> QED BY <1>4, KeptConsent DEF DappCall, persistent, memory

LEMMA PollConsent ==
  ASSUME TypeInv, Consent, NEW t \in Tasks, NEW o \in Origins, NEW i \in Ids,
         Poll(t, o, i)
  PROVE  Consent'
<1>1. Begin(t, "DAPP_POLL_REQUEST_RESULT", "poll", o, i, FALSE)
      /\ UNCHANGED <<catalog, history>>
  BY DEF Poll
<1>2. "DAPP_POLL_REQUEST_RESULT" \in HandlerOps /\ "poll" \in Pcs
      /\ i \in Ids \cup {0} /\ i < nextId
  BY MaxIdAssumption, PcNames
  DEF Poll, TypeInv, TypeOK, RowsPcs, PermsPcs, DiscPcs, HandlerOps, DappOps, UiOps
<1>4. TasksHonest'
  BY <1>1, <1>2, BeginHonest
<1> QED BY <1>4, KeptConsent DEF Poll, persistent, memory

LEMMA ExecuteConsent ==
  ASSUME TypeInv, Consent, NEW t \in Tasks, NEW i \in Ids,
         Execute(t, i)
  PROVE  Consent'
<1>1. Begin(t, "EXECUTE_DAPP_EXTERNAL_SIGN", "mark", NoOrigin, i, FALSE)
      /\ UNCHANGED <<catalog, history>>
  BY DEF Execute
<1>2. "EXECUTE_DAPP_EXTERNAL_SIGN" \in HandlerOps /\ "mark" \in Pcs
      /\ i \in Ids \cup {0} /\ i < nextId
  BY MaxIdAssumption, PcNames
  DEF Execute, TypeInv, TypeOK, RowsPcs, PermsPcs, DiscPcs, HandlerOps, DappOps, UiOps
<1>3. request[i].kind # "getPublicKey"
  BY DEF Execute
<1>4. TasksHonest'
  BY <1>1, <1>2, <1>3, BeginHonest
<1> QED BY <1>4, KeptConsent DEF Execute, persistent, memory

LEMMA ListPendingConsent ==
  ASSUME TypeInv, Consent, NEW t \in Tasks, ListPending(t) PROVE Consent'
<1>1. Begin(t, "LIST_PENDING_DAPP_REQUESTS", "list", NoOrigin, 0, FALSE)
      /\ UNCHANGED <<catalog, history>>
  BY DEF ListPending
<1>2. "LIST_PENDING_DAPP_REQUESTS" \in HandlerOps /\ "list" \in Pcs
      /\ 0 \in Ids \cup {0} /\ 0 < nextId
  BY MaxIdAssumption, PcNames
  DEF ListPending, TypeInv, TypeOK, RowsPcs, PermsPcs, DiscPcs, HandlerOps, DappOps, UiOps
<1>4. TasksHonest'
  BY <1>1, <1>2, BeginHonest
<1> QED BY <1>4, KeptConsent DEF ListPending, persistent, memory

LEMMA LogoutConsent ==
  ASSUME TypeInv, Consent, NEW t \in Tasks, Logout(t) PROVE Consent'
<1>1. Begin(t, "LOGOUT", "clear", NoOrigin, 0, FALSE)
      /\ UNCHANGED <<catalog, history>>
  BY DEF Logout
<1>2. "LOGOUT" \in HandlerOps /\ "clear" \in Pcs
      /\ 0 \in Ids \cup {0} /\ 0 < nextId
  BY MaxIdAssumption, PcNames
  DEF Logout, TypeInv, TypeOK, RowsPcs, PermsPcs, DiscPcs, HandlerOps, DappOps, UiOps
<1>4. TasksHonest'
  BY <1>1, <1>2, BeginHonest
<1> QED BY <1>4, KeptConsent DEF Logout, persistent, memory

LEMMA WindowClosedConsent ==
  ASSUME TypeInv, Consent, NEW t \in Tasks, NEW w \in Windows,
         WindowClosed(t, w)
  PROVE  Consent'
<1>1. Begin(t, "WINDOW_CLOSED", "list", NoOrigin, 0, FALSE)
      /\ UNCHANGED <<catalog, history>>
  BY DEF WindowClosed
<1>2. "WINDOW_CLOSED" \in HandlerOps /\ "list" \in Pcs
      /\ 0 \in Ids \cup {0} /\ 0 < nextId
  BY MaxIdAssumption, PcNames
  DEF WindowClosed, TypeInv, TypeOK, RowsPcs, PermsPcs, DiscPcs, HandlerOps, DappOps, UiOps
<1>4. TasksHonest'
  BY <1>1, <1>2, BeginHonest
<1> QED BY <1>4, KeptConsent DEF WindowClosed, persistent, memory

-----------------------------------------------------------------------------
(* Connecting and signing requests. *)
LEMMA CheckPermissionConsent ==
  ASSUME TypeInv, Consent, NEW t \in Tasks, CheckPermission(t) PROVE Consent'
<1>1. task[t] \in TaskRecords /\ FitsIn(task[t]) /\ HonestNow(task[t]) /\ task[t].pc \in {"perms"}
  BY DEF CheckPermission, At, TypeInv, TypeOK, Located, Consent, TasksHonest, HonestNow
<1>2. \/ \E p \in {"allow", "assert"} : Go(t, p)
             /\ (p = "allow" => task[t].op = "DAPP_SIGN_TRANSACTION")
      \/ \E a \in {"not_connected", "connected", "ok"} : Answer(t, a)
             /\ (a = "connected" => task[t].origin \in task[t].perms)
  BY <1>1 DEF CheckPermission
<1>3. ASSUME NEW p \in {"allow", "assert"}, Go(t, p)
             /\ (p = "allow" => task[t].op = "DAPP_SIGN_TRANSACTION")
      PROVE  TasksHonest'
  BY <1>1, <1>3, PcNames, GoHonest DEF CheckPermission, RowsPcs, PermsPcs, DiscPcs, HonestNow,
     Honest
<1>4. ASSUME NEW a \in {"not_connected", "connected", "ok"}, Answer(t, a)
             /\ (a = "connected" => task[t].origin \in task[t].perms)
      PROVE  TasksHonest'
  BY <1>1, <1>4, AnswerHonest DEF CheckPermission, Answers, HonestNow, Honest
<1>5. TasksHonest'
  BY <1>2, <1>3, <1>4
<1> QED BY <1>5, KeptConsent DEF CheckPermission, persistent, memory

LEMMA AssertPromptAllowedConsent ==
  ASSUME TypeInv, Consent, NEW t \in Tasks, AssertPromptAllowed(t) PROVE Consent'
<1>1. task[t] \in TaskRecords /\ FitsIn(task[t]) /\ HonestNow(task[t])
      /\ task[t].pc \in {"assert", "assertAgain"}
  BY DEF AssertPromptAllowed, At, TypeInv, TypeOK, Located, Consent, TasksHonest, HonestNow
<1>2. \/ \E p \in {"assertAgain", "find"} : Go(t, p)
      \/ \E a \in {"not_connected"} : Answer(t, a)
  BY <1>1 DEF AssertPromptAllowed
<1>3. ASSUME NEW p \in {"assertAgain", "find"}, Go(t, p)
      PROVE  TasksHonest'
  BY <1>1, <1>3, PcNames, GoHonest DEF AssertPromptAllowed, RowsPcs, PermsPcs, DiscPcs,
     HonestNow, Honest
<1>4. ASSUME NEW a \in {"not_connected"}, Answer(t, a)
      PROVE  TasksHonest'
  BY <1>1, <1>4, AnswerHonest DEF AssertPromptAllowed, Answers, HonestNow, Honest
<1>5. TasksHonest'
  BY <1>2, <1>3, <1>4
<1> QED BY <1>5, KeptConsent DEF AssertPromptAllowed, persistent, memory

LEMMA OpenPopupConsent ==
  ASSUME TypeInv, Consent, NEW t \in Tasks, OpenPopup(t) PROVE Consent'
<1>1. task[t] \in TaskRecords /\ FitsIn(task[t]) /\ HonestNow(task[t]) /\ task[t].pc \in {"popup"}
  BY DEF OpenPopup, At, TypeInv, TypeOK, Located, Consent, TasksHonest, HonestNow
<1>2. \/ \E p \in {"waiting", "create"} : Go(t, p)
      \/ \E a \in {"pending"} : Answer(t, a)
  BY <1>1 DEF OpenPopup, Opened
<1>3. ASSUME NEW p \in {"waiting", "create"}, Go(t, p)
      PROVE  TasksHonest'
  BY <1>1, <1>3, PcNames, GoHonest DEF OpenPopup, RowsPcs, PermsPcs, DiscPcs, HonestNow, Honest
<1>4. ASSUME NEW a \in {"pending"}, Answer(t, a)
      PROVE  TasksHonest'
  BY <1>1, <1>4, AnswerHonest DEF OpenPopup, Answers, HonestNow, Honest
<1>5. TasksHonest'
  BY <1>2, <1>3, <1>4
<1> QED BY <1>5, KeptConsent DEF OpenPopup, persistent, memory

LEMMA CreateWindowConsent ==
  ASSUME TypeInv, Consent, NEW t \in Tasks, CreateWindow(t) PROVE Consent'
<1>1. task[t] \in TaskRecords /\ FitsIn(task[t]) /\ HonestNow(task[t])
      /\ task[t].pc \in {"create"}
  BY DEF CreateWindow, At, TypeInv, TypeOK, Located, Consent, TasksHonest, HonestNow
<1>2. \/ \E p \in {"waiting"} : Go(t, p)
      \/ \E a \in {"pending"} : Answer(t, a)
  BY <1>1 DEF CreateWindow, Opened
<1>3. ASSUME NEW p \in {"waiting"}, Go(t, p)
      PROVE  TasksHonest'
  BY <1>1, <1>3, PcNames, GoHonest DEF CreateWindow, RowsPcs, PermsPcs, DiscPcs, HonestNow, Honest
<1>4. ASSUME NEW a \in {"pending"}, Answer(t, a)
      PROVE  TasksHonest'
  BY <1>1, <1>4, AnswerHonest DEF CreateWindow, Answers, HonestNow, Honest
<1>5. TasksHonest'
  BY <1>2, <1>3, <1>4
<1> QED BY <1>5, KeptConsent DEF CreateWindow, persistent, memory

LEMMA CheckAllowedConsent ==
  ASSUME TypeInv, Consent, NEW t \in Tasks, CheckAllowed(t) PROVE Consent'
<1>1. task[t] \in TaskRecords /\ FitsIn(task[t]) /\ HonestNow(task[t]) /\ task[t].pc \in {"allow"}
  BY DEF CheckAllowed, At, TypeInv, TypeOK, Located, Consent, TasksHonest, HonestNow
<1>2. \/ \E p \in {"prepare"} : Go(t, p)
      \/ \E a \in {"not_connected"} : Answer(t, a)
  BY <1>1 DEF CheckAllowed
<1>3. ASSUME NEW p \in {"prepare"}, Go(t, p)
      PROVE  TasksHonest'
  BY <1>1, <1>3, PcNames, GoHonest DEF CheckAllowed, RowsPcs, PermsPcs, DiscPcs, HonestNow, Honest
<1>4. ASSUME NEW a \in {"not_connected"}, Answer(t, a)
      PROVE  TasksHonest'
  BY <1>1, <1>4, AnswerHonest DEF CheckAllowed, Answers, HonestNow, Honest
<1>5. TasksHonest'
  BY <1>2, <1>3, <1>4
<1> QED BY <1>5, KeptConsent DEF CheckAllowed, persistent, memory

LEMMA PrepareFailedConsent ==
  ASSUME TypeInv, Consent, NEW t \in Tasks, PrepareFailed(t) PROVE Consent'
<1>1. task[t] \in TaskRecords /\ FitsIn(task[t]) /\ HonestNow(task[t])
      /\ task[t].pc \in {"prepare"}
  BY DEF PrepareFailed, At, TypeInv, TypeOK, Located, Consent, TasksHonest, HonestNow
<1>2. \E a \in {"failed"} : Answer(t, a)
  BY <1>1 DEF PrepareFailed
<1>4. ASSUME NEW a \in {"failed"}, Answer(t, a)
      PROVE  TasksHonest'
  BY <1>1, <1>4, AnswerHonest DEF PrepareFailed, Answers, HonestNow, Honest
<1>5. TasksHonest'
  BY <1>2, <1>4
<1> QED BY <1>5, KeptConsent DEF PrepareFailed, persistent, memory

LEMMA PollPermissionConsent ==
  ASSUME TypeInv, Consent, NEW t \in Tasks, PollPermission(t) PROVE Consent'
<1>1. task[t] \in TaskRecords /\ FitsIn(task[t]) /\ HonestNow(task[t])
      /\ task[t].pc \in {"pollPerms"}
  BY DEF PollPermission, At, TypeInv, TypeOK, Located, Consent, TasksHonest, HonestNow
<1>2. \/ \E p \in {"grant"} : Go(t, p)
      \/ \E a \in {"connected"} : Answer(t, a)
  BY <1>1 DEF PollPermission
<1>3. ASSUME NEW p \in {"grant"}, Go(t, p)
      PROVE  TasksHonest'
  BY <1>1, <1>3, PcNames, GoHonest DEF PollPermission, RowsPcs, PermsPcs, DiscPcs, HonestNow,
     Honest
<1>4. ASSUME NEW a \in {"connected"}, Answer(t, a)
      PROVE  TasksHonest'
  BY <1>1, <1>4, AnswerHonest DEF PollPermission, Answers, HonestNow, Honest
<1>5. TasksHonest'
  BY <1>2, <1>3, <1>4
<1> QED BY <1>5, KeptConsent DEF PollPermission, persistent, memory

LEMMA UnmarkConsent ==
  ASSUME TypeInv, Consent, NEW t \in Tasks, Unmark(t) PROVE Consent'
<1>1. task[t] \in TaskRecords /\ FitsIn(task[t]) /\ HonestNow(task[t])
      /\ task[t].pc \in {"unmark"}
  BY DEF Unmark, At, TypeInv, TypeOK, Located, Consent, TasksHonest, HonestNow
<1>2. \E a \in {"connected", "ok"} : Answer(t, a)
             /\ (a = "connected" => task[t].op = "DAPP_POLL_REQUEST_RESULT")
  BY <1>1 DEF Unmark
<1>4. ASSUME NEW a \in {"connected", "ok"}, Answer(t, a)
             /\ (a = "connected" => task[t].op = "DAPP_POLL_REQUEST_RESULT")
      PROVE  TasksHonest'
  BY <1>1, <1>4, AnswerHonest DEF Unmark, Answers, HonestNow, Honest
<1>5. TasksHonest'
  BY <1>2, <1>4
<1> QED BY <1>5, KeptConsent DEF Unmark, persistent, memory

LEMMA SignFailedConsent ==
  ASSUME TypeInv, Consent, NEW t \in Tasks, SignFailed(t) PROVE Consent'
<1>1. task[t] \in TaskRecords /\ FitsIn(task[t]) /\ HonestNow(task[t]) /\ task[t].pc \in {"sign"}
  BY DEF SignFailed, At, TypeInv, TypeOK, Located, Consent, TasksHonest, HonestNow
<1>2. \E p \in {"resolve"} : Go(t, p)
  BY <1>1 DEF SignFailed
<1>3. ASSUME NEW p \in {"resolve"}, Go(t, p)
      PROVE  TasksHonest'
  BY <1>1, <1>3, PcNames, GoHonest DEF SignFailed, RowsPcs, PermsPcs, DiscPcs, HonestNow, Honest
<1>5. TasksHonest'
  BY <1>2, <1>3
<1> QED BY <1>5, KeptConsent DEF SignFailed, persistent, memory

LEMMA MarkDisconnectedConsent ==
  ASSUME TypeInv, Consent, NEW t \in Tasks, MarkDisconnected(t) PROVE Consent'
<1>1. task[t] \in TaskRecords /\ FitsIn(task[t]) /\ HonestNow(task[t])
      /\ task[t].pc \in {"markDisconnected"}
  BY DEF MarkDisconnected, At, TypeInv, TypeOK, Located, Consent, TasksHonest, HonestNow
<1>2. \E p \in {"forget"} : Go(t, p)
  BY <1>1 DEF MarkDisconnected
<1>3. ASSUME NEW p \in {"forget"}, Go(t, p)
      PROVE  TasksHonest'
  BY <1>1, <1>3, PcNames, GoHonest DEF MarkDisconnected, RowsPcs, PermsPcs, DiscPcs, HonestNow,
     Honest
<1>5. TasksHonest'
  BY <1>2, <1>3
<1> QED BY <1>5, KeptConsent DEF MarkDisconnected, persistent, memory

LEMMA CloseWindowConsent ==
  ASSUME TypeInv, Consent, NEW t \in Tasks, CloseWindow(t) PROVE Consent'
<1>1. task[t] \in TaskRecords /\ FitsIn(task[t]) /\ HonestNow(task[t]) /\ task[t].pc \in {"close"}
  BY DEF CloseWindow, At, TypeInv, TypeOK, Located, Consent, TasksHonest, HonestNow
<1>2. \E p \in {"list"} : Go(t, p)
  BY <1>1 DEF CloseWindow
<1>3. ASSUME NEW p \in {"list"}, Go(t, p)
      PROVE  TasksHonest'
  BY <1>1, <1>3, PcNames, GoHonest DEF CloseWindow, RowsPcs, PermsPcs, DiscPcs, HonestNow, Honest
<1>5. TasksHonest'
  BY <1>2, <1>3
<1> QED BY <1>5, KeptConsent DEF CloseWindow, persistent, memory

LEMMA GrantConsent ==
  ASSUME TypeInv, Consent, NEW t \in Tasks, Grant(t) PROVE Consent'
<1>1. task[t] \in TaskRecords /\ FitsIn(task[t]) /\ HonestNow(task[t]) /\ task[t].pc \in {"grant"}
  BY DEF Grant, At, TypeInv, TypeOK, Located, Consent, TasksHonest, HonestNow
<1>2. \E p \in {"unmark"} : Go(t, p)
  BY <1>1 DEF Grant
<1>3. ASSUME NEW p \in {"unmark"}, Go(t, p)
      PROVE  TasksHonest'
  BY <1>1, <1>3, PcNames, GoHonest DEF Grant, RowsPcs, PermsPcs, DiscPcs, HonestNow, Honest
<1>5. TasksHonest'
  BY <1>2, <1>3
<1> QED BY <1>5, <1>1 DEF Grant, Consent, RowsConsent, PermsConsent, Handed, InflightOK,
        persistent, memory, catalog, history, HonestNow, Honest

LEMMA ForgetConsent ==
  ASSUME TypeInv, Consent, NEW t \in Tasks, Forget(t) PROVE Consent'
<1>1. task[t] \in TaskRecords /\ FitsIn(task[t]) /\ HonestNow(task[t])
      /\ task[t].pc \in {"forget"}
  BY DEF Forget, At, TypeInv, TypeOK, Located, Consent, TasksHonest, HonestNow
<1>2. \E p \in {"close"} : Go(t, p)
  BY <1>1 DEF Forget
<1>3. ASSUME NEW p \in {"close"}, Go(t, p)
      PROVE  TasksHonest'
  BY <1>1, <1>3, PcNames, GoHonest DEF Forget, RowsPcs, PermsPcs, DiscPcs, HonestNow, Honest
<1>5. TasksHonest'
  BY <1>2, <1>3
<1> QED BY <1>5, <1>1 DEF Forget, Consent, RowsConsent, PermsConsent, Handed, InflightOK,
        persistent, memory, catalog, history, HonestNow, Honest

LEMMA WipeConsent ==
  ASSUME TypeInv, Consent, NEW t \in Tasks, Wipe(t) PROVE Consent'
<1>1. task[t] \in TaskRecords /\ FitsIn(task[t]) /\ HonestNow(task[t]) /\ task[t].pc \in {"wipe"}
  BY DEF Wipe, At, TypeInv, TypeOK, Located, Consent, TasksHonest, HonestNow
<1>2. \E a \in {"ok"} : Answer(t, a)
  BY <1>1 DEF Wipe
<1>4. ASSUME NEW a \in {"ok"}, Answer(t, a)
      PROVE  TasksHonest'
  BY <1>1, <1>4, AnswerHonest DEF Wipe, Answers, HonestNow, Honest
<1>5. TasksHonest'
  BY <1>2, <1>4
<1> QED BY <1>5 DEF Wipe, Consent, RowsConsent, PermsConsent, Handed, InflightOK, persistent,
        memory, catalog, history

LEMMA UpsertConsent ==
  ASSUME TypeInv, Consent, NEW t \in Tasks, Upsert(t) PROVE Consent'
<1>1. task[t] \in TaskRecords /\ FitsIn(task[t]) /\ HonestNow(task[t])
      /\ task[t].pc \in {"upsert"}
  BY DEF Upsert, At, TypeInv, TypeOK, Located, Consent, TasksHonest, HonestNow
<1>2. \E p \in {"popup"} : Go(t, p)
  BY <1>1 DEF Upsert
<1>3. ASSUME NEW p \in {"popup"}, Go(t, p)
      PROVE  TasksHonest'
  BY <1>1, <1>3, PcNames, GoHonest DEF Upsert, RowsPcs, PermsPcs, DiscPcs, HonestNow, Honest
<1>5. TasksHonest'
  BY <1>2, <1>3
<1> QED BY <1>5, <1>1, PutEarned DEF Upsert, Consent, RowsConsent, PermsConsent, Handed,
        InflightOK, persistent, memory, catalog, history, HonestNow, Honest, TaskRecords,
        FitsIn, Fits, IdPcs

LEMMA MarkSigningConsent ==
  ASSUME TypeInv, Consent, NEW t \in Tasks, MarkSigning(t) PROVE Consent'
<1>1. task[t] \in TaskRecords /\ FitsIn(task[t]) /\ HonestNow(task[t]) /\ task[t].pc \in {"mark"}
  BY DEF MarkSigning, At, TypeInv, TypeOK, Located, Consent, TasksHonest, HonestNow
<1>2. \E p \in {"sign"} : Go(t, p)
  BY <1>1 DEF MarkSigning
<1>3. ASSUME NEW p \in {"sign"}, Go(t, p)
      PROVE  TasksHonest'
  BY <1>1, <1>3, PcNames, GoHonest DEF MarkSigning, RowsPcs, PermsPcs, DiscPcs, HonestNow, Honest
<1>5. TasksHonest'
  BY <1>2, <1>3
<1> QED BY <1>5, <1>1, PutEarned DEF MarkSigning, Consent, RowsConsent, PermsConsent, Handed,
        InflightOK, persistent, memory, catalog, history, HonestNow, Honest, TaskRecords,
        FitsIn, Fits, IdPcs

LEMMA DecidedConsent ==
  ASSUME TypeInv, Consent, NEW t \in Tasks, Decided(t) PROVE Consent'
<1>1. task[t] \in TaskRecords /\ FitsIn(task[t]) /\ HonestNow(task[t])
      /\ task[t].pc \in {"waiting"}
  BY DEF Decided, At, TypeInv, TypeOK, Located, Consent, TasksHonest, HonestNow
<1>2. CASE task[t].ret = "approved" /\ Go(t, "grant")
  <2>1. Granted(task[t].origin, request, userApproved)
    <3>1. task[t].op = "DAPP_OPEN_SIGN_REQUEST" /\ task[t].id \in Ids
      BY <1>1 DEF FitsIn, Fits, IdPcs
    <3>2. request[task[t].id] = [origin |-> task[t].origin, kind |-> "getPublicKey"]
      BY <1>1, <3>1 DEF HonestNow, Honest, Ids
    <3> QED BY <1>1, <1>2, <3>2 DEF HonestNow, Honest, Earned, Granted
  <2>2. TasksHonest'
    BY <1>2, <2>1, PcNames, GoHonest DEF Decided, RowsPcs, PermsPcs, DiscPcs
  <2> QED BY <2>2, KeptConsent DEF Decided, persistent, memory
<1>3. CASE Answer(t, "rejected")
  <2>1. TasksHonest'
    BY <1>3, AnswerHonest DEF Decided, Answers
  <2> QED BY <2>1, KeptConsent DEF Decided, persistent, memory
<1> QED BY <1>2, <1>3 DEF Decided

LEMMA PollRowConsent ==
  ASSUME TypeInv, Consent, NEW t \in Tasks, PollRow(t) PROVE Consent'
<1> DEFINE i      == task[t].id
           o      == task[t].origin
           status == IF request[i].origin = o THEN task[t].rows[i].status ELSE "none"
<1>1. task[t] \in TaskRecords /\ FitsIn(task[t]) /\ HonestNow(task[t]) /\ task[t].pc \in {"poll"}
  BY DEF PollRow, At, TypeInv, TypeOK, Located, Consent, TasksHonest, HonestNow
<1>2. \/ Answer(t, "not_found") \/ Answer(t, "pending")
      \/ Answer(t, "expired") \/ Answer(t, "rejected")
      \/ /\ status \notin {"none", "expired", "rejected"} \cup LiveStatuses
         /\ \/ request[i].kind = "getPublicKey" /\ Go(t, "pollPerms")
            \/ request[i].kind # "getPublicKey" /\ Answer(t, "signed")
  BY DEF PollRow
<1>3. ASSUME NEW a \in {"not_found", "pending", "expired", "rejected"}, Answer(t, a)
      PROVE  TasksHonest'
  BY <1>3, AnswerHonest DEF PollRow, Answers
<1>4. ASSUME status \notin {"none", "expired", "rejected"} \cup LiveStatuses
      PROVE  request[i].origin = o /\ Earned(i, request, userApproved, signed)
  <2>1. i \in Ids /\ task[t].rows[i].status \in Statuses \cup {"none"}
    BY <1>1 DEF FitsIn, Fits, IdPcs, TaskRecords, Stores, Rows
  <2>2. request[i].origin = o /\ task[t].rows[i].status = "approved"
    BY <1>4, <2>1 DEF Statuses, TerminalStatuses
  <2> QED BY <1>1, <2>1, <2>2 DEF HonestNow, Honest, RowsEarned
<1>5. ASSUME status \notin {"none", "expired", "rejected"} \cup LiveStatuses,
             request[i].kind = "getPublicKey", Go(t, "pollPerms")
      PROVE  TasksHonest'
  <2>1. Granted(o, request, userApproved)
    <3>1. i \in Ids
      BY <1>1 DEF FitsIn, Fits, IdPcs
    <3>2. request[i] = [origin |-> o, kind |-> "getPublicKey"]
      BY <1>4, <1>5, <3>1 DEF TypeInv, TypeOK
    <3> QED BY <1>4, <1>5, <3>2 DEF Earned, Granted
  <2> QED BY <1>5, <2>1, PcNames, GoHonest DEF PollRow, RowsPcs, PermsPcs, DiscPcs
<1>6. ASSUME status \notin {"none", "expired", "rejected"} \cup LiveStatuses,
             request[i].kind # "getPublicKey", Answer(t, "signed")
      PROVE  TasksHonest'
  BY <1>4, <1>6, AnswerHonest DEF PollRow, Earned, Answers
<1>7. TasksHonest'
  BY <1>2, <1>3, <1>5, <1>6
<1> QED BY <1>7, KeptConsent DEF PollRow, persistent, memory

-----------------------------------------------------------------------------
(* Storage reads. *)
LEMMA ReadRowsConsent ==
  ASSUME TypeInv, Consent, NEW t \in Tasks, ReadRows(t) PROVE Consent'
<1> DEFINE swept == Expire(store)
           r == [task[t] EXCEPT !.rows = swept,
                                !.phase = IF swept = store THEN "ready" ELSE "prune"]
<1>1. task[t] \in TaskRecords /\ HonestNow(task[t])
  BY DEF TypeInv, TypeOK, Consent, TasksHonest, HonestNow
<1>2. RowsEarned(swept, nextId, request, userApproved, signed)
  BY ExpireEarned DEF TypeInv, TypeOK, Consent, RowsConsent
<1>3. HonestNow(r)
  BY <1>1, <1>2 DEF HonestNow, Honest, TaskRecords
<1>4. task' = [task EXCEPT ![t] = r]
  BY <1>1 DEF ReadRows, TypeInv, TypeOK
<1>5. TasksHonest'
  BY <1>3, <1>4, SlotHonest DEF ReadRows
<1> QED BY <1>5, KeptConsent DEF ReadRows, persistent, memory

LEMMA PruneConsent ==
  ASSUME TypeInv, Consent, NEW t \in Tasks, Prune(t) PROVE Consent'
<1> DEFINE r == [task[t] EXCEPT !.phase = "ready"]
<1>1. task[t] \in TaskRecords /\ HonestNow(task[t])
  BY DEF TypeInv, TypeOK, Consent, TasksHonest, HonestNow
<1>2. HonestNow(r)
  BY <1>1 DEF HonestNow, Honest, TaskRecords
<1>3. task' = [task EXCEPT ![t] = r]
  BY DEF Prune
<1>4. TasksHonest'
  BY <1>2, <1>3, SlotHonest DEF Prune
<1>5. RowsConsent'
  BY <1>1 DEF Prune, RowsConsent, HonestNow, Honest, persistent, memory, catalog, history
<1> QED BY <1>4, <1>5 DEF Prune, Consent, RowsConsent, PermsConsent, Handed, InflightOK,
        persistent, memory, catalog, history

LEMMA ReadLocalConsent ==
  ASSUME TypeInv, Consent, NEW t \in Tasks, ReadLocal(t) PROVE Consent'
<1>1. task[t] \in TaskRecords /\ HonestNow(task[t])
  BY DEF TypeInv, TypeOK, Consent, TasksHonest, HonestNow
<1>2. \A u \in Tasks : HonestNow(task'[u])
  <2> SUFFICES ASSUME NEW u \in Tasks PROVE HonestNow(task'[u])
    OBVIOUS
  <2>1. HonestNow(task[u]) /\ task[u] \in TaskRecords
    BY DEF TypeInv, TypeOK, Consent, TasksHonest, HonestNow
  <2>2. /\ task'[u].pc = task[u].pc /\ task'[u].op = task[u].op /\ task'[u].id = task[u].id
        /\ task'[u].origin = task[u].origin /\ task'[u].ret = task[u].ret
        /\ task'[u].yes = task[u].yes /\ task'[u].rows = task[u].rows
        /\ task'[u].todo = task[u].todo /\ task'[u].perms \in {task[u].perms, permissions}
    BY <2>1 DEF ReadLocal, TypeInv, TypeOK, TaskRecords
  <2> QED BY <2>1, <2>2 DEF HonestNow, Honest, Consent, PermsConsent
<1>3. TasksHonest'
  BY <1>2 DEF ReadLocal, TasksHonest, HonestNow, persistent, memory, catalog, history
<1> QED BY <1>3, KeptConsent DEF ReadLocal, persistent, memory

-----------------------------------------------------------------------------
(* Decisions. *)
LEMMA GetBeforeConsent ==
  ASSUME TypeInv, Consent, NEW t \in Tasks, GetBefore(t) PROVE Consent'
<1> DEFINE q == To(task[t], "resolve")
           r == [q EXCEPT !.origin = OriginIn(t)]
<1>1. task[t] \in TaskRecords /\ FitsIn(task[t]) /\ HonestNow(task[t]) /\ task[t].pc \in {"get"}
  BY DEF GetBefore, At, TypeInv, TypeOK, Located, Consent, TasksHonest, HonestNow
<1>2. HonestNow(q) /\ q \in TaskRecords /\ q.pc = "resolve" /\ q.op \in Decisions
      /\ q.ret \notin {"connected", "signed"}
  BY <1>1, PcNames, ToHonest, ToType DEF FitsIn, Fits, RowsPcs, PermsPcs, DiscPcs
<1>3. HonestNow(r)
  BY <1>2 DEF HonestNow, Honest, TaskRecords, Decisions
<1>4. task' = [task EXCEPT ![t] = r]
  BY DEF GetBefore
<1>5. TasksHonest'
  BY <1>3, <1>4, SlotHonest DEF GetBefore
<1> QED BY <1>5, KeptConsent DEF GetBefore, persistent, memory

LEMMA ResolveRowConsent ==
  ASSUME TypeInv, Consent, NEW t \in Tasks, ResolveRow(t) PROVE Consent'
<1> DEFINE i   == task[t].id
           row == task[t].rows[i]
           q   == To(task[t], "wake")
           a   == Verdict(row, task[t].yes)
           o   == IF task[t].op \in UiOps THEN OriginIn(t) ELSE task[t].origin
           r   == [q EXCEPT !.ret = a, !.origin = o]
<1>1. task[t] \in TaskRecords /\ FitsIn(task[t]) /\ HonestNow(task[t])
      /\ task[t].pc \in {"resolve"}
  BY DEF ResolveRow, At, TypeInv, TypeOK, Located, Consent, TasksHonest, HonestNow
<1>2. i \in Ids /\ i < nextId /\ task[t].op \in Decisions \cup Sweeps /\ task[t].rows \in Stores
  BY <1>1 DEF FitsIn, Fits, IdPcs, HonestNow, Honest, TaskRecords
<1>3. a \in {"approved", "rejected"} /\ (a = "approved" => Earned(i, request, userApproved, signed))
  BY <1>1, <1>2 DEF Verdict, HonestNow, Honest, RowsEarned
<1>4. HonestNow(q) /\ q \in TaskRecords /\ q.pc = "wake" /\ q.op = task[t].op /\ q.id = i
      /\ q.origin = task[t].origin
  BY <1>1, PcNames, ToHonest, ToType
<1> HIDE DEF a, o
<1>5. HonestNow(r)
  BY <1>2, <1>3, <1>4 DEF HonestNow, Honest, TaskRecords, Decisions, Sweeps
<1>6. task' = [task EXCEPT ![t] = r]
  BY DEF ResolveRow, a, o
<1>7. TasksHonest'
  BY <1>5, <1>6, SlotHonest DEF ResolveRow
<1>8. RowsConsent'
  <2>1. RowsEarned(task[t].rows, nextId, request, userApproved, signed)
    BY <1>1 DEF HonestNow, Honest
  <2>2. task[t].yes => Earned(i, request, userApproved, signed)
    BY <1>1 DEF HonestNow, Honest
  <2>3. RowsEarned(Put(task[t].rows, i, IF task[t].yes THEN "approved" ELSE "rejected"),
                   nextId, request, userApproved, signed)
    BY <1>2, <2>1, <2>2, PutEarned
  <2> QED BY <2>3 DEF ResolveRow, Consent, RowsConsent, persistent, memory, catalog, history
<1> QED BY <1>7, <1>8 DEF ResolveRow, Consent, RowsConsent, PermsConsent, Handed, InflightOK,
        persistent, memory, catalog, history

LEMMA ClearAllConsent ==
  ASSUME TypeInv, Consent, NEW t \in Tasks, ClearAll(t) PROVE Consent'
<1>1. task[t] \in TaskRecords /\ FitsIn(task[t]) /\ HonestNow(task[t]) /\ task[t].pc \in {"clear"}
  BY DEF ClearAll, At, TypeInv, TypeOK, Located, Consent, TasksHonest, HonestNow
<1>2. HonestNow(Idle)
  BY EmptyEarned, MaxIdAssumption DEF HonestNow, Honest, Idle, TypeInv, TypeOK
<1>3. TasksHonest'
  BY <1>2, PcNames, GoHonest, SlotHonest DEF ClearAll
<1>4. RowsConsent'
  BY EmptyEarned DEF ClearAll, RowsConsent, persistent, memory, catalog, history
<1> QED BY <1>3, <1>4 DEF ClearAll, Consent, RowsConsent, PermsConsent, Handed, InflightOK,
        persistent, memory, catalog, history

LEMMA ReplyConsent ==
  ASSUME TypeInv, Consent, NEW t \in Tasks, Reply(t) PROVE Consent'
<1>1. HonestNow(Idle)
  BY EmptyEarned, MaxIdAssumption DEF HonestNow, Honest, Idle, TypeInv, TypeOK
<1>2. TasksHonest'
  BY <1>1, SlotHonest DEF Reply
<1> QED BY <1>2, KeptConsent DEF Reply, persistent, memory

\* The waiters of a settled promise are told what its row was worth.
LEMMA WakeConsent ==
  ASSUME TypeInv, Consent, NEW t \in Tasks, Wake(t) PROVE Consent'
<1> DEFINE i == task[t].id
           p == IF task[t].op \in UiOps THEN "reply" ELSE "next"
           a == IF task[t].op \in UiOps THEN "ok" ELSE "none"
           q == To(task[t], p)
           r == [q EXCEPT !.ret = a]
<1>1. /\ task[t] \in TaskRecords /\ HonestNow(task[t]) /\ i \in Ids
      /\ task[t].ret \in {"approved", "rejected"}
  BY DEF Wake, At, TypeInv, TypeOK, Located, FitsIn, Fits, IdPcs, Consent, TasksHonest, HonestNow
<1>2. task' = [u \in Tasks |->
                 IF u = t THEN r
                 ELSE IF i \in resolvers /\ Holds(u, i)
                      THEN [task[u] EXCEPT !.ret = task[t].ret] ELSE task[u]]
  BY DEF Wake
<1>3. HonestNow(r)
  <2>1. HonestNow(q) /\ q \in TaskRecords /\ q.pc \in {"reply", "next"}
    BY <1>1, PcNames, ToHonest, ToType
  <2>2. a \in {"ok", "none"}
    OBVIOUS
  <2> HIDE DEF a, q
  <2> QED BY <2>1, <2>2 DEF HonestNow, Honest, TaskRecords
<1>4. ASSUME NEW u \in Tasks \ {t} PROVE HonestNow(task'[u])
  <2>1. HonestNow(task[u]) /\ task[u] \in TaskRecords
    BY DEF TypeInv, TypeOK, Consent, TasksHonest, HonestNow
  <2>2. CASE i \in resolvers /\ Holds(u, i)
    <3>1. task[u].id = i
      BY <2>2 DEF Holds
    <3>2. HonestNow([task[u] EXCEPT !.ret = task[t].ret])
      BY <1>1, <2>1, <3>1 DEF HonestNow, Honest, TaskRecords
    <3> QED BY <1>2, <2>2, <3>2
  <2>3. CASE ~(i \in resolvers /\ Holds(u, i))
    BY <1>2, <2>1, <2>3
  <2> QED BY <2>2, <2>3
<1>5. TasksHonest'
  BY <1>2, <1>3, <1>4 DEF Wake, TasksHonest, HonestNow, catalog, history
<1>6. InflightOK'
  <2> SUFFICES ASSUME NEW o \in Origins, inflight'[o] # 0
               PROVE  /\ inflight'[o] < nextId' /\ inflight'[o] \in resolvers'
                      /\ request'[inflight'[o]] = [origin |-> o, kind |-> "getPublicKey"]
    BY DEF InflightOK
  <2>1. inflight'[o] = inflight[o] /\ ~(i \in resolvers /\ inflight[o] = i)
    BY DEF Wake, InflightAfterSettling
  <2> QED BY <2>1 DEF Wake, Consent, InflightOK, catalog
<1> QED BY <1>5, <1>6
        DEF Wake, Consent, RowsConsent, PermsConsent, Handed, persistent, catalog, history

LEMMA ListConsent ==
  ASSUME TypeInv, Consent, NEW t \in Tasks, List(t) PROVE Consent'
<1>1. task[t] \in TaskRecords /\ HonestNow(task[t])
  BY DEF TypeInv, TypeOK, Consent, TasksHonest, HonestNow
<1>2. \A i \in LiveIds(task[t].rows) : i < nextId
  BY <1>1 DEF LiveIds, Live, LiveStatuses, HonestNow, Honest, RowsEarned
<1>3. \A i \in ToReject(t) : i < nextId
  BY <1>2 DEF ToReject
<1>4. ASSUME task[t].op = "LIST_PENDING_DAPP_REQUESTS" PROVE TasksHonest'
  <2> DEFINE q == To(task[t], "reply")
             r == [q EXCEPT !.todo = LiveIds(task[t].rows), !.ret = "ok"]
  <2>1. HonestNow(q) /\ q \in TaskRecords /\ q.pc = "reply"
    BY <1>1, PcNames, ToHonest, ToType
  <2>2. HonestNow(r)
    <3> HIDE DEF q
    <3> QED BY <1>2, <2>1 DEF HonestNow, Honest, TaskRecords
  <2> QED BY <1>4, <2>2, SlotHonest DEF List
<1>5. ASSUME task[t].op # "LIST_PENDING_DAPP_REQUESTS" PROVE TasksHonest'
  <2> DEFINE q == To(task[t], "next")
             r == [q EXCEPT !.todo = ToReject(t)]
  <2>1. HonestNow(q) /\ q \in TaskRecords /\ q.pc = "next"
    BY <1>1, PcNames, ToHonest, ToType
  <2>2. HonestNow(r)
    <3> HIDE DEF q
    <3> QED BY <1>3, <2>1 DEF HonestNow, Honest, TaskRecords
  <2> QED BY <1>5, <2>2, SlotHonest DEF List
<1> QED BY <1>4, <1>5, KeptConsent DEF List, persistent, memory

LEMMA RejectNextConsent ==
  ASSUME TypeInv, Consent, NEW t \in Tasks, RejectNext(t) PROVE Consent'
<1> DEFINE q == To(task[t], "resolve")
<1>1. Located(task[t]) /\ HonestNow(task[t]) /\ task[t].pc = "next"
  BY DEF RejectNext, At, TypeInv, Consent, TasksHonest, HonestNow
<1>2. /\ HonestNow(q) /\ q \in TaskRecords /\ q.pc = "resolve" /\ q.op = task[t].op
      /\ q.todo = task[t].todo /\ q.ret = task[t].ret /\ q.yes = task[t].yes
  BY <1>1, PcNames, ToHonest, ToType DEF Located, RowsPcs
<1>3. q.op # "DAPP_OPEN_SIGN_REQUEST" /\ q.ret = "none" /\ ~q.yes
  BY <1>1, <1>2 DEF Located, FitsIn, Fits, SweepPcs, Sweeps, Decisions
<1>4. PICK i \in task[t].todo :
        task' = [task EXCEPT ![t] = [q EXCEPT !.id = i, !.todo = task[t].todo \ {i}]]
  BY DEF RejectNext
<1>5. HonestNow([q EXCEPT !.id = i, !.todo = task[t].todo \ {i}])
  <2> HIDE DEF q
  <2> QED BY <1>2, <1>3 DEF HonestNow, Honest, TaskRecords
<1>6. TasksHonest'
  BY <1>4, <1>5, SlotHonest DEF RejectNext
<1>7. \A o \in Origins : inflight'[o] \in {0, inflight[o]}
  BY DEF RejectNext
<1> QED BY <1>6, <1>7
        DEF RejectNext, Consent, RowsConsent, PermsConsent, Handed, InflightOK, persistent,
            catalog, history

LEMMA RejectDoneConsent ==
  ASSUME TypeInv, Consent, NEW t \in Tasks, RejectDone(t) PROVE Consent'
<1>1. \/ Answer(t, "ok") /\ UNCHANGED inflight
      \/ Go(t, "clear") /\ inflight' = [o \in Origins |-> 0]
  BY DEF RejectDone
<1>2. ASSUME Answer(t, "ok") PROVE TasksHonest'
  BY <1>2, AnswerHonest DEF RejectDone, Answers
<1>3. ASSUME Go(t, "clear") PROVE TasksHonest'
  BY <1>3, PcNames, GoHonest DEF RejectDone
<1>4. TasksHonest'
  BY <1>1, <1>2, <1>3
<1> QED BY <1>1, <1>4
        DEF RejectDone, Consent, RowsConsent, PermsConsent, Handed, InflightOK, persistent,
            catalog, history

-----------------------------------------------------------------------------
(* The catalog and the history grow: a decision, a signature, a new request. *)
\* The user decides on request i.
LEMMA ResolveConsent ==
  ASSUME TypeInv, Consent, NEW t \in Tasks, NEW i \in Ids, NEW yes \in BOOLEAN,
         Resolve(t, i, yes)
  PROVE  Consent'
<1> DEFINE q == To(Idle, "get")
           r == [q EXCEPT !.op = "RESOLVE_PENDING_DAPP_REQUEST", !.origin = NoOrigin,
                          !.id = i, !.yes = yes]
<1>1. nextId \in Nat /\ i < nextId /\ nextId' = nextId /\ request' = request /\ signed' = signed
  BY MaxIdAssumption DEF Resolve, catalog, TypeInv, TypeOK
<1>2. userApproved \subseteq userApproved' /\ (yes => i \in userApproved')
      /\ \A j \in userApproved' : j < nextId /\ j \in Ids
  BY <1>1 DEF Resolve, Consent, Handed, TypeInv, TypeOK
<1>3. \A j \in userApproved \cup signed : j \in Ids /\ j < nextId
  BY DEF Consent, Handed, TypeInv, TypeOK
<1>4. ASSUME NEW u \in Tasks PROVE Honest(task[u], nextId, request, userApproved', signed)
  BY <1>1, <1>2, <1>3, LaterHonest DEF TypeInv, Consent, TasksHonest
<1>5. q \in TaskRecords /\ q.pc = "get" /\ q.ret = "none" /\ q.todo = {} /\ q.perms = {}
      /\ q.rows = EmptyStore
  <2>1. Idle.ret = "none" /\ Idle.todo = {}
    BY DEF Idle
  <2> QED BY <2>1, IdleType, PcNames, ToType DEF RowsPcs
<1>6. Honest(r, nextId, request, userApproved', signed)
  <2>1. yes => Earned(i, request, userApproved', signed)
    BY <1>2 DEF Resolve, Earned
  <2> QED BY <1>1, <1>5, <2>1, EmptyEarned DEF Honest, TaskRecords
<1>7. TasksHonest'
  BY <1>1, <1>4, <1>6 DEF Resolve, Begin, TasksHonest, TypeInv, TypeOK
<1>8. /\ RowsEarned(store, nextId, request, userApproved', signed)
      /\ \A o \in permissions : Granted(o, request, userApproved')
  BY <1>1, <1>2, <1>3, LaterEarned DEF Consent, RowsConsent, PermsConsent
<1> QED BY <1>1, <1>2, <1>7, <1>8
        DEF Resolve, Consent, RowsConsent, PermsConsent, Handed, InflightOK, persistent, memory

\* A transaction is signed and submitted.
LEMMA SignSubmittedConsent ==
  ASSUME TypeInv, Consent, NEW t \in Tasks, SignSubmitted(t) PROVE Consent'
<1> DEFINE i == task[t].id
           q == To(task[t], "resolve")
           r == [q EXCEPT !.yes = TRUE]
<1>1. /\ nextId \in Nat /\ nextId' = nextId /\ request' = request
      /\ userApproved' = userApproved /\ signed' = signed \cup {i}
  BY MaxIdAssumption DEF SignSubmitted, catalog, TypeInv, TypeOK
<1>2. Located(task[t]) /\ Honest(task[t], nextId, request, userApproved, signed)
      /\ task[t].pc = "sign" /\ i \in Ids
  BY DEF SignSubmitted, At, TypeInv, Located, FitsIn, Fits, IdPcs, Consent, TasksHonest
<1>3. i < nextId /\ request[i].kind # "getPublicKey" /\ task[t].op \in Decisions
  BY <1>2 DEF Honest, Located, FitsIn, Fits
<1>4. \A j \in userApproved \cup signed : j \in Ids /\ j < nextId
  BY DEF Consent, Handed, TypeInv, TypeOK
<1>5. ASSUME NEW u \in Tasks PROVE Honest(task[u], nextId, request, userApproved, signed')
  BY <1>1, <1>4, LaterHonest DEF TypeInv, Consent, TasksHonest
<1>6. q \in TaskRecords /\ q.pc = "resolve" /\ q.op = task[t].op /\ q.id = i
      /\ q.origin = task[t].origin /\ q.todo = task[t].todo /\ q.ret = task[t].ret
      /\ q.perms = {} /\ q.rows = EmptyStore
  BY <1>2, PcNames, ToType DEF Located, RowsPcs
<1>7. Honest(r, nextId, request, userApproved, signed')
  <2>1. Honest(task[t], nextId, request, userApproved, signed')
    BY <1>5
  <2>2. Earned(i, request, userApproved, signed')
    BY <1>1, <1>3 DEF Earned
  <2> QED BY <1>3, <1>6, <2>1, <2>2, EmptyEarned DEF Honest, TaskRecords, Decisions
<1>8. task' = [task EXCEPT ![t] = r]
  BY DEF SignSubmitted
<1>9. TasksHonest'
  BY <1>1, <1>5, <1>7, <1>8 DEF TasksHonest, TypeInv, TypeOK
<1>10. /\ RowsEarned(store, nextId, request, userApproved, signed')
       /\ \A o \in permissions : Granted(o, request, userApproved)
  BY <1>1, <1>4, LaterEarned DEF Consent, RowsConsent, PermsConsent
<1> QED BY <1>1, <1>3, <1>4, <1>9, <1>10
        DEF SignSubmitted, Consent, RowsConsent, PermsConsent, Handed, InflightOK, persistent,
            memory

\* A request is handed out: what was known stays known, and its handler knows it.
LEMMA NewRequestConsent ==
  ASSUME TypeInv, Consent, NEW t \in Tasks, NEW kind \in Kinds, NewRequest(t, kind),
         task[t].pc \in EarlyPcs,
         task[t].op = "DAPP_OPEN_SIGN_REQUEST" => kind = "getPublicKey",
         UNCHANGED <<persistent, history>>
  PROVE  /\ RowsConsent' /\ PermsConsent' /\ Handed' /\ TasksHonest'
         /\ nextId \in Ids /\ nextId' = nextId + 1
         /\ request'[nextId] = [origin |-> task[t].origin, kind |-> kind]
         /\ \A i \in Ids : i < nextId => request'[i] = request[i]
<1> DEFINE q == To(task[t], "upsert")
           r == [q EXCEPT !.id = nextId]
<1>1. /\ nextId \in Nat /\ nextId \in Ids /\ nextId' = nextId + 1 /\ nextId' \in Nat
      /\ nextId <= nextId'
  BY MaxIdAssumption DEF NewRequest, TypeInv, TypeOK, Ids
<1>2. /\ request'[nextId] = [origin |-> task[t].origin, kind |-> kind]
      /\ \A i \in Ids : i < nextId => request'[i] = request[i]
  BY <1>1 DEF NewRequest, TypeInv, TypeOK, Ids
<1>3. \A j \in userApproved \cup signed : j \in Ids /\ j < nextId
  BY DEF Consent, Handed, TypeInv, TypeOK
<1>4. userApproved' = userApproved /\ signed' = signed /\ store' = store
      /\ permissions' = permissions
  BY DEF history, persistent
<1>5. ASSUME NEW u \in Tasks PROVE Honest(task[u], nextId', request', userApproved, signed)
  BY <1>1, <1>2, <1>3, LaterHonest DEF TypeInv, Consent, TasksHonest
<1>6. /\ RowsEarned(store, nextId', request', userApproved, signed)
      /\ \A o \in permissions : Granted(o, request', userApproved)
  BY <1>1, <1>2, <1>3, LaterEarned DEF Consent, RowsConsent, PermsConsent
<1>7. Located(task[t])
  BY DEF TypeInv
<1>8. task[t].ret = "none" /\ task[t].yes = FALSE
  <2>1. task[t].id = 0 /\ task[t].ret = "none" /\ task[t].yes \in BOOLEAN
    BY <1>7 DEF Located, FitsIn, Fits, TaskRecords
  <2> QED BY <1>7, <2>1 DEF Located, FitsIn, Fits, Ids
<1>9. q \in TaskRecords /\ q.pc = "upsert" /\ q.op = task[t].op
      /\ q.origin = task[t].origin /\ q.todo = task[t].todo /\ q.ret = "none" /\ q.yes = FALSE
      /\ q.perms = {} /\ q.rows = EmptyStore
  BY <1>7, <1>8, PcNames, ToType DEF Located, RowsPcs
<1>10. Honest(r, nextId', request', userApproved, signed)
  <2>1. \A i \in task[t].todo : i < nextId'
    BY <1>5 DEF Honest
  <2>2. r.id = nextId /\ nextId < nextId'
    BY <1>1, <1>9 DEF TaskRecords
  <2>3. r.pc = "upsert" /\ r.op = task[t].op /\ r.origin = task[t].origin
        /\ r.todo = task[t].todo /\ r.ret = "none" /\ r.yes = FALSE /\ r.perms = {}
        /\ r.rows = EmptyStore
    BY <1>9 DEF TaskRecords
  <2> HIDE DEF r
  <2> QED BY <1>2, <2>1, <2>2, <2>3, EmptyEarned DEF Honest
<1>11. task' = [task EXCEPT ![t] = r]
  BY DEF NewRequest, GoWith
<1>12. TasksHonest'
  BY <1>4, <1>5, <1>10, <1>11 DEF TasksHonest, TypeInv, TypeOK
<1>13. Handed'
  BY <1>1, <1>3, <1>4 DEF Handed, Ids
<1>14. RowsConsent' /\ PermsConsent'
  BY <1>4, <1>6 DEF RowsConsent, PermsConsent
<1> QED BY <1>1, <1>2, <1>12, <1>13, <1>14

LEMMA PreparedConsent ==
  ASSUME TypeInv, Consent, NEW t \in Tasks, Prepared(t) PROVE Consent'
<1>1. task[t].pc = "prepare" /\ task[t].op # "DAPP_OPEN_SIGN_REQUEST"
  BY DEF Prepared, At, Consent, TasksHonest, Honest
<1>2. /\ RowsConsent' /\ PermsConsent' /\ Handed' /\ TasksHonest'
      /\ nextId \in Ids /\ nextId' = nextId + 1
      /\ \A i \in Ids : i < nextId => request'[i] = request[i]
  BY <1>1, NewRequestConsent DEF Prepared, EarlyPcs, Kinds, persistent, history
<1>3. InflightOK'
  BY <1>2 DEF Prepared, NewRequest, Consent, InflightOK, TypeInv, TypeOK, Ids
<1> QED BY <1>2, <1>3 DEF Consent

\* A handler joins request i, or its origin's prompt.
LEMMA JoinHonest ==
  ASSUME TypeInv, Consent, NEW t \in Tasks, task[t].pc = "find", NEW i \in Ids, i < nextId,
         request[i] = [origin |-> task[t].origin, kind |-> "getPublicKey"]
  PROVE  HonestNow([To(task[t], "popup") EXCEPT !.id = i])
<1> DEFINE q == To(task[t], "popup")
           r == [q EXCEPT !.id = i]
<1>1. Located(task[t]) /\ HonestNow(task[t]) /\ task[t].pc = "find"
  BY DEF TypeInv, Consent, TasksHonest, HonestNow
<1>2. task[t].ret = "none" /\ task[t].yes = FALSE
  <2>1. task[t].id = 0 /\ task[t].ret = "none" /\ task[t].yes \in BOOLEAN
    BY <1>1 DEF Located, FitsIn, Fits, TaskRecords, EarlyPcs
  <2> QED BY <1>1, <2>1 DEF Located, FitsIn, Fits, Ids
<1>3. q \in TaskRecords /\ q.pc = "popup" /\ q.op = task[t].op
      /\ q.origin = task[t].origin /\ q.todo = task[t].todo /\ q.ret = "none" /\ q.yes = FALSE
      /\ q.perms = {} /\ q.rows = EmptyStore
  BY <1>1, <1>2, PcNames, ToType DEF Located
<1>4. r.pc = "popup" /\ r.op = task[t].op /\ r.origin = task[t].origin
      /\ r.todo = task[t].todo /\ r.ret = "none" /\ r.yes = FALSE /\ r.perms = {}
      /\ r.rows = EmptyStore /\ r.id = i
  BY <1>3 DEF TaskRecords
<1> HIDE DEF r
<1>5. HonestNow(r)
  BY <1>1, <1>4, EmptyEarned DEF HonestNow, Honest
<1> QED BY <1>5 DEF r

LEMMA EnqueueConsent ==
  ASSUME TypeInv, Consent, NEW t \in Tasks, Enqueue(t) PROVE Consent'
<1> DEFINE o == task[t].origin
           mine == {i \in LiveIds(task[t].rows) :
                       request[i] = [origin |-> o, kind |-> "getPublicKey"]}
<1>1. task[t].pc = "find" /\ o \in Origins /\ HonestNow(task[t])
  BY DEF Enqueue, At, TypeInv, Located, FitsIn, Fits, OriginPcs, Consent, TasksHonest, HonestNow
<1>2. \A i \in mine : i \in Ids /\ i < nextId
                      /\ request[i] = [origin |-> o, kind |-> "getPublicKey"]
  BY <1>1 DEF HonestNow, Honest, RowsEarned, LiveIds, Live, LiveStatuses
<1>3. CASE \E i \in mine : inflight[o] = i /\ GoWith(t, "popup", i)
                          /\ UNCHANGED <<resolvers, inflight, catalog>>
  <2>1. PICK i \in mine : GoWith(t, "popup", i)
    BY <1>3
  <2>2. HonestNow([To(task[t], "popup") EXCEPT !.id = i])
    BY <1>1, <1>2, JoinHonest
  <2>3. TasksHonest'
    BY <1>3, <2>1, <2>2, SlotHonest DEF GoWith, Enqueue
  <2> QED BY <1>3, <2>3, KeptConsent DEF Enqueue, persistent
<1>4. CASE \E i \in mine :
            /\ resolvers' = resolvers \cup {i}
            /\ inflight' = [inflight EXCEPT ![o] = i]
            /\ task' = [u \in Tasks |->
                  IF u = t THEN [To(task[t], "popup") EXCEPT !.id = i]
                  ELSE IF Holds(u, i) THEN [task[u] EXCEPT !.ret = "orphaned"]
                  ELSE task[u]]
            /\ UNCHANGED catalog
  <2>1. PICK i \in mine :
            /\ resolvers' = resolvers \cup {i}
            /\ inflight' = [inflight EXCEPT ![o] = i]
            /\ task' = [u \in Tasks |->
                  IF u = t THEN [To(task[t], "popup") EXCEPT !.id = i]
                  ELSE IF Holds(u, i) THEN [task[u] EXCEPT !.ret = "orphaned"]
                  ELSE task[u]]
            /\ UNCHANGED catalog
    BY <1>4
  <2>2. HonestNow(task'[t])
    BY <1>1, <1>2, <2>1, JoinHonest
  <2>3. ASSUME NEW u \in Tasks \ {t} PROVE HonestNow(task'[u])
    <3>1. HonestNow(task[u]) /\ task[u] \in TaskRecords
      BY DEF TypeInv, TypeOK, Consent, TasksHonest, HonestNow
    <3>2. HonestNow([task[u] EXCEPT !.ret = "orphaned"])
      BY <3>1 DEF HonestNow, Honest, TaskRecords
    <3> QED BY <2>1, <3>1, <3>2
  <2>4. TasksHonest'
    BY <2>1, <2>2, <2>3 DEF Enqueue, TasksHonest, HonestNow, catalog, history
  <2>5. InflightOK'
    BY <1>1, <1>2, <2>1 DEF Consent, InflightOK, TypeInv, TypeOK, catalog
  <2> QED BY <2>1, <2>4, <2>5
          DEF Enqueue, Consent, RowsConsent, PermsConsent, Handed, persistent, catalog, history
<1>5. CASE inflight[o] # 0 /\ GoWith(t, "popup", inflight[o])
           /\ UNCHANGED <<resolvers, inflight, catalog>>
  <2>1. inflight[o] \in Ids /\ inflight[o] < nextId
        /\ request[inflight[o]] = [origin |-> o, kind |-> "getPublicKey"]
    BY <1>1, <1>5 DEF TypeInv, TypeOK, Consent, InflightOK
  <2>2. HonestNow([To(task[t], "popup") EXCEPT !.id = inflight[o]])
    BY <1>1, <2>1, JoinHonest
  <2>3. TasksHonest'
    BY <1>5, <2>2, SlotHonest DEF GoWith, Enqueue
  <2> QED BY <1>5, <2>3, KeptConsent DEF Enqueue, persistent
<1>6. CASE NewRequest(t, "getPublicKey") /\ inflight' = [inflight EXCEPT ![o] = nextId]
  <2>1. /\ RowsConsent' /\ PermsConsent' /\ Handed' /\ TasksHonest'
        /\ nextId \in Ids /\ nextId' = nextId + 1
        /\ request'[nextId] = [origin |-> o, kind |-> "getPublicKey"]
        /\ \A i \in Ids : i < nextId => request'[i] = request[i]
    BY <1>1, <1>6, NewRequestConsent DEF Enqueue, EarlyPcs, Kinds, persistent, history
  <2>2. InflightOK'
    BY <1>1, <1>6, <2>1 DEF NewRequest, Consent, InflightOK, TypeInv, TypeOK, Ids
  <2> QED BY <2>1, <2>2 DEF Consent
<1> QED BY <1>3, <1>4, <1>5, <1>6 DEF Enqueue

-----------------------------------------------------------------------------
(* Time and faults. *)
LEMMA TickConsent == ASSUME TypeInv, Consent, Tick PROVE Consent'
<1>1. ASSUME NEW u \in Tasks PROVE HonestNow(task'[u])
  <2>1. task[u] \in TaskRecords /\ task[u].rows \in Stores /\ HonestNow(task[u])
    BY DEF TypeInv, TypeOK, TaskRecords, Consent, TasksHonest, HonestNow
  <2>2. task'[u] = [task[u] EXCEPT !.rows = Older(task[u].rows)]
    BY DEF Tick
  <2>3. RowsEarned(Older(task[u].rows), nextId, request, userApproved, signed)
    BY <2>1, OlderEarned DEF HonestNow, Honest
  <2> QED BY <2>1, <2>2, <2>3 DEF HonestNow, Honest, TaskRecords
<1>2. RowsEarned(Older(store), nextId, request, userApproved, signed)
  BY OlderEarned DEF TypeInv, TypeOK, Consent, RowsConsent
<1> QED BY <1>1, <1>2
        DEF Tick, Consent, RowsConsent, PermsConsent, Handed, InflightOK, TasksHonest, HonestNow,
            memory, catalog, history

LEMMA CooldownOverConsent ==
  ASSUME Consent, NEW o \in Origins, CooldownOver(o) PROVE Consent'
  BY DEF CooldownOver, Consent, RowsConsent, PermsConsent, Handed, InflightOK, TasksHonest,
         persistent, catalog, history

LEMMA RestartConsent == ASSUME TypeInv, Consent, SwRestart \/ BrowserRestart PROVE Consent'
<1>1. HonestNow(Idle)
  BY EmptyEarned, MaxIdAssumption DEF HonestNow, Honest, Idle, TypeInv, TypeOK
<1>2. /\ \A u \in Tasks : task'[u] = Idle
      /\ \A o \in Origins : inflight'[o] = 0
      /\ UNCHANGED <<permissions, catalog, history>> /\ store' \in {store, EmptyStore}
  BY DEF SwRestart, BrowserRestart, ForgetMemory, persistent
<1>3. RowsConsent'
  BY <1>2, EmptyEarned DEF Consent, RowsConsent, catalog, history
<1> QED BY <1>1, <1>2, <1>3
        DEF Consent, PermsConsent, Handed, InflightOK, TasksHonest, HonestNow, catalog, history

-----------------------------------------------------------------------------
LEMMA InitConsent == Init => Consent
<1> SUFFICES ASSUME Init PROVE Consent
  OBVIOUS
<1>1. HonestNow(Idle)
  BY EmptyEarned DEF HonestNow, Honest, Idle, Init
<1> QED BY <1>1, EmptyEarned
        DEF Init, Consent, RowsConsent, PermsConsent, Handed, InflightOK, TasksHonest, HonestNow

LEMMA NextConsent == TypeInv /\ Consent /\ [Next]_vars => Consent'
<1> SUFFICES ASSUME TypeInv, Consent, [Next]_vars PROVE Consent'
  OBVIOUS
<1>1. CASE UNCHANGED vars
  BY <1>1 DEF Consent, RowsConsent, PermsConsent, Handed, InflightOK, TasksHonest, vars,
              persistent, memory, catalog, history
<1>2. ASSUME NEW t \in Tasks, Dapp(t) PROVE Consent'
  BY <1>2, DappCallConsent, PollConsent DEF Dapp
<1>3. ASSUME NEW t \in Tasks, User(t) PROVE Consent'
  BY <1>3, ResolveConsent, ExecuteConsent, ListPendingConsent, LogoutConsent,
     WindowClosedConsent DEF User
<1>4. ASSUME NEW t \in Tasks, Handle(t) PROVE Consent'
  <2>1. CASE ReadRows(t) \/ Prune(t) \/ ReadLocal(t)
    BY <2>1, ReadRowsConsent, PruneConsent, ReadLocalConsent
  <2>2. CASE CheckPermission(t) \/ AssertPromptAllowed(t) \/ Enqueue(t) \/ Upsert(t)
             \/ OpenPopup(t) \/ CreateWindow(t) \/ Decided(t) \/ Grant(t) \/ Unmark(t)
    BY <2>2, CheckPermissionConsent, AssertPromptAllowedConsent, EnqueueConsent, UpsertConsent,
       OpenPopupConsent, CreateWindowConsent, DecidedConsent, GrantConsent, UnmarkConsent
  <2>3. CASE CheckAllowed(t) \/ Prepared(t) \/ PrepareFailed(t) \/ PollRow(t)
             \/ PollPermission(t)
    BY <2>3, CheckAllowedConsent, PreparedConsent, PrepareFailedConsent, PollRowConsent,
       PollPermissionConsent
  <2>4. CASE GetBefore(t) \/ ResolveRow(t) \/ Wake(t) \/ MarkSigning(t) \/ SignSubmitted(t)
             \/ SignFailed(t)
    BY <2>4, GetBeforeConsent, ResolveRowConsent, WakeConsent, MarkSigningConsent,
       SignSubmittedConsent, SignFailedConsent
  <2>5. CASE MarkDisconnected(t) \/ Forget(t) \/ CloseWindow(t) \/ List(t) \/ RejectNext(t)
             \/ RejectDone(t) \/ ClearAll(t) \/ Wipe(t)
    BY <2>5, MarkDisconnectedConsent, ForgetConsent, CloseWindowConsent, ListConsent,
       RejectNextConsent, RejectDoneConsent, ClearAllConsent, WipeConsent
  <2> QED BY <1>4, <2>1, <2>2, <2>3, <2>4, <2>5 DEF Handle
<1>5. ASSUME NEW t \in Tasks, Reply(t) PROVE Consent'
  BY <1>5, ReplyConsent
<1>6. CASE Environment
  BY <1>6, TickConsent, CooldownOverConsent, RestartConsent DEF Environment
<1> QED BY <1>1, <1>2, <1>3, <1>4, <1>5, <1>6 DEF Next

\* The inductive invariant: the user's approval can be traced from every row,
\* copy, answer and permission, in every reachable state.
THEOREM ConsentAlways == Spec => []Consent
<1>1. Init => Consent
  BY InitConsent
<1>2. TypeInv /\ Consent /\ [Next]_vars => Consent'
  BY NextConsent
<1> QED BY <1>1, <1>2, TypeCorrect, PTL DEF Spec

\* No origin ever holds getPublicKey unless the user approved a Grant Access
\* request of that origin, in every reachable state.
THEOREM GrantsNeedApproval == Spec => []GrantNeedsApproval
<1>1. Consent => GrantNeedsApproval
  BY DEF Consent, PermsConsent, Granted, GrantNeedsApproval, Consented
<1> QED BY <1>1, ConsentAlways, PTL

\* "connected" is answered for an approved origin only and "signed" only for a
\* transaction that was signed, for the origin that asked, in every reachable state.
THEOREM AnswersEarned == Spec => []AnswersAreEarned
<1>1. Consent => AnswersAreEarned
  BY DEF Consent, TasksHonest, Honest, Granted, AnswersAreEarned, Consented
<1> QED BY <1>1, ConsentAlways, PTL

\* An origin's in-flight entry names a connect request of its own whose resolver
\* is still registered, in every reachable state.
THEOREM InflightSettles == Spec => []InflightCanSettle
<1>1. Consent => InflightCanSettle
  BY DEF Consent, InflightOK, InflightCanSettle
<1> QED BY <1>1, ConsentAlways, PTL

-----------------------------------------------------------------------------
(* Handlers that do not overlap.                                             *)

(* With one handler at a time inside the worker's code a copy is what is      *)
(* stored, but for the sweep that is about to be written: only then do rows   *)
(* keep their life cycle, and does a disconnect close what it promises.  A    *)
(* handler that answers no longer touches anything, so answers may pile up.   *)
Serial == MaxBusy = 1 /\ IsFiniteSet(Tasks)

Inside(r) == r.pc \notin WaitPcs \cup {"reply"}
Alone     == \A t, u \in Tasks : Inside(task[t]) /\ Inside(task[u]) => t = u

\* A row after the sweep, or the row as it is.
SweepsTo(old, new) == new.status \in {old.status, Swept(old).status}

\* The copies of a handler, for what is stored.
CopyNow(r, s, p) ==
    /\ r.phase = "prune" => r.pc \in RowsPcs /\ \A i \in Ids : SweepsTo(s[i], r.rows[i])
    /\ r.phase = "ready" /\ r.pc \in RowsPcs => r.rows = s
    /\ r.phase = "ready" /\ r.pc \in PermsPcs => r.perms = p

\* A row about to be created is not there yet.
NotStored(r, s, n) == r.pc = "upsert" => r.id < n /\ s[r.id].status = "none"

\* The requests a sweep is yet to reject.
Left(r) == IF r.pc = "resolve" THEN r.todo \cup {r.id} ELSE r.todo

DisconnectPcs ==
    {"markDisconnected", "forget", "close", "list", "next", "resolve", "wake", "reply"}

\* A disconnect past its write holds no permission, and the live requests of
\* its origin, and no others, are those it is yet to reject.
Closing(r, s, p, q) ==
    r.op = "DAPP_DISCONNECT" =>
        /\ r.pc \in DisconnectPcs /\ ~r.yes
        /\ r.pc \in {"close", "list", "next", "resolve", "wake"} => r.origin \notin p
        /\ r.pc \in {"next", "resolve", "wake"} =>
              /\ \A i \in Left(r) : q[i].origin = r.origin
              /\ \A i \in LiveIds(s) : q[i].origin = r.origin => i \in Left(r)

Orderly(r, s, p, n, q) == CopyNow(r, s, p) /\ NotStored(r, s, n) /\ Closing(r, s, p, q)

OrderlyNow(r) == Orderly(r, store, permissions, nextId, request)

SerialInv == Alone /\ \A t \in Tasks : OrderlyNow(task[t])

\* The statuses the abstract specification sees, and what a step does to them.
Shown   == [i \in Ids |-> StatusOf(i)]
Refines == [Lifecycle!LNext]_Shown

\* Another slot's record, as far as order is concerned.
SamePart(r, s) ==
    s.pc = r.pc /\ s.op = r.op /\ s.phase = r.phase /\ s.yes = r.yes /\ s.id = r.id

-----------------------------------------------------------------------------
(* What a step of one handler leaves in order. *)

\* Nobody is inside the worker's code beside the handler that is, or comes in.
LEMMA Others ==
  ASSUME Serial, SerialInv, NEW t \in Tasks, Inside(task[t]) \/ Room(t), NEW u \in Tasks \ {t}
  PROVE  ~Inside(task[u])
<1>1. CASE Inside(task[t])
  BY <1>1 DEF SerialInv, Alone
<1>2. CASE Room(t)
  <2>. DEFINE busy == {v \in Tasks \ {t} : Busy(v)}
  <2>1. IsFiniteSet(busy)
    BY FS_Subset DEF Serial
  <2>2. Cardinality(busy) \in Nat /\ (Cardinality(busy) = 0 <=> busy = {})
    BY <2>1, FS_CardinalityType, FS_EmptySet
  <2>3. busy = {}
    BY <1>2, <2>2 DEF Room, Serial
  <2>4. ~Busy(u)
    BY <2>3
  <2> QED BY <2>4 DEF Busy, Inside
<1> QED BY <1>1, <1>2

\* Who is not inside is in order whatever the others write.
LEMMA OutsideOrderly ==
  ASSUME NEW r, NEW s, NEW x, NEW y, NEW n, NEW q, OrderlyNow(r), ~Inside(r), SamePart(r, s)
  PROVE  Orderly(s, x, y, n, q)
  BY DEF OrderlyNow, Orderly, CopyNow, NotStored, Closing, Inside, SamePart, WaitPcs, RowsPcs,
         PermsPcs, DisconnectPcs

LEMMA OneMoves ==
  ASSUME Serial, SerialInv, NEW t \in Tasks, Inside(task[t]) \/ Room(t),
         \A u \in Tasks \ {t} : SamePart(task[u], task'[u]), OrderlyNow(task[t])'
  PROVE  SerialInv'
<1>1. ASSUME NEW u \in Tasks \ {t} PROVE ~Inside(task'[u]) /\ OrderlyNow(task[u])'
  <2>1. ~Inside(task[u]) /\ OrderlyNow(task[u]) /\ SamePart(task[u], task'[u])
    BY Others DEF SerialInv
  <2>2. Orderly(task'[u], store', permissions', nextId', request')
    BY <2>1, OutsideOrderly
  <2> QED BY <2>1, <2>2 DEF OrderlyNow, Inside, SamePart
<1>2. Alone'
  BY <1>1 DEF Alone
<1> QED BY <1>1, <1>2 DEF SerialInv

\* A handler that answers, or leaves, moves nothing else.
LEMMA OneLeaves ==
  ASSUME SerialInv, NEW t \in Tasks, UNCHANGED <<store, permissions, nextId, request>>,
         \A u \in Tasks \ {t} : task'[u] = task[u], OrderlyNow(task[t])', ~Inside(task'[t])
  PROVE  SerialInv'
<1>1. ASSUME NEW u \in Tasks \ {t} PROVE task'[u] = task[u] /\ OrderlyNow(task[u])'
  BY DEF SerialInv, OrderlyNow
<1>2. Alone'
  BY <1>1 DEF SerialInv, Alone
<1> QED BY <1>1, <1>2 DEF SerialInv

\* The statuses are as they were if the rows' are, and who is about to create one.
LEMMA ShownKept ==
  ASSUME \A i \in Ids : store'[i].status = store[i].status, nextId' = nextId,
         \A u \in Tasks : /\ task'[u].pc = "upsert" <=> task[u].pc = "upsert"
                          /\ task[u].pc = "upsert" => task'[u].id = task[u].id
  PROVE  Refines
<1>1. ASSUME NEW i \in Ids PROVE StatusOf(i)' = StatusOf(i)
  BY DEF StatusOf
<1>2. Shown' = Shown
  BY <1>1 DEF Shown
<1> QED BY <1>2 DEF Refines

\* A handler that creates no row goes on; what is stored stays.
LEMMA Plain ==
  ASSUME Serial, SerialInv, NEW t \in Tasks, Inside(task[t]) \/ Room(t), task[t].pc # "upsert",
         UNCHANGED <<store, nextId>>,
         \A u \in Tasks \ {t} : SamePart(task[u], task'[u]),
         task'[t].pc # "upsert", CopyNow(task'[t], store, permissions'),
         Closing(task'[t], store, permissions', request')
  PROVE  SerialInv' /\ Refines
<1>1. OrderlyNow(task[t])'
  BY DEF OrderlyNow, Orderly, NotStored
<1>2. SerialInv'
  BY <1>1, OneMoves
<1>3. Refines
  BY ShownKept DEF SamePart
<1> QED BY <1>2, <1>3

\* To drops the copies, so there is nothing to be out of date.
LEMMA ToCopyNow ==
  ASSUME NEW r \in TaskRecords, NEW p, NEW s, NEW y, NEW v \in TaskRecords,
         v.pc = p, v.phase = To(r, p).phase
  PROVE  CopyNow(v, s, y)
  BY DEF CopyNow, To, TaskRecords

\* What a disconnect knows is nothing to another handler.
LEMMA NoClosing ==
  ASSUME NEW r, NEW s, NEW y, NEW q, r.op # "DAPP_DISCONNECT" PROVE Closing(r, s, y, q)
  BY DEF Closing

\* Where a disconnect can stand.
LEMMA NoDisconnect ==
  ASSUME SerialInv, NEW t \in Tasks, task[t].pc \notin DisconnectPcs
  PROVE  task[t].op # "DAPP_DISCONNECT"
  BY DEF SerialInv, OrderlyNow, Orderly, Closing

LEMMA GoSerial ==
  ASSUME Serial, TypeInv, SerialInv, NEW t \in Tasks, NEW p \in Pcs \ {"upsert"}, Go(t, p),
         Inside(task[t]) \/ Room(t), task[t].pc # "upsert", UNCHANGED <<store, nextId>>,
         \/ task[t].op # "DAPP_DISCONNECT"
         \/ Closing(To(task[t], p), store, permissions', request')
  PROVE  SerialInv' /\ Refines
<1>. DEFINE r == To(task[t], p)
<1>1. task \in [Tasks -> TaskRecords] /\ task' = [task EXCEPT ![t] = r]
  BY DEF TypeInv, TypeOK, Go
<1>2. r \in TaskRecords /\ r.pc = p /\ r.op = task[t].op
  BY <1>1, ToType
<1>3. task'[t] = r /\ \A u \in Tasks \ {t} : SamePart(task[u], task'[u])
  BY <1>1 DEF SamePart
<1>4. CopyNow(r, store, permissions')
  BY <1>1, <1>2, ToCopyNow
<1>5. Closing(r, store, permissions', request')
  BY <1>2, NoClosing
<1> HIDE DEF r
<1> QED BY <1>2, <1>3, <1>4, <1>5, Plain

LEMMA AnswerSerial ==
  ASSUME Serial, TypeInv, SerialInv, NEW t \in Tasks, NEW a \in Answers, Answer(t, a),
         Inside(task[t]) \/ Room(t), task[t].pc # "upsert", UNCHANGED <<store, nextId>>
  PROVE  SerialInv' /\ Refines
<1>. DEFINE q == To(task[t], "reply")
            r == [q EXCEPT !.ret = a]
<1>1. task \in [Tasks -> TaskRecords] /\ task' = [task EXCEPT ![t] = r]
  BY DEF TypeInv, TypeOK, Answer
<1>2. q \in TaskRecords /\ q.pc = "reply" /\ q.op = task[t].op /\ q.yes = task[t].yes
  BY <1>1, ToType, PcNames
<1>3. r \in TaskRecords /\ r.pc = "reply" /\ r.op = q.op /\ r.phase = q.phase /\ r.yes = q.yes
  BY <1>2 DEF TaskRecords
<1>4. task'[t] = r /\ \A u \in Tasks \ {t} : SamePart(task[u], task'[u])
  BY <1>1 DEF SamePart
<1>5. CopyNow(r, store, permissions')
  BY <1>1, <1>2, <1>3, ToCopyNow
<1>6. Closing(r, store, permissions', request')
  BY <1>2, <1>3 DEF SerialInv, OrderlyNow, Orderly, Closing, DisconnectPcs
<1> HIDE DEF r
<1> QED BY <1>3, <1>4, <1>5, <1>6, Plain

LEMMA BeginSerial ==
  ASSUME Serial, TypeInv, SerialInv, NEW t \in Tasks, NEW op \in HandlerOps,
         NEW p \in Pcs \ {"upsert"},
         NEW o \in Origins \cup {NoOrigin}, NEW i \in Ids \cup {0}, NEW yes \in BOOLEAN,
         Begin(t, op, p, o, i, yes), UNCHANGED <<store, nextId>>,
         op = "DAPP_DISCONNECT" => p = "markDisconnected" /\ ~yes
  PROVE  SerialInv' /\ Refines
<1>. DEFINE q == To(Idle, p)
            r == [q EXCEPT !.op = op, !.origin = o, !.id = i, !.yes = yes]
<1>1. /\ task \in [Tasks -> TaskRecords] /\ task' = [task EXCEPT ![t] = r]
      /\ task[t].pc = "idle" /\ Room(t)
  BY DEF TypeInv, TypeOK, Begin
<1>2. q \in TaskRecords /\ q.pc = p
  BY IdleType, ToType
<1>3. r \in TaskRecords /\ r.pc = p /\ r.op = op /\ r.phase = q.phase /\ r.yes = yes
  BY <1>2 DEF TaskRecords
<1>4. task'[t] = r /\ \A u \in Tasks \ {t} : SamePart(task[u], task'[u])
  BY <1>1 DEF SamePart
<1>5. CopyNow(r, store, permissions')
  BY IdleType, <1>2, <1>3, ToCopyNow
<1>6. Closing(r, store, permissions', request')
  BY <1>3 DEF Closing, DisconnectPcs
<1> HIDE DEF r
<1> QED BY <1>1, <1>3, <1>4, <1>5, <1>6, Plain

-----------------------------------------------------------------------------
(* Messages arrive. *)
LEMMA DappCallSerial ==
  ASSUME Serial, TypeInv, SerialInv, NEW t \in Tasks, NEW op \in DappOps, NEW o \in Origins,
         DappCall(t, op, o)
  PROVE  SerialInv' /\ Refines
<1>1. \/ op \in Requests /\ FirstPc(op) = "perms"
      \/ op = "DAPP_DISCONNECT" /\ FirstPc(op) = "markDisconnected"
      \/ op = "DAPP_PAGE_SESSION_START" /\ FirstPc(op) = "unmark"
  BY DEF DappCall, DappOps, Requests, FirstPc
<1>2. FirstPc(op) \in Pcs \ {"upsert"} /\ op \in HandlerOps
  BY <1>1 DEF Pcs, RowsPcs, PermsPcs, DiscPcs, HandlerOps
<1>3. op = "DAPP_DISCONNECT" => FirstPc(op) = "markDisconnected"
  BY <1>1 DEF Requests
<1>4. Begin(t, op, FirstPc(op), o, 0, FALSE) /\ UNCHANGED <<store, nextId>>
  BY DEF DappCall, persistent, catalog
<1> QED BY <1>2, <1>3, <1>4, BeginSerial

LEMMA PollSerial ==
  ASSUME Serial, TypeInv, SerialInv, NEW t \in Tasks, NEW o \in Origins, NEW i \in Ids, Poll(t, o, i)
  PROVE  SerialInv' /\ Refines
<1>1. /\ Begin(t, "DAPP_POLL_REQUEST_RESULT", "poll", o, i, FALSE)
      /\ UNCHANGED <<store, nextId>>
  BY DEF Poll, persistent, catalog
<1> QED BY <1>1, PcNames, BeginSerial DEF RowsPcs, HandlerOps, DappOps, UiOps, Requests

LEMMA ResolveSerial ==
  ASSUME Serial, TypeInv, SerialInv, NEW t \in Tasks, NEW i \in Ids, NEW yes \in BOOLEAN, Resolve(t, i, yes)
  PROVE  SerialInv' /\ Refines
<1>1. /\ Begin(t, "RESOLVE_PENDING_DAPP_REQUEST", "get", NoOrigin, i, yes)
      /\ UNCHANGED <<store, nextId>>
  BY DEF Resolve, persistent, catalog
<1> QED BY <1>1, PcNames, BeginSerial DEF RowsPcs, HandlerOps, DappOps, UiOps, Requests

LEMMA ExecuteSerial ==
  ASSUME Serial, TypeInv, SerialInv, NEW t \in Tasks, NEW i \in Ids, Execute(t, i)
  PROVE  SerialInv' /\ Refines
<1>1. /\ Begin(t, "EXECUTE_DAPP_EXTERNAL_SIGN", "mark", NoOrigin, i, FALSE)
      /\ UNCHANGED <<store, nextId>>
  BY DEF Execute, persistent, catalog
<1> QED BY <1>1, PcNames, BeginSerial DEF RowsPcs, HandlerOps, DappOps, UiOps, Requests

LEMMA ListPendingSerial ==
  ASSUME Serial, TypeInv, SerialInv, NEW t \in Tasks, ListPending(t)
  PROVE  SerialInv' /\ Refines
<1>1. /\ Begin(t, "LIST_PENDING_DAPP_REQUESTS", "list", NoOrigin, 0, FALSE)
      /\ UNCHANGED <<store, nextId>>
  BY DEF ListPending, persistent, catalog
<1> QED BY <1>1, PcNames, BeginSerial DEF RowsPcs, HandlerOps, DappOps, UiOps, Requests

LEMMA LogoutSerial ==
  ASSUME Serial, TypeInv, SerialInv, NEW t \in Tasks, Logout(t)
  PROVE  SerialInv' /\ Refines
<1>1. /\ Begin(t, "LOGOUT", "clear", NoOrigin, 0, FALSE)
      /\ UNCHANGED <<store, nextId>>
  BY DEF Logout, persistent, catalog
<1> QED BY <1>1, PcNames, BeginSerial DEF RowsPcs, HandlerOps, DappOps, UiOps, Requests

LEMMA WindowClosedSerial ==
  ASSUME Serial, TypeInv, SerialInv, NEW t \in Tasks, NEW w \in Windows, WindowClosed(t, w)
  PROVE  SerialInv' /\ Refines
<1>1. /\ Begin(t, "WINDOW_CLOSED", "list", NoOrigin, 0, FALSE)
      /\ UNCHANGED <<store, nextId>>
  BY DEF WindowClosed, persistent, catalog
<1> QED BY <1>1, PcNames, BeginSerial DEF RowsPcs, HandlerOps, DappOps, UiOps, Requests

-----------------------------------------------------------------------------
(* Steps that leave the rows alone. *)

LEMMA CheckPermissionSerial ==
  ASSUME Serial, TypeInv, SerialInv, NEW t \in Tasks, CheckPermission(t)
  PROVE  SerialInv' /\ Refines
<1>1. /\ task[t].pc \in {"perms"} /\ Inside(task[t])
      /\ UNCHANGED <<store, nextId>>
  BY DEF CheckPermission, At, Inside, WaitPcs, persistent, catalog
<1>2. task[t].op # "DAPP_DISCONNECT"
  BY <1>1, NoDisconnect DEF DisconnectPcs
<1>3. (\E p \in {"allow", "assert"} : Go(t, p)) \/ (\E a \in {"not_connected", "connected", "ok"} : Answer(t, a))
  BY <1>1 DEF CheckPermission, Opened, LiveStatuses
<1>4. ASSUME NEW p \in {"allow", "assert"}, Go(t, p) PROVE SerialInv' /\ Refines
  BY <1>1, <1>2, <1>4, PcNames, GoSerial DEF RowsPcs, PermsPcs, DiscPcs
<1>5. ASSUME NEW a \in {"not_connected", "connected", "ok"}, Answer(t, a) PROVE SerialInv' /\ Refines
  BY <1>1, <1>5, AnswerSerial DEF Answers
<1> QED BY <1>3, <1>4, <1>5

LEMMA AssertPromptAllowedSerial ==
  ASSUME Serial, TypeInv, SerialInv, NEW t \in Tasks, AssertPromptAllowed(t)
  PROVE  SerialInv' /\ Refines
<1>1. /\ task[t].pc \in {"assert", "assertAgain"} /\ Inside(task[t])
      /\ UNCHANGED <<store, nextId>>
  BY DEF AssertPromptAllowed, At, Inside, WaitPcs, persistent, catalog
<1>2. task[t].op # "DAPP_DISCONNECT"
  BY <1>1, NoDisconnect DEF DisconnectPcs
<1>3. (\E p \in {"assertAgain", "find"} : Go(t, p)) \/ (\E a \in {"not_connected"} : Answer(t, a))
  BY <1>1 DEF AssertPromptAllowed, Opened, LiveStatuses
<1>4. ASSUME NEW p \in {"assertAgain", "find"}, Go(t, p) PROVE SerialInv' /\ Refines
  BY <1>1, <1>2, <1>4, PcNames, GoSerial DEF RowsPcs, PermsPcs, DiscPcs
<1>5. ASSUME NEW a \in {"not_connected"}, Answer(t, a) PROVE SerialInv' /\ Refines
  BY <1>1, <1>5, AnswerSerial DEF Answers
<1> QED BY <1>3, <1>4, <1>5

LEMMA OpenPopupSerial ==
  ASSUME Serial, TypeInv, SerialInv, NEW t \in Tasks, OpenPopup(t)
  PROVE  SerialInv' /\ Refines
<1>1. /\ task[t].pc \in {"popup"} /\ Inside(task[t])
      /\ UNCHANGED <<store, nextId>>
  BY DEF OpenPopup, At, Inside, WaitPcs, persistent, catalog
<1>2. task[t].op # "DAPP_DISCONNECT"
  BY <1>1, NoDisconnect DEF DisconnectPcs
<1>3. (\E p \in {"waiting", "create"} : Go(t, p)) \/ (\E a \in {"pending"} : Answer(t, a))
  BY <1>1 DEF OpenPopup, Opened, LiveStatuses
<1>4. ASSUME NEW p \in {"waiting", "create"}, Go(t, p) PROVE SerialInv' /\ Refines
  BY <1>1, <1>2, <1>4, PcNames, GoSerial DEF RowsPcs, PermsPcs, DiscPcs
<1>5. ASSUME NEW a \in {"pending"}, Answer(t, a) PROVE SerialInv' /\ Refines
  BY <1>1, <1>5, AnswerSerial DEF Answers
<1> QED BY <1>3, <1>4, <1>5

LEMMA CreateWindowSerial ==
  ASSUME Serial, TypeInv, SerialInv, NEW t \in Tasks, CreateWindow(t)
  PROVE  SerialInv' /\ Refines
<1>1. /\ task[t].pc \in {"create"} /\ Inside(task[t])
      /\ UNCHANGED <<store, nextId>>
  BY DEF CreateWindow, At, Inside, WaitPcs, persistent, catalog
<1>2. task[t].op # "DAPP_DISCONNECT"
  BY <1>1, NoDisconnect DEF DisconnectPcs
<1>3. (\E p \in {"waiting"} : Go(t, p)) \/ (\E a \in {"pending"} : Answer(t, a))
  BY <1>1 DEF CreateWindow, Opened, LiveStatuses
<1>4. ASSUME NEW p \in {"waiting"}, Go(t, p) PROVE SerialInv' /\ Refines
  BY <1>1, <1>2, <1>4, PcNames, GoSerial DEF RowsPcs, PermsPcs, DiscPcs
<1>5. ASSUME NEW a \in {"pending"}, Answer(t, a) PROVE SerialInv' /\ Refines
  BY <1>1, <1>5, AnswerSerial DEF Answers
<1> QED BY <1>3, <1>4, <1>5

LEMMA DecidedSerial ==
  ASSUME Serial, TypeInv, SerialInv, NEW t \in Tasks, Decided(t)
  PROVE  SerialInv' /\ Refines
<1>1. /\ task[t].pc \in {"waiting"} /\ Room(t)
      /\ UNCHANGED <<store, nextId>>
  BY DEF Decided, At, Inside, WaitPcs, persistent, catalog
<1>2. task[t].op # "DAPP_DISCONNECT"
  BY <1>1, NoDisconnect DEF DisconnectPcs
<1>3. (\E p \in {"grant"} : Go(t, p)) \/ (\E a \in {"rejected"} : Answer(t, a))
  BY <1>1 DEF Decided, Opened, LiveStatuses
<1>4. ASSUME NEW p \in {"grant"}, Go(t, p) PROVE SerialInv' /\ Refines
  BY <1>1, <1>2, <1>4, PcNames, GoSerial DEF RowsPcs, PermsPcs, DiscPcs
<1>5. ASSUME NEW a \in {"rejected"}, Answer(t, a) PROVE SerialInv' /\ Refines
  BY <1>1, <1>5, AnswerSerial DEF Answers
<1> QED BY <1>3, <1>4, <1>5

LEMMA GrantSerial ==
  ASSUME Serial, TypeInv, SerialInv, NEW t \in Tasks, Grant(t)
  PROVE  SerialInv' /\ Refines
<1>1. /\ task[t].pc \in {"grant"} /\ Inside(task[t])
      /\ UNCHANGED <<store, nextId>>
  BY DEF Grant, At, Inside, WaitPcs, persistent, catalog
<1>2. task[t].op # "DAPP_DISCONNECT"
  BY <1>1, NoDisconnect DEF DisconnectPcs
<1>3. (\E p \in {"unmark"} : Go(t, p))
  BY <1>1 DEF Grant, Opened, LiveStatuses
<1>4. ASSUME NEW p \in {"unmark"}, Go(t, p) PROVE SerialInv' /\ Refines
  BY <1>1, <1>2, <1>4, PcNames, GoSerial DEF RowsPcs, PermsPcs, DiscPcs
<1> QED BY <1>3, <1>4

LEMMA UnmarkSerial ==
  ASSUME Serial, TypeInv, SerialInv, NEW t \in Tasks, Unmark(t)
  PROVE  SerialInv' /\ Refines
<1>1. /\ task[t].pc \in {"unmark"} /\ Inside(task[t])
      /\ UNCHANGED <<store, nextId>>
  BY DEF Unmark, At, Inside, WaitPcs, persistent, catalog
<1>2. task[t].op # "DAPP_DISCONNECT"
  BY <1>1, NoDisconnect DEF DisconnectPcs
<1>3. (\E a \in {"connected", "ok"} : Answer(t, a))
  BY <1>1 DEF Unmark, Opened, LiveStatuses
<1>5. ASSUME NEW a \in {"connected", "ok"}, Answer(t, a) PROVE SerialInv' /\ Refines
  BY <1>1, <1>5, AnswerSerial DEF Answers
<1> QED BY <1>3, <1>5

LEMMA CheckAllowedSerial ==
  ASSUME Serial, TypeInv, SerialInv, NEW t \in Tasks, CheckAllowed(t)
  PROVE  SerialInv' /\ Refines
<1>1. /\ task[t].pc \in {"allow"} /\ Inside(task[t])
      /\ UNCHANGED <<store, nextId>>
  BY DEF CheckAllowed, At, Inside, WaitPcs, persistent, catalog
<1>2. task[t].op # "DAPP_DISCONNECT"
  BY <1>1, NoDisconnect DEF DisconnectPcs
<1>3. (\E p \in {"prepare"} : Go(t, p)) \/ (\E a \in {"not_connected"} : Answer(t, a))
  BY <1>1 DEF CheckAllowed, Opened, LiveStatuses
<1>4. ASSUME NEW p \in {"prepare"}, Go(t, p) PROVE SerialInv' /\ Refines
  BY <1>1, <1>2, <1>4, PcNames, GoSerial DEF RowsPcs, PermsPcs, DiscPcs
<1>5. ASSUME NEW a \in {"not_connected"}, Answer(t, a) PROVE SerialInv' /\ Refines
  BY <1>1, <1>5, AnswerSerial DEF Answers
<1> QED BY <1>3, <1>4, <1>5

LEMMA PollRowSerial ==
  ASSUME Serial, TypeInv, SerialInv, NEW t \in Tasks, PollRow(t)
  PROVE  SerialInv' /\ Refines
<1>1. /\ task[t].pc \in {"poll"} /\ Inside(task[t])
      /\ UNCHANGED <<store, nextId>>
  BY DEF PollRow, At, Inside, WaitPcs, persistent, catalog
<1>2. task[t].op # "DAPP_DISCONNECT"
  BY <1>1, NoDisconnect DEF DisconnectPcs
<1>3. (\E p \in {"pollPerms"} : Go(t, p)) \/ (\E a \in {"not_found", "pending", "expired", "rejected", "signed"} : Answer(t, a))
  BY <1>1 DEF PollRow, Opened, LiveStatuses
<1>4. ASSUME NEW p \in {"pollPerms"}, Go(t, p) PROVE SerialInv' /\ Refines
  BY <1>1, <1>2, <1>4, PcNames, GoSerial DEF RowsPcs, PermsPcs, DiscPcs
<1>5. ASSUME NEW a \in {"not_found", "pending", "expired", "rejected", "signed"}, Answer(t, a) PROVE SerialInv' /\ Refines
  BY <1>1, <1>5, AnswerSerial DEF Answers
<1> QED BY <1>3, <1>4, <1>5

LEMMA PollPermissionSerial ==
  ASSUME Serial, TypeInv, SerialInv, NEW t \in Tasks, PollPermission(t)
  PROVE  SerialInv' /\ Refines
<1>1. /\ task[t].pc \in {"pollPerms"} /\ Inside(task[t])
      /\ UNCHANGED <<store, nextId>>
  BY DEF PollPermission, At, Inside, WaitPcs, persistent, catalog
<1>2. task[t].op # "DAPP_DISCONNECT"
  BY <1>1, NoDisconnect DEF DisconnectPcs
<1>3. (\E p \in {"grant"} : Go(t, p)) \/ (\E a \in {"connected"} : Answer(t, a))
  BY <1>1 DEF PollPermission, Opened, LiveStatuses
<1>4. ASSUME NEW p \in {"grant"}, Go(t, p) PROVE SerialInv' /\ Refines
  BY <1>1, <1>2, <1>4, PcNames, GoSerial DEF RowsPcs, PermsPcs, DiscPcs
<1>5. ASSUME NEW a \in {"connected"}, Answer(t, a) PROVE SerialInv' /\ Refines
  BY <1>1, <1>5, AnswerSerial DEF Answers
<1> QED BY <1>3, <1>4, <1>5

LEMMA SignFailedSerial ==
  ASSUME Serial, TypeInv, SerialInv, NEW t \in Tasks, SignFailed(t)
  PROVE  SerialInv' /\ Refines
<1>1. /\ task[t].pc \in {"sign"} /\ Room(t)
      /\ UNCHANGED <<store, nextId>>
  BY DEF SignFailed, At, Inside, WaitPcs, persistent, catalog
<1>2. task[t].op # "DAPP_DISCONNECT"
  BY <1>1, NoDisconnect DEF DisconnectPcs
<1>3. (\E p \in {"resolve"} : Go(t, p))
  BY <1>1 DEF SignFailed, Opened, LiveStatuses
<1>4. ASSUME NEW p \in {"resolve"}, Go(t, p) PROVE SerialInv' /\ Refines
  BY <1>1, <1>2, <1>4, PcNames, GoSerial DEF RowsPcs, PermsPcs, DiscPcs
<1> QED BY <1>3, <1>4

LEMMA WipeSerial ==
  ASSUME Serial, TypeInv, SerialInv, NEW t \in Tasks, Wipe(t)
  PROVE  SerialInv' /\ Refines
<1>1. /\ task[t].pc \in {"wipe"} /\ Inside(task[t])
      /\ UNCHANGED <<store, nextId>>
  BY DEF Wipe, At, Inside, WaitPcs, persistent, catalog
<1>2. task[t].op # "DAPP_DISCONNECT"
  BY <1>1, NoDisconnect DEF DisconnectPcs
<1>3. (\E a \in {"ok"} : Answer(t, a))
  BY <1>1 DEF Wipe, Opened, LiveStatuses
<1>5. ASSUME NEW a \in {"ok"}, Answer(t, a) PROVE SerialInv' /\ Refines
  BY <1>1, <1>5, AnswerSerial DEF Answers
<1> QED BY <1>3, <1>5

\* The copy a handler asked for arrives.
LEMMA ClosingKept ==
  ASSUME NEW r, NEW v, v.pc = r.pc, v.op = r.op, v.yes = r.yes, v.origin = r.origin,
         v.todo = r.todo, v.id = r.id, NEW s, NEW x, NEW y, NEW q, Closing(r, s, y, q),
         \A i \in LiveIds(x) : i \in LiveIds(s)
  PROVE  Closing(v, x, y, q)
  BY DEF Closing, Left

LEMMA ReadRowsSerial ==
  ASSUME Serial, TypeInv, SerialInv, NEW t \in Tasks, ReadRows(t) PROVE SerialInv' /\ Refines
<1>. DEFINE swept == Expire(store)
            r     == task'[t]
<1>1. /\ task[t] \in TaskRecords /\ task[t].pc \in RowsPcs /\ Inside(task[t])
      /\ UNCHANGED <<store, permissions, nextId, request>>
      /\ OrderlyNow(task[t]) /\ store \in Stores
  BY DEF ReadRows, TypeInv, TypeOK, SerialInv, Inside, WaitPcs, RowsPcs, persistent, catalog
<1>2. /\ r.pc = task[t].pc /\ r.op = task[t].op /\ r.yes = task[t].yes /\ r.id = task[t].id
      /\ r.origin = task[t].origin /\ r.todo = task[t].todo
      /\ r.rows = swept /\ r.phase = (IF swept = store THEN "ready" ELSE "prune")
      /\ \A u \in Tasks \ {t} : task'[u] = task[u]
  BY DEF ReadRows, TypeInv, TypeOK, TaskRecords
<1>3. \A i \in Ids : swept[i] = Swept(store[i])
  BY DEF Expire
<1> HIDE DEF swept, r
<1>4. CopyNow(r, store, permissions)
  BY <1>1, <1>2, <1>3 DEF CopyNow, SweepsTo, RowsPcs, PermsPcs
<1>5. Closing(r, store, permissions, request) /\ NotStored(r, store, nextId)
  BY <1>1, <1>2, ClosingKept DEF OrderlyNow, Orderly, NotStored
<1>6. SerialInv'
  BY <1>1, <1>2, <1>4, <1>5, OneMoves DEF OrderlyNow, Orderly, SamePart, r
<1>7. Refines
  BY <1>1, <1>2, ShownKept DEF r
<1> QED BY <1>6, <1>7

LEMMA ReadLocalSerial ==
  ASSUME Serial, TypeInv, SerialInv, NEW t \in Tasks, ReadLocal(t) PROVE SerialInv' /\ Refines
<1>. DEFINE r == task'[t]
<1>1. /\ task[t] \in TaskRecords /\ task[t].pc \in PermsPcs \cup DiscPcs
      /\ UNCHANGED <<store, permissions, nextId, request>> /\ OrderlyNow(task[t])
  BY DEF ReadLocal, TypeInv, TypeOK, SerialInv, persistent, catalog
<1>2. /\ r.pc = task[t].pc /\ r.op = task[t].op /\ r.yes = task[t].yes /\ r.id = task[t].id
      /\ r.origin = task[t].origin /\ r.todo = task[t].todo /\ r.phase = "ready"
      /\ r.pc \in PermsPcs => r.perms = permissions
      /\ \A u \in Tasks \ {t} : task'[u] = task[u]
  BY DEF ReadLocal, TypeInv, TypeOK, TaskRecords, PermsPcs, DiscPcs
<1>3. Inside(task[t]) /\ task[t].pc # "upsert" /\ task[t].pc \notin RowsPcs
  BY <1>1 DEF Inside, WaitPcs, RowsPcs, PermsPcs, DiscPcs
<1> HIDE DEF r
<1>4. CopyNow(r, store, permissions) /\ Closing(r, store, permissions, request)
  BY <1>1, <1>2, <1>3, ClosingKept DEF OrderlyNow, Orderly, CopyNow
<1> QED BY <1>1, <1>2, <1>3, <1>4, Plain DEF SamePart, r

\* A sweep: rows that were not answered in time expire, answered ones go.
LEMMA SweptStatus ==
  ASSUME NEW old \in Rows
  PROVE  \/ Swept(old).status = old.status
         \/ old.status \in LiveStatuses /\ Swept(old).status = "expired"
         \/ old.status \in TerminalStatuses /\ Swept(old).status = "none"
  BY DEF Swept, Live, Terminal, Rows, Statuses, Absent

LEMMA SweepRefines ==
  ASSUME \A i \in Ids : \/ StatusOf(i)' = StatusOf(i)
                        \/ StatusOf(i) \in LiveStatuses /\ StatusOf(i)' = "expired"
                        \/ StatusOf(i) \in TerminalStatuses /\ StatusOf(i)' = "gone"
  PROVE  Refines
<1>. DEFINE S == {i \in Ids : Shown'[i] # Shown[i]}
            after(i) == IF Shown[i] \in Lifecycle!Unanswered THEN "expired" ELSE "gone"
<1>1. ASSUME NEW i \in Ids PROVE Shown[i] = StatusOf(i) /\ Shown'[i] = StatusOf(i)'
  BY DEF Shown
<1>2. \A i \in S : /\ Shown[i] \in Lifecycle!Unanswered \cup Lifecycle!Answered
                   /\ Shown'[i] = after(i)
  BY <1>1 DEF Lifecycle!Unanswered, Lifecycle!Answered, LiveStatuses, TerminalStatuses
<1>3. Shown' = [i \in Ids |-> Shown'[i]]
  BY DEF Shown
<1>4. Shown' = [i \in Ids |-> IF i \notin S THEN Shown[i] ELSE after(i)]
  BY <1>2, <1>3
<1>5. Lifecycle!Sweep(S)
  BY <1>2, <1>4 DEF Lifecycle!Sweep, Shown
<1>6. S \in SUBSET Ids
  OBVIOUS
<1> QED BY <1>5, <1>6 DEF Refines, Lifecycle!LNext

LEMMA PruneSerial ==
  ASSUME Serial, TypeInv, Consent, SerialInv, NEW t \in Tasks, Prune(t)
  PROVE  SerialInv' /\ Refines
<1>. DEFINE r == task'[t]
<1>1. /\ task[t] \in TaskRecords /\ OrderlyNow(task[t]) /\ store \in Stores
      /\ store' = task[t].rows /\ task[t].phase = "prune"
      /\ UNCHANGED <<permissions, nextId, request>>
  BY DEF Prune, TypeInv, TypeOK, SerialInv, catalog
<1>2. task[t].pc \in RowsPcs /\ \A i \in Ids : SweepsTo(store[i], store'[i])
  BY <1>1 DEF OrderlyNow, Orderly, CopyNow
<1>3. Inside(task[t])
  BY <1>2 DEF Inside, WaitPcs, RowsPcs
<1>4. /\ r.pc = task[t].pc /\ r.op = task[t].op /\ r.yes = task[t].yes /\ r.id = task[t].id
      /\ r.origin = task[t].origin /\ r.todo = task[t].todo /\ r.phase = "ready"
      /\ r.rows = store' /\ \A u \in Tasks \ {t} : task'[u] = task[u]
  BY <1>1 DEF Prune, TypeInv, TypeOK, TaskRecords
<1>5. ASSUME NEW i \in Ids
      PROVE  \/ store'[i].status = store[i].status
             \/ store[i].status \in LiveStatuses /\ store'[i].status = "expired"
             \/ store[i].status \in TerminalStatuses /\ store'[i].status = "none"
  BY <1>1, <1>2, SweptStatus DEF SweepsTo, Stores
<1> HIDE DEF r
<1>6. \A i \in LiveIds(store') : i \in LiveIds(store)
  BY <1>5 DEF LiveIds, Live, LiveStatuses
<1>7. CopyNow(r, store', permissions)
  BY <1>2, <1>4 DEF CopyNow, RowsPcs, PermsPcs
<1>8. Closing(r, store', permissions, request)
  BY <1>1, <1>4, <1>6, ClosingKept DEF OrderlyNow, Orderly
<1>9. NotStored(r, store', nextId)
  <2>. SUFFICES ASSUME r.pc = "upsert" PROVE r.id < nextId /\ store'[r.id].status = "none"
    BY DEF NotStored
  <2>1. r.id \in Ids /\ r.id < nextId /\ store[r.id].status = "none"
    BY <1>1, <1>4
    DEF OrderlyNow, Orderly, NotStored, TypeInv, Located, FitsIn, Fits, IdPcs
  <2> QED BY <2>1, <1>5 DEF LiveStatuses, TerminalStatuses
<1>10. SerialInv'
  BY <1>1, <1>3, <1>4, <1>7, <1>8, <1>9, OneMoves DEF OrderlyNow, Orderly, SamePart, r
<1>11. ASSUME NEW i \in Ids
       PROVE  \/ StatusOf(i)' = StatusOf(i)
              \/ StatusOf(i) \in LiveStatuses /\ StatusOf(i)' = "expired"
              \/ StatusOf(i) \in TerminalStatuses /\ StatusOf(i)' = "gone"
  <2>1. \A u \in Tasks : /\ task'[u].pc = "upsert" <=> task[u].pc = "upsert"
                         /\ task'[u].id = task[u].id
    BY <1>4 DEF r
  <2>2. CASE store'[i].status = store[i].status
    BY <1>1, <2>1, <2>2 DEF StatusOf
  <2>3. CASE store[i].status \in LiveStatuses /\ store'[i].status = "expired"
    BY <2>3 DEF StatusOf, LiveStatuses
  <2>4. CASE store[i].status \in TerminalStatuses /\ store'[i].status = "none"
    <3>1. store[i].status # "none" /\ StatusOf(i) = store[i].status
      BY <2>4 DEF StatusOf, TerminalStatuses
    <3>2. i < nextId
      BY <3>1 DEF Consent, RowsConsent, RowsEarned
    <3>3. ASSUME NEW u \in Tasks, task[u].pc = "upsert" PROVE task[u].id # i
      BY <3>1, <3>3 DEF SerialInv, OrderlyNow, Orderly, NotStored
    <3>4. ~(i >= nextId)
      BY <3>2 DEF TypeInv, TypeOK, Ids
    <3>5. StatusOf(i)' = "gone"
      BY <1>1, <2>1, <2>4, <3>3, <3>4 DEF StatusOf
    <3> QED BY <2>4, <3>1, <3>5
  <2> QED BY <1>5, <2>2, <2>3, <2>4
<1>12. Refines
  BY <1>11, SweepRefines
<1> QED BY <1>10, <1>12

\* A handler that answers from outside, and the answer that is sent.
LEMMA PrepareFailedSerial ==
  ASSUME Serial, TypeInv, SerialInv, NEW t \in Tasks, PrepareFailed(t)
  PROVE  SerialInv' /\ Refines
<1>. DEFINE q == To(task[t], "reply")
            r == [q EXCEPT !.ret = "failed"]
<1>1. /\ task \in [Tasks -> TaskRecords] /\ task' = [task EXCEPT ![t] = r]
      /\ task[t].pc = "prepare" /\ UNCHANGED <<store, permissions, nextId, request>>
  BY DEF TypeInv, TypeOK, Answer, PrepareFailed, At, persistent, catalog
<1>2. q \in TaskRecords /\ q.pc = "reply" /\ q.op = task[t].op /\ q.yes = task[t].yes
  BY <1>1, ToType, PcNames
<1>3. r \in TaskRecords /\ r.pc = "reply" /\ r.op = q.op /\ r.phase = q.phase /\ r.yes = q.yes
  BY <1>2 DEF TaskRecords, Answers
<1>4. task'[t] = r /\ \A u \in Tasks \ {t} : task'[u] = task[u]
  BY <1>1
<1>5. CopyNow(r, store, permissions)
  BY <1>1, <1>2, <1>3, ToCopyNow
<1>6. r.op # "DAPP_DISCONNECT"
  BY <1>1, <1>2, <1>3, NoDisconnect DEF DisconnectPcs
<1> HIDE DEF r
<1>7. OrderlyNow(task[t])' /\ ~Inside(task'[t])
  BY <1>1, <1>3, <1>4, <1>5, <1>6 DEF OrderlyNow, Orderly, NotStored, Closing, Inside
<1>8. SerialInv'
  BY <1>1, <1>4, <1>7, OneLeaves
<1>9. Refines
  BY <1>1, <1>3, <1>4, ShownKept
<1> QED BY <1>8, <1>9

LEMMA IdleOrderly == ~Inside(Idle) /\ \A s, y, n, q : Orderly(Idle, s, y, n, q)
  BY DEF Idle, Inside, WaitPcs, Orderly, CopyNow, NotStored, Closing, RowsPcs, PermsPcs

LEMMA ReplySerial ==
  ASSUME Serial, TypeInv, SerialInv, NEW t \in Tasks, Reply(t) PROVE SerialInv' /\ Refines
<1>1. /\ task'[t] = Idle /\ \A u \in Tasks \ {t} : task'[u] = task[u]
      /\ task[t].pc = "reply" /\ Idle.pc = "idle"
      /\ UNCHANGED <<store, permissions, nextId, request>>
  BY DEF Reply, At, TypeInv, TypeOK, persistent, catalog, Idle
<1>2. OrderlyNow(task[t])' /\ ~Inside(task'[t])
  BY <1>1, IdleOrderly DEF OrderlyNow
<1>3. SerialInv'
  BY <1>1, <1>2, OneLeaves
<1>4. Refines
  BY <1>1, ShownKept
<1> QED BY <1>3, <1>4

LEMMA CooldownOverSerial ==
  ASSUME Serial, SerialInv, NEW o \in Origins, CooldownOver(o) PROVE SerialInv' /\ Refines
<1>1. UNCHANGED <<store, permissions, nextId, request, task>>
  BY DEF CooldownOver, persistent, catalog
<1>2. SerialInv'
  BY <1>1 DEF SerialInv, Alone, OrderlyNow
<1> QED BY <1>1, <1>2, ShownKept

-----------------------------------------------------------------------------
(* Steps of a disconnect, among them those of the sweep it shares.           *)
LEMMA MarkDisconnectedSerial ==
  ASSUME Serial, TypeInv, SerialInv, NEW t \in Tasks, MarkDisconnected(t)
  PROVE  SerialInv' /\ Refines
<1>1. /\ task[t].pc = "markDisconnected" /\ Inside(task[t]) /\ Go(t, "forget")
      /\ UNCHANGED <<store, nextId>> /\ task[t] \in TaskRecords
  BY DEF MarkDisconnected, At, Inside, WaitPcs, catalog, TypeInv, TypeOK
<1>2. "forget" \in Pcs \ {"upsert"}
  BY DEF Pcs, PermsPcs
<1>3. Closing(To(task[t], "forget"), store, permissions', request')
  <2>1. To(task[t], "forget").pc = "forget" /\ To(task[t], "forget").op = task[t].op
        /\ To(task[t], "forget").yes = task[t].yes
    BY <1>1, <1>2, ToType
  <2> QED BY <2>1 DEF Closing, DisconnectPcs, SerialInv, OrderlyNow, Orderly
<1> QED BY <1>1, <1>2, <1>3, GoSerial

\* After its write the origin has no permission.
LEMMA ForgetSerial ==
  ASSUME Serial, TypeInv, SerialInv, NEW t \in Tasks, Forget(t)
  PROVE  SerialInv' /\ Refines /\ task[t].origin \notin permissions'
                   /\ \A o \in Origins \ {task[t].origin} : o \in permissions' <=> o \in permissions
<1>1. /\ task[t].pc = "forget" /\ task[t].phase = "ready" /\ Inside(task[t]) /\ Go(t, "close")
      /\ UNCHANGED <<store, nextId, request>> /\ task[t] \in TaskRecords
      /\ permissions' = IF task[t].origin \in task[t].perms THEN task[t].perms \ {task[t].origin}
                        ELSE permissions
  BY DEF Forget, At, Inside, WaitPcs, catalog, TypeInv, TypeOK
<1>2. task[t].perms = permissions
  BY <1>1 DEF SerialInv, OrderlyNow, Orderly, CopyNow, PermsPcs
<1>3. task[t].origin \notin permissions'
      /\ \A o \in Origins \ {task[t].origin} : o \in permissions' <=> o \in permissions
  BY <1>1, <1>2
<1>4. "close" \in Pcs \ {"upsert"}
  BY DEF Pcs
<1>5. Closing(To(task[t], "close"), store, permissions', request')
  <2>1. To(task[t], "close").pc = "close" /\ To(task[t], "close").op = task[t].op
        /\ To(task[t], "close").yes = task[t].yes
        /\ To(task[t], "close").origin = task[t].origin
    BY <1>1, <1>4, ToType
  <2> QED BY <1>3, <2>1 DEF Closing, DisconnectPcs, SerialInv, OrderlyNow, Orderly
<1> QED BY <1>1, <1>3, <1>4, <1>5, GoSerial

LEMMA CloseWindowSerial ==
  ASSUME Serial, TypeInv, SerialInv, NEW t \in Tasks, CloseWindow(t)
  PROVE  SerialInv' /\ Refines
<1>1. /\ task[t].pc = "close" /\ Inside(task[t]) /\ Go(t, "list")
      /\ UNCHANGED <<store, permissions, nextId>> /\ task[t] \in TaskRecords
  BY DEF CloseWindow, At, Inside, WaitPcs, catalog, persistent, TypeInv, TypeOK
<1>2. "list" \in Pcs \ {"upsert"}
  BY DEF Pcs, RowsPcs
<1>3. Closing(To(task[t], "list"), store, permissions', request')
  <2>1. To(task[t], "list").pc = "list" /\ To(task[t], "list").op = task[t].op
        /\ To(task[t], "list").yes = task[t].yes
        /\ To(task[t], "list").origin = task[t].origin
    BY <1>1, <1>2, ToType
  <2> QED BY <1>1, <2>1 DEF Closing, DisconnectPcs, SerialInv, OrderlyNow, Orderly
<1> QED BY <1>1, <1>2, <1>3, GoSerial

LEMMA ListSerial ==
  ASSUME Serial, TypeInv, SerialInv, NEW t \in Tasks, List(t) PROVE SerialInv' /\ Refines
<1>. DEFINE p == IF task[t].op = "LIST_PENDING_DAPP_REQUESTS" THEN "reply" ELSE "next"
            q == To(task[t], p)
            r == task'[t]
<1>1. /\ task[t] \in TaskRecords /\ task[t].pc = "list" /\ task[t].phase = "ready"
      /\ Inside(task[t]) /\ OrderlyNow(task[t])
      /\ UNCHANGED <<store, permissions, nextId, request>>
  BY DEF List, At, TypeInv, TypeOK, SerialInv, Inside, WaitPcs, persistent, catalog
<1>2. task[t].rows = store
  BY <1>1 DEF OrderlyNow, Orderly, CopyNow, RowsPcs
<1>3. p \in Pcs /\ p \in {"reply", "next"}
  BY PcNames
<1>4. /\ q \in TaskRecords /\ q.pc = p /\ q.op = task[t].op /\ q.yes = task[t].yes
      /\ q.origin = task[t].origin
  BY <1>1, <1>3, ToType
<1>5. /\ \/ /\ task[t].op = "LIST_PENDING_DAPP_REQUESTS"
            /\ r = [q EXCEPT !.todo = LiveIds(task[t].rows), !.ret = "ok"]
         \/ /\ task[t].op # "LIST_PENDING_DAPP_REQUESTS"
            /\ r = [q EXCEPT !.todo = ToReject(t)]
      /\ \A u \in Tasks \ {t} : task'[u] = task[u]
  BY DEF List, TypeInv, TypeOK
<1>6. /\ r.pc = p /\ r.op = q.op /\ r.yes = q.yes /\ r.origin = q.origin /\ r.phase = q.phase
      /\ p = "next" => r.todo = ToReject(t)
  <2>1. CASE task[t].op = "LIST_PENDING_DAPP_REQUESTS"
    <3>1. r = [q EXCEPT !.todo = LiveIds(task[t].rows), !.ret = "ok"] /\ p = "reply"
      BY <1>5, <2>1
    <3> QED BY <1>4, <3>1 DEF TaskRecords
  <2>2. CASE task[t].op # "LIST_PENDING_DAPP_REQUESTS"
    <3>1. r = [q EXCEPT !.todo = ToReject(t)]
      BY <1>5, <2>2
    <3> QED BY <1>4, <3>1 DEF TaskRecords
  <2> QED BY <2>1, <2>2
<1>7. r \in TaskRecords
  <2>1. LiveIds(task[t].rows) \subseteq Ids /\ ToReject(t) \subseteq Ids
    BY DEF LiveIds, ToReject
  <2> QED BY <1>4, <1>5, <2>1 DEF TaskRecords, Answers
<1>8. CopyNow(r, store, permissions)
  BY <1>1, <1>4, <1>6, <1>7, ToCopyNow
<1>9. Closing(r, store, permissions, request)
  <2>. SUFFICES ASSUME r.op = "DAPP_DISCONNECT"
                PROVE  /\ r.pc \in DisconnectPcs /\ ~r.yes
                       /\ r.pc = "next" => /\ r.origin \notin permissions
                                           /\ \A i \in r.todo : request[i].origin = r.origin
                                           /\ \A i \in LiveIds(store) :
                                                 request[i].origin = r.origin => i \in r.todo
    BY <1>3, <1>6 DEF Closing, Left
  <2>1. ~task[t].yes /\ task[t].origin \notin permissions
    BY <1>1, <1>4, <1>6 DEF OrderlyNow, Orderly, Closing
  <2> QED BY <1>2, <1>3, <1>4, <1>6, <2>1 DEF DisconnectPcs, ToReject
<1> HIDE DEF r, p
<1> QED BY <1>1, <1>3, <1>5, <1>6, <1>8, <1>9, <1>4, Plain DEF SamePart, r

LEMMA RejectNextSerial ==
  ASSUME Serial, TypeInv, SerialInv, NEW t \in Tasks, RejectNext(t) PROVE SerialInv' /\ Refines
<1>1. /\ task[t] \in TaskRecords /\ task[t].pc = "next" /\ Inside(task[t])
      /\ OrderlyNow(task[t]) /\ UNCHANGED <<store, permissions, nextId, request>>
  BY DEF RejectNext, At, TypeInv, TypeOK, SerialInv, Inside, WaitPcs, persistent, catalog
<1>2. PICK i \in task[t].todo :
        task' = [task EXCEPT ![t] = [To(@, "resolve") EXCEPT !.id = i, !.todo = task[t].todo \ {i}]]
  BY DEF RejectNext
<1>. DEFINE q == To(task[t], "resolve")
            r == [q EXCEPT !.id = i, !.todo = task[t].todo \ {i}]
<1>3. /\ q \in TaskRecords /\ q.pc = "resolve" /\ q.op = task[t].op /\ q.yes = task[t].yes
      /\ q.origin = task[t].origin
  BY <1>1, PcNames, ToType DEF RowsPcs
<1>4. /\ r \in TaskRecords /\ r.pc = "resolve" /\ r.op = q.op /\ r.yes = q.yes /\ r.id = i
      /\ r.origin = q.origin /\ r.phase = q.phase /\ r.todo = task[t].todo \ {i}
  BY <1>1, <1>3 DEF TaskRecords
<1>5. task'[t] = r /\ \A u \in Tasks \ {t} : SamePart(task[u], task'[u])
  BY <1>2 DEF TypeInv, TypeOK, SamePart
<1> HIDE DEF r
<1>6. CopyNow(r, store, permissions)
  BY <1>1, <1>3, <1>4, ToCopyNow
<1>7. Left(r) = Left(task[t])
  BY <1>1, <1>4 DEF Left
<1>8. Closing(r, store, permissions, request)
  BY <1>1, <1>3, <1>4, <1>7 DEF OrderlyNow, Orderly, Closing, DisconnectPcs
<1> QED BY <1>1, <1>4, <1>5, <1>6, <1>8, Plain

LEMMA RejectDoneSerial ==
  ASSUME Serial, TypeInv, SerialInv, NEW t \in Tasks, RejectDone(t) PROVE SerialInv' /\ Refines
<1>1. /\ task[t].pc = "next" /\ Inside(task[t]) /\ UNCHANGED <<store, permissions, nextId>>
  BY DEF RejectDone, At, Inside, WaitPcs, persistent, catalog
<1>2. CASE task[t].op = "DAPP_DISCONNECT"
  <2>1. Answer(t, "ok")
    BY <1>2 DEF RejectDone
  <2> QED BY <1>1, <2>1, AnswerSerial DEF Answers
<1>3. CASE task[t].op # "DAPP_DISCONNECT"
  <2>1. Go(t, "clear") /\ "clear" \in Pcs \ {"upsert"}
    BY <1>3, PcNames DEF RejectDone
  <2> QED BY <1>1, <1>3, <2>1, GoSerial
<1> QED BY <1>2, <1>3

LEMMA GetBeforeSerial ==
  ASSUME Serial, TypeInv, SerialInv, NEW t \in Tasks, GetBefore(t) PROVE SerialInv' /\ Refines
<1>. DEFINE q == To(task[t], "resolve")
            r == [q EXCEPT !.origin = OriginIn(t)]
<1>1. /\ task[t] \in TaskRecords /\ task[t].pc = "get" /\ Inside(task[t])
      /\ UNCHANGED <<store, permissions, nextId>> /\ FitsIn(task[t])
  BY DEF GetBefore, At, TypeInv, TypeOK, Inside, WaitPcs, persistent, catalog, Located
<1>2. q \in TaskRecords /\ q.pc = "resolve" /\ q.op = task[t].op
  BY <1>1, PcNames, ToType DEF RowsPcs
<1>3. OriginIn(t) \in Origins \cup {NoOrigin}
  BY <1>1 DEF OriginIn, TypeInv, TypeOK, TaskRecords, FitsIn, Fits, IdPcs
<1>4. r \in TaskRecords /\ r.pc = "resolve" /\ r.op = q.op /\ r.phase = q.phase
  BY <1>2, <1>3 DEF TaskRecords
<1>5. task'[t] = r /\ \A u \in Tasks \ {t} : SamePart(task[u], task'[u])
  BY DEF GetBefore, TypeInv, TypeOK, SamePart
<1> HIDE DEF r
<1>6. CopyNow(r, store, permissions) /\ Closing(r, store, permissions, request')
  BY <1>1, <1>2, <1>4, ToCopyNow, NoDisconnect, NoClosing DEF DisconnectPcs
<1> QED BY <1>1, <1>4, <1>5, <1>6, Plain

LEMMA SignSubmittedSerial ==
  ASSUME Serial, TypeInv, SerialInv, NEW t \in Tasks, SignSubmitted(t)
  PROVE  SerialInv' /\ Refines
<1>. DEFINE q == To(task[t], "resolve")
            r == [q EXCEPT !.yes = TRUE]
<1>1. /\ task[t] \in TaskRecords /\ task[t].pc = "sign" /\ Room(t)
      /\ UNCHANGED <<store, permissions, nextId>>
  BY DEF SignSubmitted, At, TypeInv, TypeOK, persistent, catalog
<1>2. q \in TaskRecords /\ q.pc = "resolve" /\ q.op = task[t].op
  BY <1>1, PcNames, ToType DEF RowsPcs
<1>3. r \in TaskRecords /\ r.pc = "resolve" /\ r.op = q.op /\ r.phase = q.phase
  BY <1>2 DEF TaskRecords
<1>4. task'[t] = r /\ \A u \in Tasks \ {t} : SamePart(task[u], task'[u])
  BY DEF SignSubmitted, TypeInv, TypeOK, SamePart
<1> HIDE DEF r
<1>5. CopyNow(r, store, permissions) /\ Closing(r, store, permissions, request')
  BY <1>1, <1>2, <1>3, ToCopyNow, NoDisconnect, NoClosing DEF DisconnectPcs
<1> QED BY <1>1, <1>3, <1>4, <1>5, Plain

LEMMA WakeSerial ==
  ASSUME Serial, TypeInv, SerialInv, NEW t \in Tasks, Wake(t) PROVE SerialInv' /\ Refines
<1>. DEFINE p == IF task[t].op \in UiOps THEN "reply" ELSE "next"
            q == To(task[t], p)
            r == [q EXCEPT !.ret = IF task[t].op \in UiOps THEN "ok" ELSE "none"]
<1>1. /\ task[t] \in TaskRecords /\ task[t].pc = "wake" /\ Inside(task[t])
      /\ OrderlyNow(task[t]) /\ UNCHANGED <<store, permissions, nextId, request>>
      /\ p \in Pcs /\ p \in {"reply", "next"}
  BY PcNames DEF Wake, At, TypeInv, TypeOK, SerialInv, Inside, WaitPcs, persistent, catalog
<1>2. /\ q \in TaskRecords /\ q.pc = p /\ q.op = task[t].op /\ q.yes = task[t].yes
      /\ q.origin = task[t].origin /\ q.todo = task[t].todo
  BY <1>1, ToType
<1>3. /\ r \in TaskRecords /\ r.pc = p /\ r.op = q.op /\ r.yes = q.yes /\ r.origin = q.origin
      /\ r.phase = q.phase /\ r.todo = q.todo
  BY <1>2 DEF TaskRecords, Answers
<1>4. task'[t] = r
  BY DEF Wake
<1>5. ASSUME NEW u \in Tasks \ {t} PROVE SamePart(task[u], task'[u])
  <2>1. \E a \in Answers : task'[u] = [task[u] EXCEPT !.ret = a] \/ task'[u] = task[u]
    BY <1>1 DEF Wake, TaskRecords
  <2>2. task[u] \in TaskRecords
    BY DEF TypeInv, TypeOK
  <2> QED BY <2>1, <2>2 DEF SamePart, TaskRecords
<1> HIDE DEF r, p
<1>6. CopyNow(r, store, permissions)
  BY <1>1, <1>2, <1>3, ToCopyNow
<1>7. Closing(r, store, permissions, request)
  <2>1. r.pc = "next" \/ r.pc = "reply"
    BY <1>1, <1>3
  <2> QED BY <1>1, <1>2, <1>3, <2>1 DEF OrderlyNow, Orderly, Closing, Left, DisconnectPcs
<1>8. task'[t].pc # "upsert" /\ task[t].pc # "upsert"
  BY <1>1, <1>3, <1>4
<1> QED BY <1>1, <1>4, <1>5, <1>6, <1>7, <1>8, Plain

-----------------------------------------------------------------------------
(* Steps that write rows. *)

\* One row's status is written on top of what is stored.
LEMMA PutShown ==
  ASSUME store \in Stores, NEW i \in Ids, NEW s \in Statuses, store' = Put(store, i, s),
         nextId' = nextId,
         \A u \in Tasks, j \in Ids \ {i} :
            task'[u].pc = "upsert" /\ task'[u].id = j <=> task[u].pc = "upsert" /\ task[u].id = j
  PROVE  Shown' = [Shown EXCEPT ![i] = s]
<1>1. \A j \in Ids : store'[j] = IF j = i THEN [status |-> s, age |-> 0] ELSE store[j]
  BY DEF Put, Stores
<1>2. StatusOf(i)' = s
  BY <1>1 DEF StatusOf, Statuses, LiveStatuses, TerminalStatuses
<1>3. ASSUME NEW j \in Ids \ {i} PROVE StatusOf(j)' = StatusOf(j)
  BY <1>1 DEF StatusOf
<1>4. Shown' = [j \in Ids |-> IF j = i THEN s ELSE StatusOf(j)]
  BY <1>2, <1>3 DEF Shown
<1> QED BY <1>4 DEF Shown

LEMMA PutLive ==
  ASSUME store \in Stores, NEW i \in Ids, NEW s \in Statuses, NEW j \in Ids
  PROVE  j \in LiveIds(Put(store, i, s)) <=> IF j = i THEN s \in LiveStatuses ELSE j \in LiveIds(store)
  BY DEF Put, LiveIds, Live, Stores

LEMMA UpsertSerial ==
  ASSUME Serial, TypeInv, SerialInv, NEW t \in Tasks, Upsert(t) PROVE SerialInv' /\ Refines
<1>. DEFINE i == task[t].id
            r == To(task[t], "popup")
<1>1. /\ task[t] \in TaskRecords /\ task[t].pc = "upsert" /\ task[t].phase = "ready"
      /\ Inside(task[t]) /\ OrderlyNow(task[t]) /\ FitsIn(task[t]) /\ store \in Stores
      /\ store' = Put(task[t].rows, i, "awaiting_user")
      /\ UNCHANGED <<permissions, nextId, request>>
  BY DEF Upsert, At, TypeInv, TypeOK, SerialInv, Inside, WaitPcs, catalog, Located
<1>2. /\ task[t].rows = store /\ i \in Ids /\ i < nextId /\ store[i].status = "none"
      /\ task[t].op # "DAPP_DISCONNECT"
  BY <1>1
  DEF OrderlyNow, Orderly, CopyNow, NotStored, RowsPcs, FitsIn, Fits, IdPcs, Closing, DisconnectPcs
<1>3. r \in TaskRecords /\ r.pc = "popup" /\ r.op = task[t].op
  BY <1>1, PcNames, ToType
<1>4. task'[t] = r /\ \A u \in Tasks \ {t} : task'[u] = task[u]
  BY DEF Upsert, Go, TypeInv, TypeOK
<1> HIDE DEF r
<1>5. CopyNow(r, store', permissions')
  BY <1>1, <1>3, ToCopyNow DEF r
<1>6. SerialInv'
  BY <1>1, <1>2, <1>3, <1>4, <1>5, OneMoves
  DEF OrderlyNow, Orderly, NotStored, Closing, SamePart
<1>7. Shown' = [Shown EXCEPT ![i] = "awaiting_user"]
  <2>1. \A u \in Tasks, j \in Ids \ {i} :
            task'[u].pc = "upsert" /\ task'[u].id = j <=> task[u].pc = "upsert" /\ task[u].id = j
    BY <1>3, <1>4
  <2> HIDE DEF i
  <2>2. "awaiting_user" \in Statuses
    BY DEF Statuses, LiveStatuses
  <2> QED BY <1>1, <1>2, <2>1, <2>2, PutShown
<1>8. StatusOf(i) = "new"
  BY <1>1, <1>2 DEF StatusOf
<1>9. Lifecycle!Ask(i)
  BY <1>2, <1>7, <1>8 DEF Lifecycle!Ask, Lifecycle!Becomes, Shown
<1> QED BY <1>2, <1>6, <1>9 DEF Refines, Lifecycle!LNext

LEMMA MarkSigningSerial ==
  ASSUME Serial, TypeInv, SerialInv, NEW t \in Tasks, MarkSigning(t) PROVE SerialInv' /\ Refines
<1>. DEFINE i == task[t].id
            r == To(task[t], "sign")
<1>1. /\ task[t] \in TaskRecords /\ task[t].pc = "mark" /\ task[t].phase = "ready"
      /\ Inside(task[t]) /\ OrderlyNow(task[t]) /\ FitsIn(task[t]) /\ store \in Stores
      /\ store' = IF Live(task[t].rows[i]) THEN Put(task[t].rows, i, "signing") ELSE store
      /\ UNCHANGED <<permissions, nextId, request>>
  BY DEF MarkSigning, At, TypeInv, TypeOK, SerialInv, Inside, WaitPcs, catalog, Located
<1>2. task[t].rows = store /\ i \in Ids /\ task[t].op # "DAPP_DISCONNECT"
  BY <1>1
  DEF OrderlyNow, Orderly, CopyNow, RowsPcs, FitsIn, Fits, IdPcs, Closing, DisconnectPcs
<1>3. r \in TaskRecords /\ r.pc = "sign" /\ r.op = task[t].op
  BY <1>1, PcNames, ToType
<1>4. task'[t] = r /\ \A u \in Tasks \ {t} : task'[u] = task[u]
  BY DEF MarkSigning, Go, TypeInv, TypeOK
<1> HIDE DEF r, i
<1>5. CopyNow(r, store', permissions')
  BY <1>1, <1>3, ToCopyNow DEF r
<1>6. SerialInv'
  BY <1>1, <1>2, <1>3, <1>4, <1>5, OneMoves
  DEF OrderlyNow, Orderly, NotStored, Closing, SamePart
<1>7. \A u \in Tasks, j \in Ids :
         task'[u].pc = "upsert" /\ task'[u].id = j <=> task[u].pc = "upsert" /\ task[u].id = j
  BY <1>1, <1>3, <1>4
<1>8. CASE Live(store[i])
  <2>1. "signing" \in Statuses
    BY DEF Statuses, LiveStatuses
  <2>2. Shown' = [Shown EXCEPT ![i] = "signing"]
    BY <1>1, <1>2, <1>7, <1>8, <2>1, PutShown
  <2>3. StatusOf(i) = store[i].status /\ StatusOf(i) \in {"awaiting_user", "signing"}
    BY <1>8 DEF StatusOf, Live, LiveStatuses
  <2>4. Shown = [j \in Ids |-> StatusOf(j)] /\ Shown[i] = StatusOf(i)
    BY <1>2 DEF Shown
  <2>5. CASE StatusOf(i) = "signing"
    <3>1. Shown' = Shown
      BY <2>2, <2>4, <2>5
    <3> QED BY <1>6, <3>1 DEF Refines
  <2>6. CASE StatusOf(i) = "awaiting_user"
    <3>1. Lifecycle!StartSigning(i)
      BY <1>2, <2>2, <2>4, <2>6 DEF Lifecycle!StartSigning, Lifecycle!Becomes, Shown
    <3> QED BY <1>2, <1>6, <3>1 DEF Refines, Lifecycle!LNext
  <2> QED BY <2>3, <2>5, <2>6
<1>9. CASE ~Live(store[i])
  <2>1. store' = store
    BY <1>1, <1>2, <1>9
  <2> QED BY <1>1, <1>3, <1>4, <1>6, <2>1, ShownKept
<1> QED BY <1>8, <1>9

LEMMA ResolveRowSerial ==
  ASSUME Serial, TypeInv, SerialInv, NEW t \in Tasks, ResolveRow(t)
  PROVE  /\ SerialInv' /\ Refines
         /\ \A j \in Ids \ {task[t].id} : store'[j] = store[j]
<1>. DEFINE i == task[t].id
            s == IF task[t].yes THEN "approved" ELSE "rejected"
            o == IF task[t].op \in UiOps THEN OriginIn(t) ELSE task[t].origin
            q == To(task[t], "wake")
            r == [q EXCEPT !.ret = Verdict(task[t].rows[i], task[t].yes), !.origin = o]
<1>1. /\ task[t] \in TaskRecords /\ task[t].pc = "resolve" /\ task[t].phase = "ready"
      /\ Inside(task[t]) /\ OrderlyNow(task[t]) /\ FitsIn(task[t]) /\ store \in Stores
      /\ store' = IF Decidable(task[t].rows[i]) THEN Put(task[t].rows, i, s) ELSE store
      /\ UNCHANGED <<permissions, nextId, request>>
  BY DEF ResolveRow, At, TypeInv, TypeOK, SerialInv, Inside, WaitPcs, catalog, Located
<1>2. task[t].rows = store /\ i \in Ids /\ s \in Statuses /\ s \notin LiveStatuses
  BY <1>1
  DEF OrderlyNow, Orderly, CopyNow, RowsPcs, FitsIn, Fits, IdPcs, Statuses, LiveStatuses,
      TerminalStatuses
<1>3. /\ q \in TaskRecords /\ q.pc = "wake" /\ q.op = task[t].op /\ q.yes = task[t].yes
      /\ q.origin = task[t].origin /\ q.todo = task[t].todo /\ q.id = i
  BY <1>1, PcNames, ToType
<1>4. o \in Origins \cup {NoOrigin} /\ (task[t].op = "DAPP_DISCONNECT" => o = task[t].origin)
  BY <1>1, <1>2 DEF OriginIn, TypeInv, TypeOK, TaskRecords, UiOps
<1>5. Verdict(task[t].rows[i], task[t].yes) \in Answers
  BY DEF Verdict, Answers
<1>6. /\ r \in TaskRecords /\ r.pc = "wake" /\ r.op = q.op /\ r.yes = q.yes
      /\ r.origin = o /\ r.todo = q.todo /\ r.phase = q.phase
  BY <1>3, <1>4, <1>5 DEF TaskRecords
<1>7. task'[t] = r /\ \A u \in Tasks \ {t} : task'[u] = task[u]
  BY DEF ResolveRow, TypeInv, TypeOK
<1> HIDE DEF r, i, s, o
<1>8. CopyNow(r, store', permissions')
  BY <1>1, <1>3, <1>6, ToCopyNow
<1>9. Decidable(store[i]) <=> Live(store[i])
  BY <1>1, <1>2 DEF Decidable, Terminal, Live, Stores, Rows, Statuses, LiveStatuses,
                    TerminalStatuses
<1>10. ASSUME NEW j \in LiveIds(store') PROVE j \in LiveIds(store) /\ j # i
  <2>1. j \in Ids
    BY DEF LiveIds
  <2>2. CASE Live(store[i])
    BY <1>1, <1>2, <1>9, <2>1, <2>2, PutLive
  <2>3. CASE ~Live(store[i])
    BY <1>1, <1>2, <1>9, <2>1, <2>3 DEF LiveIds
  <2> QED BY <2>2, <2>3
<1>11. Closing(r, store', permissions', request')
  <2>. SUFFICES ASSUME task[t].op = "DAPP_DISCONNECT" PROVE Closing(r, store', permissions', request')
    BY <1>3, <1>6 DEF Closing
  <2>1. /\ ~task[t].yes /\ task[t].origin \notin permissions
        /\ \A j \in task[t].todo \cup {i} : request[j].origin = task[t].origin
        /\ \A j \in LiveIds(store) :
              request[j].origin = task[t].origin => j \in task[t].todo \cup {i}
    BY <1>1 DEF OrderlyNow, Orderly, Closing, Left, i
  <2> QED BY <1>1, <1>3, <1>4, <1>6, <1>10, <2>1 DEF Closing, Left, DisconnectPcs
<1>12. SerialInv'
  BY <1>1, <1>6, <1>7, <1>8, <1>11, OneMoves DEF OrderlyNow, Orderly, NotStored, SamePart
<1>13. \A u \in Tasks, j \in Ids :
         task'[u].pc = "upsert" /\ task'[u].id = j <=> task[u].pc = "upsert" /\ task[u].id = j
  BY <1>1, <1>6, <1>7
<1>14. \A j \in Ids \ {i} : store'[j] = store[j]
  BY <1>1, <1>2 DEF Put, Stores
<1>15. CASE Live(store[i])
  <2>1. Shown' = [Shown EXCEPT ![i] = s]
    BY <1>1, <1>2, <1>9, <1>13, <1>15, PutShown
  <2>2. StatusOf(i) \in {"awaiting_user", "signing"} /\ s \in {"approved", "rejected"}
    BY <1>15 DEF StatusOf, Live, LiveStatuses, s
  <2>3. Lifecycle!Decide(i)
    BY <1>2, <2>1, <2>2
    DEF Lifecycle!Decide, Lifecycle!Becomes, Lifecycle!Unanswered, Shown
  <2>4. Refines
    BY <1>2, <2>3 DEF Refines, Lifecycle!LNext
  <2> QED BY <1>12, <1>14, <2>4 DEF i
<1>16. CASE ~Live(store[i])
  <2>1. store' = store
    BY <1>1, <1>2, <1>9, <1>16
  <2>2. Refines
    BY <1>1, <1>6, <1>7, <2>1, ShownKept
  <2> QED BY <1>12, <1>14, <2>2 DEF i
<1> QED BY <1>15, <1>16

\* A request is created: its row is yet to be stored.
LEMMA NewRequestSerial ==
  ASSUME Serial, TypeInv, Consent, SerialInv, NEW t \in Tasks, NEW kind \in Kinds,
         NewRequest(t, kind), Inside(task[t]) \/ Room(t), task[t].pc \in {"find", "prepare"},
         UNCHANGED <<store, permissions>>
  PROVE  SerialInv' /\ Refines
<1>. DEFINE q == To(task[t], "upsert")
            r == [q EXCEPT !.id = nextId]
<1>1. /\ task[t] \in TaskRecords /\ store \in Stores
      /\ nextId \in Ids /\ nextId' = nextId + 1 /\ task' = [task EXCEPT ![t] = r]
      /\ task \in [Tasks -> TaskRecords]
  BY MaxIdAssumption DEF NewRequest, GoWith, TypeInv, TypeOK, Ids
<1>2. q \in TaskRecords /\ q.pc = "upsert" /\ q.op = task[t].op
  BY <1>1, PcNames, ToType DEF RowsPcs
<1>3. r \in TaskRecords /\ r.pc = "upsert" /\ r.op = q.op /\ r.phase = q.phase /\ r.id = nextId
  BY <1>1, <1>2 DEF TaskRecords
<1>4. task'[t] = r /\ \A u \in Tasks \ {t} : task'[u] = task[u]
  BY <1>1
<1> HIDE DEF r
<1>5. CopyNow(r, store, permissions) /\ Closing(r, store, permissions, request')
  BY <1>1, <1>2, <1>3, ToCopyNow, NoDisconnect, NoClosing DEF DisconnectPcs
<1>6. store[nextId].status = "none" /\ nextId < nextId'
  BY <1>1 DEF Consent, RowsConsent, RowsEarned, Ids
<1>7. SerialInv'
  BY <1>3, <1>4, <1>5, <1>6, OneMoves DEF OrderlyNow, Orderly, NotStored, SamePart
<1>8. ASSUME NEW j \in Ids PROVE StatusOf(j)' = StatusOf(j)
  <2>1. CASE j = nextId
    <3>1. StatusOf(j) = "new"
      BY <1>1, <1>6, <2>1 DEF StatusOf, Ids
    <3>2. StatusOf(j)' = "new"
      BY <1>3, <1>4, <1>6, <2>1 DEF StatusOf
    <3> QED BY <3>1, <3>2
  <2>2. CASE j # nextId
    <3>1. j >= nextId <=> j >= nextId'
      BY <1>1, <2>2 DEF Ids
    <3>2. \A u \in Tasks : task'[u].pc = "upsert" /\ task'[u].id = j
                              <=> task[u].pc = "upsert" /\ task[u].id = j
      BY <1>3, <1>4, <2>2
    <3> QED BY <3>1, <3>2 DEF StatusOf
  <2> QED BY <2>1, <2>2
<1>9. Shown' = Shown
  BY <1>8 DEF Shown
<1> QED BY <1>7, <1>9 DEF Refines

LEMMA PreparedSerial ==
  ASSUME Serial, TypeInv, Consent, SerialInv, NEW t \in Tasks, Prepared(t)
  PROVE  SerialInv' /\ Refines
<1>1. /\ task[t].pc = "prepare" /\ Room(t) /\ NewRequest(t, "externalSignReview")
      /\ UNCHANGED <<store, permissions>>
  BY DEF Prepared, At, persistent
<1> QED BY <1>1, NewRequestSerial DEF Kinds

\* enqueueDappApproval joins a prompt, or creates a request.
LEMMA EnqueueSerial ==
  ASSUME Serial, TypeInv, Consent, SerialInv, NEW t \in Tasks, Enqueue(t)
  PROVE  SerialInv' /\ Refines
<1>1. /\ task[t].pc = "find" /\ Inside(task[t]) /\ UNCHANGED <<store, permissions>>
      /\ task \in [Tasks -> TaskRecords] /\ task[t] \in TaskRecords
  BY DEF Enqueue, At, Inside, WaitPcs, persistent, TypeInv, TypeOK
<1>. DEFINE q == To(task[t], "popup")
<1>2. q \in TaskRecords /\ q.pc = "popup" /\ q.op = task[t].op /\ q.op # "DAPP_DISCONNECT"
  BY <1>1, PcNames, ToType, NoDisconnect DEF DisconnectPcs
<1>3. ASSUME NEW i \in Ids \cup {0}, task'[t] = [q EXCEPT !.id = i],
             \A u \in Tasks \ {t} : SamePart(task[u], task'[u]), UNCHANGED catalog
      PROVE  SerialInv' /\ Refines
  <2>. DEFINE r == [q EXCEPT !.id = i]
  <2>1. r \in TaskRecords /\ r.pc = "popup" /\ r.op = q.op /\ r.phase = q.phase
    BY <1>2 DEF TaskRecords
  <2> HIDE DEF r
  <2>2. CopyNow(r, store, permissions) /\ Closing(r, store, permissions, request')
    BY <1>1, <1>2, <2>1, ToCopyNow, NoClosing
  <2>3. task'[t] = r
    BY <1>3 DEF r
  <2> QED BY <1>1, <1>3, <2>1, <2>2, <2>3, Plain DEF catalog
<1>4. ASSUME NEW i \in Ids \cup {0}, GoWith(t, "popup", i), UNCHANGED catalog
      PROVE  SerialInv' /\ Refines
  <2>1. task'[t] = [q EXCEPT !.id = i] /\ \A u \in Tasks \ {t} : SamePart(task[u], task'[u])
    BY <1>1, <1>4 DEF GoWith, SamePart
  <2> QED BY <1>3, <1>4, <2>1
<1>5. ASSUME NEW i \in Ids, UNCHANGED catalog,
             task' = [u \in Tasks |->
                        IF u = t THEN [To(task[t], "popup") EXCEPT !.id = i]
                        ELSE IF Holds(u, i) THEN [task[u] EXCEPT !.ret = "orphaned"]
                        ELSE task[u]]
      PROVE  SerialInv' /\ Refines
  <2>1. task'[t] = [q EXCEPT !.id = i]
    BY <1>5
  <2>2. ASSUME NEW u \in Tasks \ {t} PROVE SamePart(task[u], task'[u])
    <3>1. task[u] \in TaskRecords
      BY <1>1
    <3>2. task'[u] = [task[u] EXCEPT !.ret = "orphaned"] \/ task'[u] = task[u]
      BY <1>5
    <3> QED BY <3>1, <3>2 DEF SamePart, TaskRecords
  <2> QED BY <1>3, <1>5, <2>1, <2>2
<1>6. CASE NewRequest(t, "getPublicKey")
  BY <1>1, <1>6, NewRequestSerial DEF Kinds
<1>7. inflight[task[t].origin] \in Ids \cup {0}
  BY <1>1 DEF TypeInv, TypeOK, Located, FitsIn, Fits, OriginPcs
<1>8. \/ NewRequest(t, "getPublicKey")
      \/ GoWith(t, "popup", inflight[task[t].origin]) /\ UNCHANGED catalog
      \/ \E i \in Ids :
            /\ UNCHANGED catalog
            /\ \/ GoWith(t, "popup", i)
               \/ task' = [u \in Tasks |->
                        IF u = t THEN [To(task[t], "popup") EXCEPT !.id = i]
                        ELSE IF Holds(u, i) THEN [task[u] EXCEPT !.ret = "orphaned"]
                        ELSE task[u]]
  BY DEF Enqueue, LiveIds
<1> QED BY <1>4, <1>5, <1>6, <1>7, <1>8

\* Rows that are lost, with those about to be created.
LEMMA LoseRefines ==
  ASSUME \A i \in Ids : StatusOf(i)' \in {StatusOf(i), "gone"}
  PROVE  Refines
<1>. DEFINE S == {i \in Ids : Shown'[i] # Shown[i]}
<1>1. ASSUME NEW i \in Ids PROVE Shown[i] = StatusOf(i) /\ Shown'[i] = StatusOf(i)'
  BY DEF Shown
<1>2. \A i \in S : Shown'[i] = "gone"
  BY <1>1
<1>3. Shown' = [i \in Ids |-> Shown'[i]]
  BY DEF Shown
<1>4. Shown' = [i \in Ids |-> IF i \in S THEN "gone" ELSE Shown[i]]
  BY <1>2, <1>3
<1>5. Lifecycle!Lose(S)
  BY <1>4 DEF Lifecycle!Lose, Shown
<1>6. S \in SUBSET Ids
  OBVIOUS
<1> QED BY <1>5, <1>6 DEF Refines, Lifecycle!LNext

LEMMA GoneOrNew ==
  ASSUME TypeInv, Consent, NEW i \in Ids, nextId' = nextId,
         store' = store \/ store' = EmptyStore,
         \A u \in Tasks : task'[u].pc # "upsert"
  PROVE  StatusOf(i)' \in {StatusOf(i), "gone"}
<1>1. CASE store[i].status # "none" /\ store'[i].status # "none"
  <2>1. store' = store
    BY <1>1 DEF EmptyStore, Absent
  <2> QED BY <1>1, <2>1 DEF StatusOf
<1>2. CASE store[i].status # "none" /\ store'[i].status = "none"
  <2>1. i < nextId
    BY <1>2 DEF Consent, RowsConsent, RowsEarned
  <2>2. ~(i >= nextId)
    BY <2>1 DEF TypeInv, TypeOK, Ids
  <2> QED BY <1>2, <2>2 DEF StatusOf
<1>3. CASE store[i].status = "none"
  <2>1. store'[i].status = "none"
    BY <1>3 DEF EmptyStore, Absent
  <2> QED BY <1>3, <2>1 DEF StatusOf
<1> QED BY <1>1, <1>2, <1>3

LEMMA ClearAllSerial ==
  ASSUME Serial, TypeInv, Consent, SerialInv, NEW t \in Tasks, ClearAll(t)
  PROVE  SerialInv' /\ Refines
<1>. DEFINE q == To(task[t], "wipe")
<1>1. /\ task \in [Tasks -> TaskRecords] /\ task[t].pc = "clear" /\ Inside(task[t])
      /\ store' = EmptyStore /\ UNCHANGED <<permissions, nextId, request>>
      /\ task' = [task EXCEPT ![t] = q] \/ task' = [task EXCEPT ![t] = Idle]
  BY DEF ClearAll, Go, At, TypeInv, TypeOK, Inside, WaitPcs, catalog
<1>2. q \in TaskRecords /\ q.pc = "wipe" /\ q.op = task[t].op /\ q.op # "DAPP_DISCONNECT"
  BY <1>1, PcNames, ToType, NoDisconnect DEF DisconnectPcs
<1>3. CopyNow(q, store', permissions')
  BY <1>1, <1>2, ToCopyNow
<1>4. Orderly(q, store', permissions', nextId', request')
  BY <1>2, <1>3 DEF Orderly, NotStored, Closing
<1>5. \A u \in Tasks \ {t} : task'[u] = task[u] /\ task'[u].pc # "upsert"
  BY <1>1, Others DEF Inside, WaitPcs
<1>6. task'[t] = q \/ task'[t] = Idle
  BY <1>1
<1> HIDE DEF q
<1>7. OrderlyNow(task[t])' /\ task'[t].pc # "upsert"
  <2>1. CASE task'[t] = q
    <3>1. Orderly(task'[t], store', permissions', nextId', request')
      BY <1>4, <2>1
    <3>2. task'[t].pc # "upsert"
      BY <1>2, <2>1
    <3> QED BY <3>1, <3>2 DEF OrderlyNow
  <2>2. CASE task'[t] = Idle
    <3>1. Orderly(task'[t], store', permissions', nextId', request')
      BY <2>2, IdleOrderly
    <3>2. task'[t].pc # "upsert"
      BY <2>2 DEF Idle
    <3> QED BY <3>1, <3>2 DEF OrderlyNow
  <2> QED BY <1>6, <2>1, <2>2
<1>8. SerialInv'
  BY <1>1, <1>5, <1>7, OneMoves DEF SamePart
<1>9. Refines
  BY <1>1, <1>5, <1>7, GoneOrNew, LoseRefines
<1> QED BY <1>8, <1>9

LEMMA RestartSerial ==
  ASSUME Serial, TypeInv, Consent, SerialInv, SwRestart \/ BrowserRestart
  PROVE  SerialInv' /\ Refines
<1>1. /\ \A u \in Tasks : task'[u] = Idle
      /\ nextId' = nextId /\ (store' = store \/ store' = EmptyStore)
  BY DEF SwRestart, BrowserRestart, ForgetMemory, persistent, catalog
<1>2. SerialInv'
  BY <1>1, IdleOrderly DEF SerialInv, Alone, OrderlyNow
<1>3. Refines
  BY <1>1, GoneOrNew, LoseRefines DEF Idle
<1> QED BY <1>2, <1>3

\* A tick: rows and copies of them grow older together.
LEMMA OlderRow ==
  ASSUME NEW rows \in Stores, NEW i \in Ids
  PROVE  /\ Older(rows)[i].status = rows[i].status
         /\ Swept(rows[i]).status # rows[i].status => Older(rows)[i] = rows[i]
  BY TTLAssumption
  DEF Older, Stores, Rows, Ages, Swept, Live, Terminal, Fresh, Absent, LiveStatuses,
      TerminalStatuses

LEMMA TickSerial ==
  ASSUME Serial, TypeInv, SerialInv, Tick PROVE SerialInv' /\ Refines
<1>1. /\ store \in Stores /\ store' = Older(store)
      /\ UNCHANGED <<permissions, nextId, request>>
  BY DEF Tick, TypeInv, TypeOK, catalog
<1>2. \A i \in Ids : store'[i].status = store[i].status
  BY <1>1, OlderRow
<1>3. ASSUME NEW u \in Tasks
      PROVE  /\ task[u] \in TaskRecords /\ SamePart(task[u], task'[u])
             /\ task'[u].rows = Older(task[u].rows) /\ task'[u].perms = task[u].perms
             /\ task'[u].origin = task[u].origin /\ task'[u].todo = task[u].todo
  BY DEF Tick, TypeInv, TypeOK, TaskRecords, SamePart
<1>4. ASSUME NEW u \in Tasks PROVE OrderlyNow(task[u])'
  <2>. DEFINE r == task[u]
              v == task'[u]
  <2>1. r.rows \in Stores /\ OrderlyNow(r)
    BY <1>3 DEF TaskRecords, SerialInv
  <2>2. ASSUME NEW i \in Ids, SweepsTo(store[i], r.rows[i])
        PROVE  SweepsTo(store'[i], v.rows[i])
    <3>1. v.rows[i].status = r.rows[i].status
      BY <1>3, <2>1, OlderRow
    <3>2. Swept(store[i]).status # store[i].status => store'[i] = store[i]
      BY <1>1, OlderRow
    <3> QED BY <1>2, <2>2, <3>1, <3>2 DEF SweepsTo
  <2>3. CopyNow(v, store', permissions')
    <3>1. CopyNow(r, store, permissions)
      BY <2>1 DEF OrderlyNow, Orderly
    <3> QED BY <1>1, <1>3, <2>2, <3>1 DEF CopyNow, SamePart
  <2>4. NotStored(v, store', nextId')
    <3>1. NotStored(r, store, nextId) /\ FitsIn(r)
      BY <2>1 DEF OrderlyNow, Orderly, TypeInv, Located
    <3> QED BY <1>1, <1>2, <1>3, <3>1 DEF NotStored, SamePart, FitsIn, Fits, IdPcs
  <2>5. Closing(v, store', permissions', request')
    <3>1. Closing(r, store, permissions, request)
      BY <2>1 DEF OrderlyNow, Orderly
    <3>2. \A i \in LiveIds(store') : i \in LiveIds(store)
      BY <1>2 DEF LiveIds, Live
    <3> QED BY <1>1, <1>3, <3>1, <3>2, ClosingKept DEF SamePart
  <2> QED BY <2>3, <2>4, <2>5 DEF OrderlyNow, Orderly
<1>5. SerialInv'
  BY <1>3, <1>4 DEF SerialInv, Alone, Inside, SamePart
<1>6. Refines
  BY <1>1, <1>2, <1>3, ShownKept DEF SamePart
<1> QED BY <1>5, <1>6

-----------------------------------------------------------------------------
LEMMA SerialStarts == Init => SerialInv
  BY IdleOrderly DEF Init, SerialInv, Alone, OrderlyNow

LEMMA SerialStep ==
  ASSUME Serial, TypeInv, Consent, SerialInv, [Next]_vars
  PROVE  SerialInv' /\ Refines
<1>1. ASSUME NEW t \in Tasks, Dapp(t) PROVE SerialInv' /\ Refines
  BY <1>1, DappCallSerial, PollSerial DEF Dapp
<1>2. ASSUME NEW t \in Tasks, User(t) PROVE SerialInv' /\ Refines
  BY <1>2, ResolveSerial, ExecuteSerial, ListPendingSerial, LogoutSerial, WindowClosedSerial
  DEF User
<1>3. ASSUME NEW t \in Tasks, Handle(t) PROVE SerialInv' /\ Refines
  <2>1. CASE ReadRows(t) \/ Prune(t) \/ ReadLocal(t)
    BY <2>1, ReadRowsSerial, PruneSerial, ReadLocalSerial
  <2>2. CASE CheckPermission(t) \/ AssertPromptAllowed(t) \/ Enqueue(t) \/ Upsert(t)
    BY <2>2, CheckPermissionSerial, AssertPromptAllowedSerial, EnqueueSerial, UpsertSerial
  <2>3. CASE OpenPopup(t) \/ CreateWindow(t) \/ Decided(t) \/ Grant(t) \/ Unmark(t)
    BY <2>3, OpenPopupSerial, CreateWindowSerial, DecidedSerial, GrantSerial, UnmarkSerial
  <2>4. CASE CheckAllowed(t) \/ Prepared(t) \/ PrepareFailed(t) \/ PollRow(t) \/ PollPermission(t)
    BY <2>4, CheckAllowedSerial, PreparedSerial, PrepareFailedSerial, PollRowSerial,
       PollPermissionSerial
  <2>5. CASE GetBefore(t) \/ ResolveRow(t) \/ Wake(t)
    BY <2>5, GetBeforeSerial, ResolveRowSerial, WakeSerial
  <2>6. CASE MarkSigning(t) \/ SignSubmitted(t) \/ SignFailed(t)
    BY <2>6, MarkSigningSerial, SignSubmittedSerial, SignFailedSerial
  <2>7. CASE MarkDisconnected(t) \/ Forget(t) \/ CloseWindow(t)
    BY <2>7, MarkDisconnectedSerial, ForgetSerial, CloseWindowSerial
  <2>8. CASE List(t) \/ RejectNext(t) \/ RejectDone(t) \/ ClearAll(t) \/ Wipe(t)
    BY <2>8, ListSerial, RejectNextSerial, RejectDoneSerial, ClearAllSerial, WipeSerial
  <2> QED BY <1>3, <2>1, <2>2, <2>3, <2>4, <2>5, <2>6, <2>7, <2>8 DEF Handle
<1>4. ASSUME NEW t \in Tasks, Reply(t) PROVE SerialInv' /\ Refines
  BY <1>4, ReplySerial
<1>5. CASE Environment
  BY <1>5, TickSerial, CooldownOverSerial, RestartSerial DEF Environment
<1>6. CASE UNCHANGED vars
  <2>1. UNCHANGED <<store, permissions, nextId, request, task>>
    BY <1>6 DEF vars, persistent, catalog
  <2>2. SerialInv'
    BY <2>1 DEF SerialInv, Alone, OrderlyNow
  <2> QED BY <2>1, <2>2, ShownKept
<1> QED BY <1>1, <1>2, <1>3, <1>4, <1>5, <1>6 DEF Next

\* While handlers do not overlap, a handler's copy is what is stored, and a
\* disconnect is yet to reject every live request of its origin, and no other.
THEOREM SerialKept == ASSUME Serial PROVE Spec => []SerialInv
<1>1. TypeInv /\ Consent /\ SerialInv /\ [Next]_vars => SerialInv'
  BY SerialStep
<1> QED BY <1>1, SerialStarts, TypeCorrect, ConsentAlways, PTL DEF Spec

\* The rows of requestState.ts go through the life cycle of RequestLifecycle, one
\* direction, one decision and no id twice, while handlers do not overlap.
THEOREM LifecycleImplemented == ASSUME Serial PROVE Spec => LifecycleSpec
<1>1. Init => Lifecycle!LInit
  <2>. SUFFICES ASSUME Init PROVE Lifecycle!LInit
    OBVIOUS
  <2>1. \A i \in Ids : store[i].status = "none" /\ i >= nextId
    BY DEF Init, EmptyStore, Absent, Ids
  <2>2. \A i \in Ids : StatusOf(i) = "new"
    BY <2>1 DEF StatusOf
  <2> QED BY <2>2 DEF Lifecycle!LInit
<1>2. TypeInv /\ Consent /\ SerialInv /\ [Next]_vars => [Lifecycle!LNext]_Shown
  BY SerialStep DEF Refines
<1>3. Spec => Lifecycle!LInit /\ [][Lifecycle!LNext]_Shown
  BY <1>1, <1>2, SerialKept, TypeCorrect, ConsentAlways, PTL DEF Spec
<1> QED BY <1>3, PTL DEF LifecycleSpec, Lifecycle!LSpec, Shown

-----------------------------------------------------------------------------
(* What a disconnect does.                                                   *)

\* The steps a disconnect takes by itself.
LEMMA DisconnectSteps ==
  ASSUME TypeInv, SerialInv, Next, NEW t \in Tasks, Steps(t, "DAPP_DISCONNECT")
  PROVE  \/ ReadRows(t) \/ Prune(t) \/ ReadLocal(t)
         \/ MarkDisconnected(t) \/ Forget(t) \/ CloseWindow(t)
         \/ List(t) \/ RejectNext(t) \/ RejectDone(t) \/ ResolveRow(t) \/ Wake(t)
<1>1. task[t].op = "DAPP_DISCONNECT" /\ task'[t].op = "DAPP_DISCONNECT"
      /\ task[t].pc \in DisconnectPcs /\ task \in [Tasks -> TaskRecords]
      /\ <<task[t].pc, task[t].phase>> # <<task'[t].pc, task'[t].phase>>
  BY DEF Steps, SerialInv, OrderlyNow, Orderly, Closing, TypeInv, TypeOK
<1>2. task[t].pc # "idle" /\ Idle.op # "DAPP_DISCONNECT"
  BY <1>1 DEF DisconnectPcs, Idle
<1>3. ~Environment
  <2>1. ASSUME Tick PROVE FALSE
    BY <1>1, <2>1 DEF Tick, TaskRecords
  <2>2. ASSUME NEW o \in Origins, CooldownOver(o) PROVE FALSE
    BY <1>1, <2>2 DEF CooldownOver
  <2>3. ASSUME SwRestart \/ BrowserRestart PROVE FALSE
    BY <1>1, <1>2, <2>3 DEF SwRestart, BrowserRestart, ForgetMemory
  <2> QED BY <2>1, <2>2, <2>3 DEF Environment
<1>4. ASSUME NEW u \in Tasks, Dapp(u) \/ User(u) \/ Reply(u) PROVE FALSE
  <2>1. \/ \E op, p, o, i, yes : Begin(u, op, p, o, i, yes)
        \/ Reply(u)
    BY <1>4 DEF Dapp, User, DappCall, Poll, Resolve, Execute, ListPending, Logout, WindowClosed
  <2>2. task[u].pc = "idle" \/ (task[u].pc = "reply" /\ task'[u] = Idle)
    BY <1>1, <2>1 DEF Begin, Reply, At
  <2>3. u # t
    BY <1>1, <1>2, <2>2
  <2>4. task'[t] = task[t]
    BY <1>1, <2>1, <2>3 DEF Begin, Reply
  <2> QED BY <1>1, <2>4
<1>5. PICK u \in Tasks : Handle(u)
  BY <1>3, <1>4 DEF Next
<1>6. ASSUME u # t PROVE task'[t].pc = task[t].pc /\ task'[t].phase = task[t].phase
  <2>1. CASE ReadRows(u) \/ Prune(u) \/ ReadLocal(u)
    BY <1>1, <1>6, <2>1 DEF ReadRows, Prune, ReadLocal
  <2>2. CASE Enqueue(u)
    BY <1>1, <1>6, <2>2 DEF Enqueue, NewRequest, GoWith, TaskRecords
  <2>3. CASE Wake(u)
    BY <1>1, <1>6, <2>3 DEF Wake, TaskRecords
  <2>4. CASE \/ CheckPermission(u) \/ AssertPromptAllowed(u) \/ Upsert(u)
             \/ OpenPopup(u) \/ CreateWindow(u) \/ Decided(u) \/ Grant(u) \/ Unmark(u)
    BY <1>1, <1>6, <2>4
    DEF CheckPermission, AssertPromptAllowed, Upsert, OpenPopup, CreateWindow, Decided, Grant,
        Unmark, Opened, Go, Answer
  <2>5. CASE \/ CheckAllowed(u) \/ Prepared(u) \/ PrepareFailed(u) \/ PollRow(u)
             \/ PollPermission(u)
    BY <1>1, <1>6, <2>5
    DEF CheckAllowed, Prepared, PrepareFailed, PollRow, PollPermission, NewRequest, GoWith, Go,
        Answer
  <2>6. CASE \/ GetBefore(u) \/ ResolveRow(u) \/ MarkSigning(u) \/ SignSubmitted(u)
             \/ SignFailed(u)
    BY <1>1, <1>6, <2>6 DEF GetBefore, ResolveRow, MarkSigning, SignSubmitted, SignFailed, Go
  <2>7. CASE \/ MarkDisconnected(u) \/ Forget(u) \/ CloseWindow(u) \/ List(u) \/ RejectNext(u)
             \/ RejectDone(u) \/ ClearAll(u) \/ Wipe(u)
    BY <1>1, <1>6, <2>7
    DEF MarkDisconnected, Forget, CloseWindow, List, RejectNext, RejectDone, ClearAll, Wipe, Go,
        Answer
  <2> QED BY <1>5, <2>1, <2>2, <2>3, <2>4, <2>5, <2>6, <2>7 DEF Handle
<1>7. Handle(t)
  BY <1>1, <1>5, <1>6
<1> QED BY <1>1, <1>7
  DEF Handle, At, DisconnectPcs, CheckPermission, AssertPromptAllowed, Enqueue, Upsert, OpenPopup,
      CreateWindow, Decided, Grant, Unmark, CheckAllowed, Prepared, PrepareFailed, PollRow,
      PollPermission, GetBefore, MarkSigning, SignSubmitted, SignFailed, ClearAll, Wipe

\* The last step answers when nothing is left to reject.
LEMMA DisconnectDone ==
  ASSUME TypeInv, SerialInv, Next, NEW t \in Tasks, Steps(t, "DAPP_DISCONNECT"),
         task'[t].pc = "reply"
  PROVE  /\ task[t].origin \notin permissions'
         /\ \A i \in LiveIds(store') :
               request[i] # [origin |-> task[t].origin, kind |-> "getPublicKey"]
<1>1. task[t] \in TaskRecords /\ task[t].op = "DAPP_DISCONNECT" /\ OrderlyNow(task[t])
      /\ "DAPP_DISCONNECT" \notin UiOps /\ task \in [Tasks -> TaskRecords]
  BY DEF Steps, TypeInv, TypeOK, SerialInv, UiOps
<1>2. task[t].pc # "reply"
  BY <1>1, DisconnectSteps
  DEF ReadRows, Prune, ReadLocal, MarkDisconnected, Forget, CloseWindow, List, RejectNext,
      RejectDone, ResolveRow, Wake, At, RowsPcs, PermsPcs, DiscPcs, OrderlyNow, Orderly, CopyNow
<1>3. ASSUME NEW p \in Pcs \ {"reply"}, task'[t] = To(task[t], p) PROVE FALSE
  BY <1>1, <1>3, ToType
<1>4. ~(ReadRows(t) \/ Prune(t) \/ ReadLocal(t))
  BY <1>1, <1>2 DEF ReadRows, Prune, ReadLocal, TaskRecords
<1>5. ~(MarkDisconnected(t) \/ Forget(t) \/ CloseWindow(t))
  BY <1>1, <1>3, PcNames DEF MarkDisconnected, Forget, CloseWindow, Go, PermsPcs, RowsPcs
<1>7. ~List(t)
  <2>. SUFFICES ASSUME List(t) PROVE FALSE
    OBVIOUS
  <2>. DEFINE q == To(task[t], "next")
  <2>1. task'[t] = [q EXCEPT !.todo = ToReject(t)]
    BY <1>1 DEF List
  <2>2. q \in TaskRecords /\ q.pc = "next"
    BY <1>1, PcNames, ToType
  <2> QED BY <2>1, <2>2 DEF TaskRecords
<1>8. ~RejectNext(t)
  <2>. SUFFICES ASSUME RejectNext(t) PROVE FALSE
    OBVIOUS
  <2>. DEFINE q == To(task[t], "resolve")
  <2>1. PICK i \in task[t].todo : task'[t] = [q EXCEPT !.id = i, !.todo = task[t].todo \ {i}]
    BY <1>1 DEF RejectNext
  <2>2. q \in TaskRecords /\ q.pc = "resolve"
    BY <1>1, PcNames, ToType DEF RowsPcs
  <2> QED BY <2>1, <2>2 DEF TaskRecords
<1>9. ~ResolveRow(t)
  <2>. SUFFICES ASSUME ResolveRow(t) PROVE FALSE
    OBVIOUS
  <2>. DEFINE q == To(task[t], "wake")
  <2>1. \E a, o : task'[t] = [q EXCEPT !.ret = a, !.origin = o]
    BY <1>1 DEF ResolveRow
  <2>2. q \in TaskRecords /\ q.pc = "wake"
    BY <1>1, PcNames, ToType
  <2> QED BY <2>1, <2>2 DEF TaskRecords
<1>10. ~Wake(t)
  <2>. SUFFICES ASSUME Wake(t) PROVE FALSE
    OBVIOUS
  <2>. DEFINE q == To(task[t], "next")
  <2>1. task'[t] = [q EXCEPT !.ret = "none"]
    BY <1>1 DEF Wake
  <2>2. q \in TaskRecords /\ q.pc = "next"
    BY <1>1, PcNames, ToType
  <2> QED BY <2>1, <2>2 DEF TaskRecords
<1>11. RejectDone(t)
  BY <1>4, <1>5, <1>7, <1>8, <1>9, <1>10, DisconnectSteps
<1>12. /\ task[t].pc = "next" /\ task[t].todo = {} /\ UNCHANGED <<store, permissions>>
  BY <1>11 DEF RejectDone, At, persistent
<1>13. /\ task[t].origin \notin permissions
       /\ \A i \in LiveIds(store) : request[i].origin # task[t].origin
  BY <1>1, <1>12 DEF OrderlyNow, Orderly, Closing, Left
<1> QED BY <1>12, <1>13

\* Of another origin it changes no permission, and of its rows only the age.
LEMMA DisconnectElsewhere ==
  ASSUME Serial, TypeInv, SerialInv, Next, NEW t \in Tasks, Steps(t, "DAPP_DISCONNECT")
  PROVE  /\ \A o \in Origins \ {task[t].origin} : o \in permissions <=> o \in permissions'
         /\ \A i \in Ids : request[i].origin # task[t].origin =>
               store'[i].status \in {store[i].status, Swept(store[i]).status}
<1>1. task[t].op = "DAPP_DISCONNECT" /\ OrderlyNow(task[t])
  BY DEF Steps, SerialInv
<1>2. CASE Forget(t)
  BY <1>2, ForgetSerial DEF Forget
<1>3. CASE Prune(t)
  <2>1. store' = task[t].rows /\ \A i \in Ids : SweepsTo(store[i], task[t].rows[i])
    BY <1>1, <1>3 DEF Prune, OrderlyNow, Orderly, CopyNow
  <2> QED BY <1>3, <2>1 DEF Prune, SweepsTo
<1>4. CASE ResolveRow(t)
  <2>1. request[task[t].id].origin = task[t].origin
    BY <1>1, <1>4 DEF ResolveRow, At, OrderlyNow, Orderly, Closing, Left
  <2>2. \A i \in Ids \ {task[t].id} : store'[i] = store[i]
    BY <1>4, ResolveRowSerial
  <2> QED BY <1>4, <2>1, <2>2 DEF ResolveRow
<1>5. CASE \/ ReadRows(t) \/ ReadLocal(t) \/ MarkDisconnected(t) \/ CloseWindow(t)
           \/ List(t) \/ RejectNext(t) \/ RejectDone(t) \/ Wake(t)
  <2>1. UNCHANGED <<store, permissions>>
    BY <1>5 DEF ReadRows, ReadLocal, MarkDisconnected, CloseWindow, List, RejectNext, RejectDone,
                Wake, persistent
  <2> QED BY <2>1
<1> QED BY <1>2, <1>3, <1>4, <1>5, DisconnectSteps

\* While handlers do not overlap, a disconnect that answers leaves its origin
\* without permission and without a connect request the user could still approve.
THEOREM DisconnectsClose == ASSUME Serial PROVE Spec => DisconnectCloses
<1>. DEFINE Closes(t) ==
       (Steps(t, "DAPP_DISCONNECT") /\ task'[t].pc = "reply") =>
             /\ task[t].origin \notin permissions'
             /\ \A i \in LiveIds(store') :
                   request[i] # [origin |-> task[t].origin, kind |-> "getPublicKey"]
<1>1. TypeInv /\ SerialInv /\ [Next]_vars => [\A t \in Tasks : Closes(t)]_vars
  BY DisconnectDone
<1> QED BY <1>1, SerialKept, TypeCorrect, PTL DEF Spec, DisconnectCloses

\* While handlers do not overlap, no step of a disconnect changes another origin's
\* permission, or decides another origin's request.
THEOREM DisconnectsAreLocal == ASSUME Serial PROVE Spec => DisconnectIsLocal
<1>. DEFINE Local(t) ==
       Steps(t, "DAPP_DISCONNECT") =>
          /\ \A o \in Origins \ {task[t].origin} : o \in permissions <=> o \in permissions'
          /\ \A i \in Ids : request[i].origin # task[t].origin =>
                store'[i].status \in {store[i].status, Swept(store[i]).status}
<1>1. TypeInv /\ SerialInv /\ [Next]_vars => [\A t \in Tasks : Local(t)]_vars
  BY DisconnectElsewhere
<1> QED BY <1>1, SerialKept, TypeCorrect, PTL DEF Spec, DisconnectIsLocal
=============================================================================
