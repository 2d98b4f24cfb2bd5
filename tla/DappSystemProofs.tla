-------------------------- MODULE DappSystemProofs --------------------------
(***************************************************************************)
(* What the pages are told, for every number of origins, requests, windows, *)
(* calls and slots, with surfaces and service workers that go away at any   *)
(* step: DappApproval's invariants carried over to the closed system, and   *)
(* the link between a page's call, the handler that serves it and the       *)
(* request it asks about.                                                   *)
(*                                                                         *)
(* The properties speak of what a page heard.  That rests on what was true  *)
(* of the handler when it answered, and the handler's answer on the rows,   *)
(* copies and sweeps it comes from: Proper follows them, and Linked says    *)
(* whose call a handler serves.                                             *)
(***************************************************************************)
EXTENDS DappSystem, DappApprovalProofs

Rejecting == {"DAPP_DISCONNECT", "WINDOW_CLOSED"}

\* Request i may be rejected: it is no connect request, or it is in x.
Excuse(i, q, x) == (i \in Ids /\ q[i].kind = "getPublicKey") => i \in x

\* Rows, and copies of them, are rejected with an excuse only.
RowsExcused(rows, q, x) == \A i \in Ids : rows[i].status = "rejected" => Excuse(i, q, x)

\* What a handler's record says of its request, for the catalog q and the
\* requests x that have an excuse to be rejected.
Proper(r, q, x) ==
    /\ r.pc = "idle" => r.op = "idle"
    /\ r.pc = "next" => r.op \in Rejecting
    /\ r.pc = "clear" => r.op \in {"WINDOW_CLOSED", "LOGOUT"}
    /\ r.pc \in {"allow", "prepare"} => r.op = "DAPP_SIGN_TRANSACTION"
    /\ (r.op = "DAPP_GET_PUBLIC_KEY" /\ r.id # 0) =>
          q[r.id] = [origin |-> r.origin, kind |-> "getPublicKey"]
    /\ r.ret = "pending" => r.id \in Ids
    /\ r.ret = "signed" => /\ r.op = "DAPP_POLL_REQUEST_RESULT"
                           /\ q[r.id].kind = "externalSignReview"
    /\ RowsExcused(r.rows, q, x)
    /\ r.op # "LIST_PENDING_DAPP_REQUESTS" =>
          \A i \in r.todo : Excuse(i, q, x)
    /\ ((r.op \in Decisions \/ r.pc = "resolve") /\ ~r.yes) =>
          Excuse(r.id, q, x)
    /\ (r.op = "DAPP_POLL_REQUEST_RESULT" /\ r.ret = "rejected") => Excuse(r.id, q, x)

\* The origins whose pages called disconnect, and the requests that have an
\* excuse to be rejected.
Leaving == {CallOrigin[c] : c \in {d \in Calls : call[d].op = "DAPP_DISCONNECT"}}
Excused == {i \in Ids : i \in dismissed \/ request[i].origin \in Leaving}

RowsProper  == RowsExcused(store, request, Excused)
TasksProper == \A t \in Tasks : Proper(task[t], request, Excused)
SignedAreSigns == \A i \in signed : request[i].kind = "externalSignReview"
Leavers == \A t \in Tasks : task[t].op = "DAPP_DISCONNECT" => task[t].origin \in Leaving
TrulyRejected == outbox \subseteq dismissed

\* The handler with record r serves call c.
Serves(c, r) ==
    /\ r.op \in DappOps /\ r.origin = CallOrigin[c]
    /\ r.op = "DAPP_POLL_REQUEST_RESULT" => /\ call[c].st \in {"asking", "done"}
                                            /\ call[c].id = r.id
    /\ r.op # "DAPP_POLL_REQUEST_RESULT" => /\ call[c].st \in {"sent", "done"}
                                            /\ call[c].id = 0 /\ call[c].op = r.op

Linked ==
    /\ \A t \in Tasks : task[t].op \in {"idle", "WINDOW_CLOSED"} => client[t] = NoClient
    /\ \A t \in Tasks : client[t] \in Calls => Serves(client[t], task[t])
    /\ \A t, u \in Tasks : client[t] \in Calls /\ client[u] = client[t] => t = u

\* What the page of origin o knows of its call, the record r.
Known(r, o, n, q, a, s, x) ==
    /\ r.id < n
    /\ r.st = "unsent" => r.op = "none"
    /\ r.st \in {"unsent", "sent"} => r.id = 0
    /\ r.st \in {"polling", "asking"} => r.id \in Ids
    /\ r.st # "done" => r.result = "none"
    /\ r.result = "connected" => Granted(o, q, a)
    /\ r.result = "signed" => r.id \in s /\ q[r.id] = [origin |-> o, kind |-> "externalSignReview"]
    /\ (r.op = "DAPP_GET_PUBLIC_KEY" /\ r.id # 0) =>
          /\ q[r.id] = [origin |-> o, kind |-> "getPublicKey"]
          /\ r.result = "rejected" => r.id \in x

KnownNow(r, o) == Known(r, o, nextId, request, userApproved, signed, Excused)
CallsKnown     == \A c \in Calls : KnownNow(call[c], CallOrigin[c])

\* The inductive invariant.
SysInv ==
    /\ SysTypeOK /\ TypeInv /\ Consent
    /\ RowsProper /\ TasksProper /\ SignedAreSigns /\ Leavers /\ TrulyRejected
    /\ Linked /\ CallsKnown
-----------------------------------------------------------------------------
(* The catalog grows, and so do the excuses of the requests in it. *)
LEMMA LaterExcused ==
  ASSUME NEW n, NEW q, NEW p, \A i \in Ids : i < n => p[i] = q[i],
         NEW x, NEW y, \A i \in x : i < n => i \in y
  PROVE  /\ \A i : i < n /\ Excuse(i, q, x) => Excuse(i, p, y)
         /\ \A rows : (/\ \A i \in Ids : rows[i].status # "none" => i < n
                       /\ RowsExcused(rows, q, x)) => RowsExcused(rows, p, y)
  BY DEF Excuse, RowsExcused

LEMMA LaterProper ==
  ASSUME NEW n, NEW q, NEW p, \A i \in Ids : i < n => p[i] = q[i],
         NEW x, NEW y, \A i \in x : i < n => i \in y,
         NEW a, NEW s, s \subseteq Ids,
         NEW r, r \in TaskRecords, Honest(r, n, q, a, s), Proper(r, q, x)
  PROVE  Proper(r, p, y)
<1>1. r.id < n /\ (\A i \in r.todo : i < n) /\ r.id \in Ids \cup {0} /\ r.todo \subseteq Ids
  BY DEF Honest, TaskRecords
<1>2. RowsExcused(r.rows, p, y) /\ \A i : i < n /\ Excuse(i, q, x) => Excuse(i, p, y)
  BY LaterExcused DEF Honest, RowsEarned, Proper
<1>3. r.id # 0 => p[r.id] = q[r.id]
  BY <1>1
<1>4. r.ret = "signed" => r.id \in Ids
  BY DEF Honest
<1> QED BY <1>1, <1>2, <1>3, <1>4 DEF Proper

\* The requests x have an excuse for every row and every handler.
Excusing(x) == /\ RowsExcused(store, request, x)
               /\ \A u \in Tasks : Proper(task[u], request, x)

LEMMA LaterExcusing ==
  ASSUME TypeInv, Consent, NEW x, NEW y, \A i \in x : i < nextId => i \in y, Excusing(x)
  PROVE  Excusing(y)
<1>1. RowsExcused(store, request, y)
  BY LaterExcused DEF Consent, RowsConsent, RowsEarned, Excusing
<1>2. ASSUME NEW u \in Tasks PROVE Proper(task[u], request, y)
  BY LaterProper DEF TypeInv, TypeOK, Consent, TasksHonest, Excusing
<1> QED BY <1>1, <1>2 DEF Excusing

-----------------------------------------------------------------------------
(* Handlers' records. *)
LEMMA EmptyExcused == \A q, x : RowsExcused(EmptyStore, q, x)
  BY DEF RowsExcused, EmptyStore, Absent

\* One slot's record is replaced by a proper one; requests may be created.
LEMMA SlotProper ==
  ASSUME TypeInv, Consent, NEW x, Excusing(x), NEW t \in Tasks, NEW r,
         task' = [task EXCEPT ![t] = r], Proper(r, request', x),
         \A i \in Ids : i < nextId => request'[i] = request[i]
  PROVE  \A u \in Tasks : Proper(task'[u], request', x)
<1>1. ASSUME NEW u \in Tasks PROVE Proper(task[u], request', x)
  BY LaterProper DEF TypeInv, TypeOK, Consent, TasksHonest, Excusing
<1> QED BY <1>1 DEF TypeInv, TypeOK

LEMMA ToProper ==
  ASSUME NEW r \in TaskRecords, NEW p \in Pcs, NEW q, NEW x, Proper(r, q, x), p # "idle",
         p = "next" => r.op \in Rejecting,
         p = "clear" => r.op \in {"WINDOW_CLOSED", "LOGOUT"},
         p \in {"allow", "prepare"} => r.op = "DAPP_SIGN_TRANSACTION",
         (p = "resolve" /\ ~r.yes) => Excuse(r.id, q, x)
  PROVE  Proper(To(r, p), q, x)
  BY ToType, EmptyExcused DEF Proper

LEMMA GoProper ==
  ASSUME TypeInv, Consent, NEW x, Excusing(x), NEW t \in Tasks, NEW p \in Pcs, Go(t, p),
         UNCHANGED request, p # "idle",
         p = "next" => task[t].op \in Rejecting,
         p = "clear" => task[t].op \in {"WINDOW_CLOSED", "LOGOUT"},
         p \in {"allow", "prepare"} => task[t].op = "DAPP_SIGN_TRANSACTION",
         (p = "resolve" /\ ~task[t].yes) => Excuse(task[t].id, request, x)
  PROVE  \A u \in Tasks : Proper(task'[u], request', x)
<1>1. task[t] \in TaskRecords /\ Proper(task[t], request, x)
  BY DEF TypeInv, TypeOK, Excusing
<1>2. Proper(To(task[t], p), request, x)
  BY <1>1, ToProper
<1> QED BY <1>2, SlotProper DEF Go

LEMMA AnswerProper ==
  ASSUME TypeInv, Consent, NEW x, Excusing(x), NEW t \in Tasks, NEW a \in Answers, Answer(t, a),
         UNCHANGED request,
         a = "pending" => task[t].id \in Ids,
         a = "signed" => /\ task[t].op = "DAPP_POLL_REQUEST_RESULT"
                         /\ request[task[t].id].kind = "externalSignReview",
         (a = "rejected" /\ task[t].op = "DAPP_POLL_REQUEST_RESULT") =>
             Excuse(task[t].id, request, x)
  PROVE  \A u \in Tasks : Proper(task'[u], request', x)
<1> DEFINE q == To(task[t], "reply")
           r == [q EXCEPT !.ret = a]
<1>1. task[t] \in TaskRecords /\ Proper(task[t], request, x)
  BY DEF TypeInv, TypeOK, Excusing
<1>2. q \in TaskRecords /\ q.pc = "reply" /\ q.op = task[t].op /\ q.id = task[t].id
      /\ Proper(q, request, x)
  BY <1>1, PcNames, ToType, ToProper
<1>3. Proper(r, request, x)
  BY <1>2 DEF Proper, TaskRecords
<1> QED BY <1>3, SlotProper DEF Answer

-----------------------------------------------------------------------------
(* Every step of a handler keeps the excuses. *)

\* Excusing, of the next state, for the same x.
StillExcusing(x) == /\ RowsExcused(store', request', x)
                    /\ \A u \in Tasks : Proper(task'[u], request', x)

LEMMA CheckPermissionProper ==
  ASSUME TypeInv, Consent, NEW x, Excusing(x), NEW t \in Tasks, CheckPermission(t) PROVE StillExcusing(x)
<1>1. task[t] \in TaskRecords /\ FitsIn(task[t]) /\ task[t].pc \in {"perms"}
      /\ Proper(task[t], request, x)
  BY DEF CheckPermission, At, TypeInv, TypeOK, Located, Excusing
<1>2. UNCHANGED request
  BY DEF CheckPermission, catalog
<1>3. \/ (\E p \in {"allow", "assert"} : Go(t, p) /\ (p = "allow" => task[t].op = "DAPP_SIGN_TRANSACTION"))
      \/ (\E a \in {"not_connected", "connected", "ok"} : Answer(t, a))
  BY <1>1 DEF CheckPermission, FitsIn, Fits, Proper
<1>4. ASSUME NEW p \in {"allow", "assert"}, Go(t, p) /\ (p = "allow" => task[t].op = "DAPP_SIGN_TRANSACTION")
      PROVE  \A u \in Tasks : Proper(task'[u], request', x)
  BY <1>1, <1>2, <1>4, PcNames, GoProper DEF FitsIn, Fits, SweepPcs, RowsPcs, PermsPcs, DiscPcs
<1>5. ASSUME NEW a \in {"not_connected", "connected", "ok"}, Answer(t, a)
      PROVE  \A u \in Tasks : Proper(task'[u], request', x)
  BY <1>1, <1>2, <1>5, AnswerProper DEF Answers, Proper
<1>6. \A u \in Tasks : Proper(task'[u], request', x)
  BY <1>3, <1>4, <1>5
<1> QED BY <1>2, <1>6 DEF StillExcusing, Excusing, CheckPermission, persistent

LEMMA AssertPromptAllowedProper ==
  ASSUME TypeInv, Consent, NEW x, Excusing(x), NEW t \in Tasks, AssertPromptAllowed(t) PROVE StillExcusing(x)
<1>1. task[t] \in TaskRecords /\ FitsIn(task[t]) /\ task[t].pc \in {"assert", "assertAgain"}
      /\ Proper(task[t], request, x)
  BY DEF AssertPromptAllowed, At, TypeInv, TypeOK, Located, Excusing
<1>2. UNCHANGED request
  BY DEF AssertPromptAllowed, catalog
<1>3. \/ (\E p \in {"assertAgain", "find"} : Go(t, p))
      \/ (\E a \in {"not_connected"} : Answer(t, a))
  BY <1>1 DEF AssertPromptAllowed
<1>4. ASSUME NEW p \in {"assertAgain", "find"}, Go(t, p)
      PROVE  \A u \in Tasks : Proper(task'[u], request', x)
  BY <1>1, <1>2, <1>4, PcNames, GoProper DEF FitsIn, Fits, SweepPcs, RowsPcs, PermsPcs, DiscPcs
<1>5. ASSUME NEW a \in {"not_connected"}, Answer(t, a)
      PROVE  \A u \in Tasks : Proper(task'[u], request', x)
  BY <1>1, <1>2, <1>5, AnswerProper DEF Answers, Proper
<1>6. \A u \in Tasks : Proper(task'[u], request', x)
  BY <1>3, <1>4, <1>5
<1> QED BY <1>2, <1>6 DEF StillExcusing, Excusing, AssertPromptAllowed, persistent

LEMMA OpenPopupProper ==
  ASSUME TypeInv, Consent, NEW x, Excusing(x), NEW t \in Tasks, OpenPopup(t) PROVE StillExcusing(x)
<1>1. task[t] \in TaskRecords /\ FitsIn(task[t]) /\ task[t].pc \in {"popup"}
      /\ Proper(task[t], request, x)
  BY DEF OpenPopup, At, TypeInv, TypeOK, Located, Excusing
<1>2. UNCHANGED request
  BY DEF OpenPopup, catalog
<1>3. \/ (\E p \in {"waiting", "create"} : Go(t, p))
      \/ (\E a \in {"pending"} : Answer(t, a))
  BY <1>1 DEF OpenPopup, Opened
<1>4. ASSUME NEW p \in {"waiting", "create"}, Go(t, p)
      PROVE  \A u \in Tasks : Proper(task'[u], request', x)
  BY <1>1, <1>2, <1>4, PcNames, GoProper DEF FitsIn, Fits, SweepPcs, RowsPcs, PermsPcs, DiscPcs
<1>5. ASSUME NEW a \in {"pending"}, Answer(t, a)
      PROVE  \A u \in Tasks : Proper(task'[u], request', x)
  BY <1>1, <1>2, <1>5, AnswerProper DEF Answers, Proper, FitsIn, Fits, IdPcs
<1>6. \A u \in Tasks : Proper(task'[u], request', x)
  BY <1>3, <1>4, <1>5
<1> QED BY <1>2, <1>6 DEF StillExcusing, Excusing, OpenPopup, persistent

LEMMA CreateWindowProper ==
  ASSUME TypeInv, Consent, NEW x, Excusing(x), NEW t \in Tasks, CreateWindow(t) PROVE StillExcusing(x)
<1>1. task[t] \in TaskRecords /\ FitsIn(task[t]) /\ task[t].pc \in {"create"}
      /\ Proper(task[t], request, x)
  BY DEF CreateWindow, At, TypeInv, TypeOK, Located, Excusing
<1>2. UNCHANGED request
  BY DEF CreateWindow, catalog
<1>3. \/ (\E p \in {"waiting"} : Go(t, p))
      \/ (\E a \in {"pending"} : Answer(t, a))
  BY <1>1 DEF CreateWindow, Opened
<1>4. ASSUME NEW p \in {"waiting"}, Go(t, p)
      PROVE  \A u \in Tasks : Proper(task'[u], request', x)
  BY <1>1, <1>2, <1>4, PcNames, GoProper DEF FitsIn, Fits, SweepPcs, RowsPcs, PermsPcs, DiscPcs
<1>5. ASSUME NEW a \in {"pending"}, Answer(t, a)
      PROVE  \A u \in Tasks : Proper(task'[u], request', x)
  BY <1>1, <1>2, <1>5, AnswerProper DEF Answers, Proper, FitsIn, Fits, IdPcs
<1>6. \A u \in Tasks : Proper(task'[u], request', x)
  BY <1>3, <1>4, <1>5
<1> QED BY <1>2, <1>6 DEF StillExcusing, Excusing, CreateWindow, persistent

LEMMA DecidedProper ==
  ASSUME TypeInv, Consent, NEW x, Excusing(x), NEW t \in Tasks, Decided(t) PROVE StillExcusing(x)
<1>1. task[t] \in TaskRecords /\ FitsIn(task[t]) /\ task[t].pc \in {"waiting"}
      /\ Proper(task[t], request, x)
  BY DEF Decided, At, TypeInv, TypeOK, Located, Excusing
<1>2. UNCHANGED request
  BY DEF Decided, catalog
<1>3. \/ (\E p \in {"grant"} : Go(t, p))
      \/ (\E a \in {"rejected"} : Answer(t, a) /\ (task[t].op = "DAPP_OPEN_SIGN_REQUEST"))
  BY <1>1 DEF Decided, FitsIn, Fits
<1>4. ASSUME NEW p \in {"grant"}, Go(t, p)
      PROVE  \A u \in Tasks : Proper(task'[u], request', x)
  BY <1>1, <1>2, <1>4, PcNames, GoProper DEF FitsIn, Fits, SweepPcs, RowsPcs, PermsPcs, DiscPcs
<1>5. ASSUME NEW a \in {"rejected"}, Answer(t, a) /\ (task[t].op = "DAPP_OPEN_SIGN_REQUEST")
      PROVE  \A u \in Tasks : Proper(task'[u], request', x)
  BY <1>1, <1>2, <1>5, AnswerProper DEF Answers, Proper
<1>6. \A u \in Tasks : Proper(task'[u], request', x)
  BY <1>3, <1>4, <1>5
<1> QED BY <1>2, <1>6 DEF StillExcusing, Excusing, Decided, persistent

LEMMA GrantProper ==
  ASSUME TypeInv, Consent, NEW x, Excusing(x), NEW t \in Tasks, Grant(t) PROVE StillExcusing(x)
<1>1. task[t] \in TaskRecords /\ FitsIn(task[t]) /\ task[t].pc \in {"grant"}
      /\ Proper(task[t], request, x)
  BY DEF Grant, At, TypeInv, TypeOK, Located, Excusing
<1>2. UNCHANGED request
  BY DEF Grant, catalog
<1>3. (\E p \in {"unmark"} : Go(t, p))
  BY <1>1 DEF Grant
<1>4. ASSUME NEW p \in {"unmark"}, Go(t, p)
      PROVE  \A u \in Tasks : Proper(task'[u], request', x)
  BY <1>1, <1>2, <1>4, PcNames, GoProper DEF FitsIn, Fits, SweepPcs, RowsPcs, PermsPcs, DiscPcs
<1>5. \A u \in Tasks : Proper(task'[u], request', x)
  BY <1>3, <1>4
<1> QED BY <1>2, <1>5 DEF StillExcusing, Excusing, Grant, persistent

LEMMA UnmarkProper ==
  ASSUME TypeInv, Consent, NEW x, Excusing(x), NEW t \in Tasks, Unmark(t) PROVE StillExcusing(x)
<1>1. task[t] \in TaskRecords /\ FitsIn(task[t]) /\ task[t].pc \in {"unmark"}
      /\ Proper(task[t], request, x)
  BY DEF Unmark, At, TypeInv, TypeOK, Located, Excusing
<1>2. UNCHANGED request
  BY DEF Unmark, catalog
<1>3. (\E a \in {"connected", "ok"} : Answer(t, a))
  BY <1>1 DEF Unmark
<1>4. ASSUME NEW a \in {"connected", "ok"}, Answer(t, a)
      PROVE  \A u \in Tasks : Proper(task'[u], request', x)
  BY <1>1, <1>2, <1>4, AnswerProper DEF Answers, Proper
<1>5. \A u \in Tasks : Proper(task'[u], request', x)
  BY <1>3, <1>4
<1> QED BY <1>2, <1>5 DEF StillExcusing, Excusing, Unmark, persistent

LEMMA CheckAllowedProper ==
  ASSUME TypeInv, Consent, NEW x, Excusing(x), NEW t \in Tasks, CheckAllowed(t) PROVE StillExcusing(x)
<1>1. task[t] \in TaskRecords /\ FitsIn(task[t]) /\ task[t].pc \in {"allow"}
      /\ Proper(task[t], request, x)
  BY DEF CheckAllowed, At, TypeInv, TypeOK, Located, Excusing
<1>2. UNCHANGED request
  BY DEF CheckAllowed, catalog
<1>3. \/ (\E p \in {"prepare"} : Go(t, p) /\ (task[t].op = "DAPP_SIGN_TRANSACTION"))
      \/ (\E a \in {"not_connected"} : Answer(t, a))
  BY <1>1 DEF CheckAllowed, FitsIn, Fits, Proper
<1>4. ASSUME NEW p \in {"prepare"}, Go(t, p) /\ (task[t].op = "DAPP_SIGN_TRANSACTION")
      PROVE  \A u \in Tasks : Proper(task'[u], request', x)
  BY <1>1, <1>2, <1>4, PcNames, GoProper DEF FitsIn, Fits, SweepPcs, RowsPcs, PermsPcs, DiscPcs
<1>5. ASSUME NEW a \in {"not_connected"}, Answer(t, a)
      PROVE  \A u \in Tasks : Proper(task'[u], request', x)
  BY <1>1, <1>2, <1>5, AnswerProper DEF Answers, Proper
<1>6. \A u \in Tasks : Proper(task'[u], request', x)
  BY <1>3, <1>4, <1>5
<1> QED BY <1>2, <1>6 DEF StillExcusing, Excusing, CheckAllowed, persistent

LEMMA PrepareFailedProper ==
  ASSUME TypeInv, Consent, NEW x, Excusing(x), NEW t \in Tasks, PrepareFailed(t) PROVE StillExcusing(x)
<1>1. task[t] \in TaskRecords /\ FitsIn(task[t]) /\ task[t].pc \in {"prepare"}
      /\ Proper(task[t], request, x)
  BY DEF PrepareFailed, At, TypeInv, TypeOK, Located, Excusing
<1>2. UNCHANGED request
  BY DEF PrepareFailed, catalog
<1>3. (\E a \in {"failed"} : Answer(t, a))
  BY <1>1 DEF PrepareFailed
<1>4. ASSUME NEW a \in {"failed"}, Answer(t, a)
      PROVE  \A u \in Tasks : Proper(task'[u], request', x)
  BY <1>1, <1>2, <1>4, AnswerProper DEF Answers, Proper
<1>5. \A u \in Tasks : Proper(task'[u], request', x)
  BY <1>3, <1>4
<1> QED BY <1>2, <1>5 DEF StillExcusing, Excusing, PrepareFailed, persistent

LEMMA PollPermissionProper ==
  ASSUME TypeInv, Consent, NEW x, Excusing(x), NEW t \in Tasks, PollPermission(t) PROVE StillExcusing(x)
<1>1. task[t] \in TaskRecords /\ FitsIn(task[t]) /\ task[t].pc \in {"pollPerms"}
      /\ Proper(task[t], request, x)
  BY DEF PollPermission, At, TypeInv, TypeOK, Located, Excusing
<1>2. UNCHANGED request
  BY DEF PollPermission, catalog
<1>3. \/ (\E p \in {"grant"} : Go(t, p))
      \/ (\E a \in {"connected"} : Answer(t, a))
  BY <1>1 DEF PollPermission
<1>4. ASSUME NEW p \in {"grant"}, Go(t, p)
      PROVE  \A u \in Tasks : Proper(task'[u], request', x)
  BY <1>1, <1>2, <1>4, PcNames, GoProper DEF FitsIn, Fits, SweepPcs, RowsPcs, PermsPcs, DiscPcs
<1>5. ASSUME NEW a \in {"connected"}, Answer(t, a)
      PROVE  \A u \in Tasks : Proper(task'[u], request', x)
  BY <1>1, <1>2, <1>5, AnswerProper DEF Answers, Proper
<1>6. \A u \in Tasks : Proper(task'[u], request', x)
  BY <1>3, <1>4, <1>5
<1> QED BY <1>2, <1>6 DEF StillExcusing, Excusing, PollPermission, persistent

LEMMA SignFailedProper ==
  ASSUME TypeInv, Consent, NEW x, Excusing(x), NEW t \in Tasks, SignFailed(t) PROVE StillExcusing(x)
<1>1. task[t] \in TaskRecords /\ FitsIn(task[t]) /\ task[t].pc \in {"sign"}
      /\ Proper(task[t], request, x)
  BY DEF SignFailed, At, TypeInv, TypeOK, Located, Excusing
<1>2. UNCHANGED request
  BY DEF SignFailed, catalog
<1>3. (\E p \in {"resolve"} : Go(t, p))
  BY <1>1 DEF SignFailed
<1>4. ASSUME NEW p \in {"resolve"}, Go(t, p)
      PROVE  \A u \in Tasks : Proper(task'[u], request', x)
  BY <1>1, <1>2, <1>4, PcNames, GoProper DEF Proper, FitsIn, Fits, SweepPcs, RowsPcs, PermsPcs, DiscPcs
<1>5. \A u \in Tasks : Proper(task'[u], request', x)
  BY <1>3, <1>4
<1> QED BY <1>2, <1>5 DEF StillExcusing, Excusing, SignFailed, persistent

LEMMA MarkDisconnectedProper ==
  ASSUME TypeInv, Consent, NEW x, Excusing(x), NEW t \in Tasks, MarkDisconnected(t) PROVE StillExcusing(x)
<1>1. task[t] \in TaskRecords /\ FitsIn(task[t]) /\ task[t].pc \in {"markDisconnected"}
      /\ Proper(task[t], request, x)
  BY DEF MarkDisconnected, At, TypeInv, TypeOK, Located, Excusing
<1>2. UNCHANGED request
  BY DEF MarkDisconnected, catalog
<1>3. (\E p \in {"forget"} : Go(t, p))
  BY <1>1 DEF MarkDisconnected
<1>4. ASSUME NEW p \in {"forget"}, Go(t, p)
      PROVE  \A u \in Tasks : Proper(task'[u], request', x)
  BY <1>1, <1>2, <1>4, PcNames, GoProper DEF FitsIn, Fits, SweepPcs, RowsPcs, PermsPcs, DiscPcs
<1>5. \A u \in Tasks : Proper(task'[u], request', x)
  BY <1>3, <1>4
<1> QED BY <1>2, <1>5 DEF StillExcusing, Excusing, MarkDisconnected, persistent

LEMMA ForgetProper ==
  ASSUME TypeInv, Consent, NEW x, Excusing(x), NEW t \in Tasks, Forget(t) PROVE StillExcusing(x)
<1>1. task[t] \in TaskRecords /\ FitsIn(task[t]) /\ task[t].pc \in {"forget"}
      /\ Proper(task[t], request, x)
  BY DEF Forget, At, TypeInv, TypeOK, Located, Excusing
<1>2. UNCHANGED request
  BY DEF Forget, catalog
<1>3. (\E p \in {"close"} : Go(t, p))
  BY <1>1 DEF Forget
<1>4. ASSUME NEW p \in {"close"}, Go(t, p)
      PROVE  \A u \in Tasks : Proper(task'[u], request', x)
  BY <1>1, <1>2, <1>4, PcNames, GoProper DEF FitsIn, Fits, SweepPcs, RowsPcs, PermsPcs, DiscPcs
<1>5. \A u \in Tasks : Proper(task'[u], request', x)
  BY <1>3, <1>4
<1> QED BY <1>2, <1>5 DEF StillExcusing, Excusing, Forget, persistent

LEMMA CloseWindowProper ==
  ASSUME TypeInv, Consent, NEW x, Excusing(x), NEW t \in Tasks, CloseWindow(t) PROVE StillExcusing(x)
<1>1. task[t] \in TaskRecords /\ FitsIn(task[t]) /\ task[t].pc \in {"close"}
      /\ Proper(task[t], request, x)
  BY DEF CloseWindow, At, TypeInv, TypeOK, Located, Excusing
<1>2. UNCHANGED request
  BY DEF CloseWindow, catalog
<1>3. (\E p \in {"list"} : Go(t, p))
  BY <1>1 DEF CloseWindow
<1>4. ASSUME NEW p \in {"list"}, Go(t, p)
      PROVE  \A u \in Tasks : Proper(task'[u], request', x)
  BY <1>1, <1>2, <1>4, PcNames, GoProper DEF FitsIn, Fits, SweepPcs, RowsPcs, PermsPcs, DiscPcs
<1>5. \A u \in Tasks : Proper(task'[u], request', x)
  BY <1>3, <1>4
<1> QED BY <1>2, <1>5 DEF StillExcusing, Excusing, CloseWindow, persistent

LEMMA WipeProper ==
  ASSUME TypeInv, Consent, NEW x, Excusing(x), NEW t \in Tasks, Wipe(t) PROVE StillExcusing(x)
<1>1. task[t] \in TaskRecords /\ FitsIn(task[t]) /\ task[t].pc \in {"wipe"}
      /\ Proper(task[t], request, x)
  BY DEF Wipe, At, TypeInv, TypeOK, Located, Excusing
<1>2. UNCHANGED request
  BY DEF Wipe, catalog
<1>3. (\E a \in {"ok"} : Answer(t, a))
  BY <1>1 DEF Wipe
<1>4. ASSUME NEW a \in {"ok"}, Answer(t, a)
      PROVE  \A u \in Tasks : Proper(task'[u], request', x)
  BY <1>1, <1>2, <1>4, AnswerProper DEF Answers, Proper
<1>5. \A u \in Tasks : Proper(task'[u], request', x)
  BY <1>3, <1>4
<1> QED BY <1>2, <1>5 DEF StillExcusing, Excusing, Wipe, persistent

LEMMA PutExcused ==
  ASSUME NEW rows \in Stores, NEW q, NEW x, RowsExcused(rows, q, x), NEW i \in Ids, NEW st,
         st = "rejected" => Excuse(i, q, x)
  PROVE  RowsExcused(Put(rows, i, st), q, x)
  BY DEF RowsExcused, Stores, Put

\* The sweep rejects nothing.
LEMMA ExpireExcused ==
  ASSUME NEW rows \in Stores, NEW q, NEW x, RowsExcused(rows, q, x)
  PROVE  RowsExcused(Expire(rows), q, x)
  BY DEF RowsExcused, Stores, Rows, Expire, Swept, Absent

LEMMA OlderExcused ==
  ASSUME NEW rows \in Stores, NEW q, NEW x, RowsExcused(rows, q, x)
  PROVE  RowsExcused(Older(rows), q, x)
  BY DEF RowsExcused, Stores, Rows, Older

\* A slot takes a copy of a key.
LEMMA ReadingProper ==
  ASSUME TypeInv, Consent, NEW x, Excusing(x), NEW t \in Tasks,
         ReadRows(t) \/ Prune(t) \/ ReadLocal(t)
  PROVE  StillExcusing(x)
<1>1. task[t] \in TaskRecords /\ Proper(task[t], request, x) /\ store \in Stores
      /\ task[t].rows \in Stores /\ UNCHANGED request
  BY DEF TypeInv, TypeOK, Excusing, TaskRecords, ReadRows, Prune, ReadLocal, catalog
<1>2. CASE ReadRows(t)
  <2> DEFINE r == [task[t] EXCEPT !.rows = Expire(store),
                                  !.phase = IF Expire(store) = store THEN "ready" ELSE "prune"]
  <2>1. task' = [task EXCEPT ![t] = r]
    BY <1>2, <1>1 DEF ReadRows, TypeInv, TypeOK, TaskRecords
  <2>2. RowsExcused(Expire(store), request, x)
    BY <1>1, ExpireExcused DEF Excusing
  <2>3. Proper(r, request, x)
    BY <1>1, <2>2 DEF Proper, TaskRecords
  <2> QED BY <1>1, <1>2, <2>1, <2>3, SlotProper DEF StillExcusing, Excusing, ReadRows, persistent
<1>3. CASE Prune(t)
  <2> DEFINE r == [task[t] EXCEPT !.phase = "ready"]
  <2>1. Proper(r, request, x)
    BY <1>1 DEF Proper, TaskRecords
  <2>2. \A u \in Tasks : Proper(task'[u], request', x)
    BY <1>1, <1>3, <2>1, SlotProper DEF Prune
  <2>3. RowsExcused(store', request', x)
    BY <1>1, <1>3 DEF Proper, Prune
  <2> QED BY <2>2, <2>3 DEF StillExcusing
<1>4. CASE ReadLocal(t)
  <2> DEFINE r == [task[t] EXCEPT !.perms = permissions, !.phase = "ready"]
             d == [task[t] EXCEPT !.disc = disconnected, !.phase = "ready"]
  <2>1. Proper(r, request, x) /\ Proper(d, request, x)
    BY <1>1 DEF Proper, TaskRecords
  <2>2. task' = [task EXCEPT ![t] = r] \/ task' = [task EXCEPT ![t] = d]
    BY <1>4, <1>1 DEF ReadLocal, TypeInv, TypeOK, TaskRecords
  <2> QED BY <1>1, <1>4, <2>1, <2>2, SlotProper DEF StillExcusing, Excusing, ReadLocal, persistent
<1> QED BY <1>2, <1>3, <1>4

LEMMA UpsertProper ==
  ASSUME TypeInv, Consent, NEW x, Excusing(x), NEW t \in Tasks, Upsert(t) PROVE StillExcusing(x)
<1>1. /\ task[t] \in TaskRecords /\ task[t].id \in Ids /\ task[t].rows \in Stores
      /\ Proper(task[t], request, x) /\ UNCHANGED request
  BY DEF Upsert, At, TypeInv, TypeOK, Located, FitsIn, Fits, IdPcs, Excusing, TaskRecords, catalog
<1>2. \A u \in Tasks : Proper(task'[u], request', x)
  BY <1>1, PcNames, GoProper DEF Upsert, RowsPcs, PermsPcs, DiscPcs
<1>3. RowsExcused(store', request', x)
  BY <1>1, PutExcused DEF Upsert, Proper
<1> QED BY <1>2, <1>3 DEF StillExcusing

LEMMA MarkSigningProper ==
  ASSUME TypeInv, Consent, NEW x, Excusing(x), NEW t \in Tasks, MarkSigning(t)
  PROVE  StillExcusing(x)
<1>1. /\ task[t] \in TaskRecords /\ task[t].id \in Ids /\ task[t].rows \in Stores
      /\ Proper(task[t], request, x) /\ UNCHANGED request
  BY DEF MarkSigning, At, TypeInv, TypeOK, Located, FitsIn, Fits, IdPcs, Excusing, TaskRecords,
         catalog
<1>2. \A u \in Tasks : Proper(task'[u], request', x)
  BY <1>1, PcNames, GoProper DEF MarkSigning, RowsPcs, PermsPcs, DiscPcs
<1>3. RowsExcused(store', request', x)
  BY <1>1, PutExcused DEF MarkSigning, Proper, Excusing
<1> QED BY <1>2, <1>3 DEF StillExcusing

\* A poll answers "rejected" for a rejected row, "signed" for no connect request.
LEMMA PollRowProper ==
  ASSUME TypeInv, Consent, NEW x, Excusing(x), NEW t \in Tasks, PollRow(t) PROVE StillExcusing(x)
<1> DEFINE i == task[t].id
<1>1. /\ task[t] \in TaskRecords /\ i \in Ids /\ task[t].rows \in Stores
      /\ task[t].op = "DAPP_POLL_REQUEST_RESULT" /\ task[t].pc = "poll"
      /\ Proper(task[t], request, x) /\ UNCHANGED request /\ request[i].kind \in Kinds
  BY DEF PollRow, At, TypeInv, TypeOK, Located, FitsIn, Fits, IdPcs, Excusing, TaskRecords,
         catalog
<1>2. task[t].rows[i].status = "rejected" => Excuse(i, request, x)
  BY <1>1 DEF Proper, RowsExcused
<1>3. \/ Go(t, "pollPerms")
      \/ \E a \in {"not_found", "pending", "expired"} : Answer(t, a)
      \/ Answer(t, "rejected") /\ task[t].rows[i].status = "rejected"
      \/ Answer(t, "signed") /\ request[i].kind = "externalSignReview"
  BY <1>1 DEF PollRow, Kinds
<1>4. \A u \in Tasks : Proper(task'[u], request', x)
  <2>1. CASE Go(t, "pollPerms")
    BY <2>1, <1>1, PcNames, GoProper DEF RowsPcs, PermsPcs, DiscPcs
  <2>2. CASE \E a \in {"not_found", "pending", "expired"} : Answer(t, a)
    BY <2>2, <1>1, AnswerProper DEF Answers, Requests
  <2>3. CASE Answer(t, "rejected") /\ task[t].rows[i].status = "rejected"
    <3> DEFINE a == "rejected"
    <3>1. a \in Answers /\ a # "pending" /\ a # "signed" /\ Answer(t, a)
      BY <2>3 DEF Answers
    <3> HIDE DEF a
    <3> QED BY <3>1, <2>3, <1>1, <1>2, AnswerProper
  <2>4. CASE Answer(t, "signed") /\ request[i].kind = "externalSignReview"
    <3> DEFINE a == "signed"
    <3>1. a \in Answers /\ a # "pending" /\ a # "rejected" /\ Answer(t, a)
      BY <2>4 DEF Answers
    <3> HIDE DEF a
    <3> QED BY <3>1, <2>4, <1>1, AnswerProper
  <2> QED BY <1>3, <2>1, <2>2, <2>3, <2>4
<1> QED BY <1>1, <1>4 DEF StillExcusing, Excusing, PollRow, persistent

LEMMA GetBeforeProper ==
  ASSUME TypeInv, Consent, NEW x, Excusing(x), NEW t \in Tasks, GetBefore(t)
  PROVE  StillExcusing(x)
<1> DEFINE q == To(task[t], "resolve")
           r == [q EXCEPT !.origin = OriginIn(t)]
<1>1. /\ task[t] \in TaskRecords /\ task[t].op \in Decisions
      /\ Proper(task[t], request, x) /\ UNCHANGED request
  BY DEF GetBefore, At, TypeInv, TypeOK, Located, FitsIn, Fits, Excusing, catalog
<1>2. q \in TaskRecords /\ q.pc = "resolve" /\ Proper(q, request, x)
      /\ q.op \in Decisions
  <2>1. (~task[t].yes) => Excuse(task[t].id, request, x)
    BY <1>1 DEF Proper
  <2> QED BY <1>1, <2>1, PcNames, ToType, ToProper DEF RowsPcs
<1>3. Proper(r, request, x)
  <2> HIDE DEF q
  <2> QED BY <1>2 DEF Proper, TaskRecords, Decisions
<1>4. \A u \in Tasks : Proper(task'[u], request', x)
  BY <1>1, <1>3, SlotProper DEF GetBefore
<1> QED BY <1>1, <1>4 DEF StillExcusing, Excusing, GetBefore, persistent

\* A row is rejected for a handler that may reject it.
LEMMA ResolveRowProper ==
  ASSUME TypeInv, Consent, NEW x, Excusing(x), NEW t \in Tasks, ResolveRow(t)
  PROVE  StillExcusing(x)
<1> DEFINE i == task[t].id
           q == To(task[t], "wake")
           o == IF task[t].op \in UiOps THEN OriginIn(t) ELSE task[t].origin
           v == Verdict(task[t].rows[i], task[t].yes)
           r == [q EXCEPT !.ret = v, !.origin = o]
<1>1. /\ task[t] \in TaskRecords /\ task[t].op \in Decisions \cup Sweeps
      /\ i \in Ids /\ task[t].rows \in Stores /\ task[t].pc = "resolve"
      /\ Proper(task[t], request, x) /\ UNCHANGED request
  BY DEF ResolveRow, At, TypeInv, TypeOK, Located, FitsIn, Fits, IdPcs, Excusing, TaskRecords,
         catalog
<1>2. q \in TaskRecords /\ q.pc = "wake" /\ Proper(q, request, x) /\ q.op = task[t].op
  BY <1>1, PcNames, ToType, ToProper
<1>3. Proper(r, request, x)
  <2>1. v # "signed" /\ v # "pending"
    BY DEF Verdict
  <2> HIDE DEF q, v, o
  <2> QED BY <1>1, <1>2, <2>1 DEF Proper, TaskRecords, Decisions, Sweeps
<1>4. \A u \in Tasks : Proper(task'[u], request', x)
  BY <1>1, <1>3, SlotProper DEF ResolveRow
<1>5. (~task[t].yes) => Excuse(i, request, x)
  BY <1>1 DEF Proper
<1>6. RowsExcused(store', request', x)
  BY <1>1, <1>5, PutExcused DEF ResolveRow, Excusing, Proper
<1> QED BY <1>4, <1>6 DEF StillExcusing

LEMMA SignSubmittedProper ==
  ASSUME TypeInv, Consent, NEW x, Excusing(x), NEW t \in Tasks, SignSubmitted(t)
  PROVE  StillExcusing(x)
<1> DEFINE q == To(task[t], "resolve")
           r == [q EXCEPT !.yes = TRUE]
<1>1. /\ task[t] \in TaskRecords /\ task[t].op \in Decisions
      /\ Proper(task[t], request, x) /\ UNCHANGED request
  BY DEF SignSubmitted, At, TypeInv, TypeOK, Located, FitsIn, Fits, Excusing, catalog
<1>2. q \in TaskRecords /\ q.pc = "resolve" /\ Proper(q, request, x)
  <2>1. (~task[t].yes) => Excuse(task[t].id, request, x)
    BY <1>1 DEF Proper
  <2> QED BY <1>1, <2>1, PcNames, ToType, ToProper DEF RowsPcs
<1>3. Proper(r, request, x)
  <2> HIDE DEF q
  <2> QED BY <1>2 DEF Proper, TaskRecords
<1>4. \A u \in Tasks : Proper(task'[u], request', x)
  BY <1>1, <1>3, SlotProper DEF SignSubmitted
<1> QED BY <1>1, <1>4 DEF StillExcusing, Excusing, SignSubmitted, persistent

\* The promise of a request settles: its openSignRequest handlers are told.
LEMMA ToldProper ==
  ASSUME NEW r \in TaskRecords, NEW q, NEW x, Proper(r, q, x),
         r.op = "DAPP_OPEN_SIGN_REQUEST", NEW a \in {"approved", "rejected", "orphaned"}
  PROVE  Proper([r EXCEPT !.ret = a], q, x)
  BY DEF Proper, TaskRecords

LEMMA WakeProper ==
  ASSUME TypeInv, Consent, NEW x, Excusing(x), NEW t \in Tasks, Wake(t) PROVE StillExcusing(x)
<1> DEFINE i == task[t].id
           a == task[t].ret
           q == To(task[t], "reply")
           n == To(task[t], "next")
           mine == IF task[t].op \in UiOps THEN [q EXCEPT !.ret = "ok"]
                                           ELSE [n EXCEPT !.ret = "none"]
<1>1. /\ task[t] \in TaskRecords /\ task[t].op \in Decisions \cup Sweeps
      /\ a \in {"approved", "rejected"} /\ Proper(task[t], request, x) /\ UNCHANGED request
  BY DEF Wake, At, TypeInv, TypeOK, Located, FitsIn, Fits, Excusing, catalog
<1>2. Proper(mine, request, x)
  <2>1. CASE task[t].op \in UiOps
    <3>1. q \in TaskRecords /\ Proper(q, request, x)
      BY <1>1, PcNames, ToType, ToProper
    <3> HIDE DEF q
    <3> QED BY <2>1, <3>1 DEF Proper, TaskRecords
  <2>2. CASE task[t].op \notin UiOps
    <3>1. task[t].op \in Rejecting
      BY <1>1, <2>2 DEF Decisions, Sweeps, UiOps, Rejecting
    <3>2. n \in TaskRecords /\ Proper(n, request, x)
      BY <1>1, <3>1, PcNames, ToType, ToProper
    <3> HIDE DEF n
    <3> QED BY <2>2, <3>2 DEF Proper, TaskRecords
  <2> QED BY <2>1, <2>2
<1>3. \A u \in Tasks :
        task'[u] = IF u = t THEN mine
                   ELSE IF i \in resolvers /\ Holds(u, i) THEN [task[u] EXCEPT !.ret = a]
                   ELSE task[u]
  BY DEF Wake
<1>4. ASSUME NEW u \in Tasks PROVE Proper(task'[u], request', x)
  <2>1. task[u] \in TaskRecords /\ Proper(task[u], request, x)
    BY DEF TypeInv, TypeOK, Excusing
  <2>2. Holds(u, i) => Proper([task[u] EXCEPT !.ret = a], request, x)
    BY <1>1, <2>1, ToldProper DEF Holds
  <2> HIDE DEF mine
  <2> QED BY <1>1, <1>2, <1>3, <2>1, <2>2
<1> QED BY <1>1, <1>4 DEF StillExcusing, Excusing, Wake, persistent

\* A sweep finds what it may reject: its origin's requests, or, as the surface
\* went away, everybody's.
LEMMA ListProper ==
  ASSUME TypeInv, Consent, NEW x, Excusing(x), NEW t \in Tasks, List(t), SweptBy(t) \subseteq x,
         task[t].op = "DAPP_DISCONNECT" =>
             \A i \in Ids : (i < nextId /\ request[i].origin = task[t].origin) => i \in x
  PROVE  StillExcusing(x)
<1> DEFINE q == To(task[t], "reply")
           n == To(task[t], "next")
           found == LiveIds(task[t].rows)
           rejects == ToReject(t)
           listed == [q EXCEPT !.todo = found, !.ret = "ok"]
           sweep == [n EXCEPT !.todo = rejects]
<1>1. /\ task[t] \in TaskRecords /\ task[t].op \in Sweeps
      /\ Proper(task[t], request, x) /\ UNCHANGED request
  BY DEF List, At, TypeInv, TypeOK, Located, FitsIn, Fits, SweepPcs, Excusing, catalog
<1>2. CASE task[t].op = "LIST_PENDING_DAPP_REQUESTS"
  <2>1. q \in TaskRecords /\ q.op = task[t].op /\ Proper(q, request, x)
    BY <1>1, PcNames, ToType, ToProper
  <2>2. Proper(listed, request, x)
    <3> HIDE DEF q, found
    <3> QED BY <1>2, <2>1 DEF Proper, TaskRecords
  <2> QED BY <1>1, <1>2, <2>2, SlotProper DEF StillExcusing, Excusing, List, persistent
<1>3. CASE task[t].op # "LIST_PENDING_DAPP_REQUESTS"
  <2>1. task[t].op \in Rejecting
    BY <1>1, <1>3 DEF Sweeps, Rejecting
  <2>2. n \in TaskRecords /\ n.op = task[t].op /\ Proper(n, request, x)
    BY <1>1, <2>1, PcNames, ToType, ToProper
  <2>3. \A i \in rejects : Excuse(i, request, x)
    <3>1. ASSUME NEW i \in rejects, i \in Ids PROVE i \in x
      <4>1. CASE task[t].op = "DAPP_DISCONNECT"
        <5>1. request[i].origin = task[t].origin /\ task[t].rows[i].status # "none"
          BY <3>1, <4>1 DEF ToReject, LiveIds, Live, LiveStatuses
        <5>2. i < nextId
          BY <3>1, <5>1 DEF Consent, TasksHonest, Honest, RowsEarned
        <5> QED BY <3>1, <4>1, <5>1, <5>2
      <4>2. CASE task[t].op = "WINDOW_CLOSED"
        BY <3>1, <4>2 DEF SweptBy, List
      <4> QED BY <2>1, <4>1, <4>2 DEF Rejecting
    <3> QED BY <3>1 DEF Excuse
  <2>4. Proper(sweep, request, x)
    <3> HIDE DEF n, rejects
    <3> QED BY <2>2, <2>3 DEF Proper, TaskRecords
  <2> QED BY <1>1, <1>3, <2>4, SlotProper DEF StillExcusing, Excusing, List, persistent
<1> QED BY <1>2, <1>3

LEMMA RejectNextProper ==
  ASSUME TypeInv, Consent, NEW x, Excusing(x), NEW t \in Tasks, RejectNext(t)
  PROVE  StillExcusing(x)
<1>1. /\ task[t] \in TaskRecords /\ task[t].op \in Rejecting /\ task[t].op \in Sweeps
      /\ Proper(task[t], request, x) /\ UNCHANGED request
  BY DEF RejectNext, At, TypeInv, TypeOK, Located, FitsIn, Fits, SweepPcs, Excusing, catalog,
         Proper
<1>2. PICK i \in task[t].todo :
        task' = [task EXCEPT ![t] = [To(@, "resolve") EXCEPT !.id = i,
                                                             !.todo = task[t].todo \ {i}]]
  BY DEF RejectNext
<1> DEFINE r == [To(task[t], "resolve") EXCEPT !.id = i, !.todo = task[t].todo \ {i}]
<1>3. \A j \in task[t].todo : Excuse(j, request, x)
  BY <1>1 DEF Proper, Rejecting
<1>4. /\ r.pc = "resolve" /\ r.op = task[t].op /\ r.ret = task[t].ret /\ r.id = i
      /\ r.rows = EmptyStore /\ r.todo = task[t].todo \ {i}
  BY <1>1, PcNames, ToType DEF RowsPcs, TaskRecords
<1>5. Proper(r, request, x)
  <2>1. r.op \notin Requests /\ r.op \notin Decisions /\ r.op \in Rejecting
        /\ r.op # "DAPP_POLL_REQUEST_RESULT"
    BY <1>1, <1>4 DEF Rejecting, Decisions, Requests
  <2>2. r.ret # "signed"
    BY <1>1, <1>4, <2>1 DEF Proper
  <2>3. i \in Ids
    BY <1>1 DEF TaskRecords
  <2> HIDE DEF r
  <2> QED BY <1>3, <1>4, <2>1, <2>2, <2>3, EmptyExcused DEF Proper, Requests
<1>6. \A u \in Tasks : Proper(task'[u], request', x)
  BY <1>1, <1>2, <1>5, SlotProper
<1> QED BY <1>1, <1>6 DEF StillExcusing, Excusing, RejectNext, persistent

LEMMA RejectDoneProper ==
  ASSUME TypeInv, Consent, NEW x, Excusing(x), NEW t \in Tasks, RejectDone(t)
  PROVE  StillExcusing(x)
<1>1. /\ task[t] \in TaskRecords /\ task[t].op \in Rejecting
      /\ Proper(task[t], request, x) /\ UNCHANGED request
  BY DEF RejectDone, At, TypeInv, TypeOK, Excusing, catalog, Proper
<1>2. \/ \E a \in {"ok"} : Answer(t, a)
      \/ \E p \in {"clear"} : Go(t, p) /\ task[t].op = "WINDOW_CLOSED"
  BY <1>1 DEF RejectDone, Rejecting
<1>3. ASSUME NEW a \in {"ok"}, Answer(t, a)
      PROVE  \A u \in Tasks : Proper(task'[u], request', x)
  BY <1>1, <1>3, AnswerProper DEF Answers
<1>4. ASSUME NEW p \in {"clear"}, Go(t, p) /\ task[t].op = "WINDOW_CLOSED"
      PROVE  \A u \in Tasks : Proper(task'[u], request', x)
  BY <1>1, <1>4, PcNames, GoProper
<1>5. \A u \in Tasks : Proper(task'[u], request', x)
  BY <1>2, <1>3, <1>4
<1> QED BY <1>1, <1>5 DEF StillExcusing, Excusing, RejectDone, persistent

LEMMA IdleProper == \A q, x : Proper(Idle, q, x)
  BY EmptyExcused DEF Proper, Idle, Requests, Decisions

LEMMA ClearAllProper ==
  ASSUME TypeInv, Consent, NEW x, Excusing(x), NEW t \in Tasks, ClearAll(t)
  PROVE  StillExcusing(x)
<1>1. UNCHANGED request /\ RowsExcused(store', request', x)
  BY EmptyExcused DEF ClearAll, catalog
<1>2. (\E p \in {"wipe"} : Go(t, p)) \/ task' = [task EXCEPT ![t] = Idle]
  BY DEF ClearAll
<1>3. ASSUME NEW p \in {"wipe"}, Go(t, p)
      PROVE  \A u \in Tasks : Proper(task'[u], request', x)
  BY <1>1, <1>3, PcNames, GoProper
<1>4. CASE task' = [task EXCEPT ![t] = Idle]
  BY <1>1, <1>4, IdleProper, SlotProper DEF StillExcusing
<1> QED BY <1>1, <1>2, <1>3, <1>4 DEF StillExcusing

\* A handler that has no request yet takes one.
LEMMA TakesProper ==
  ASSUME NEW r \in TaskRecords, NEW p \in {"popup", "upsert"}, NEW i \in Ids, NEW q, NEW x,
         Proper(r, q, x), r.op \in Requests, r.ret = "none",
         r.op = "DAPP_GET_PUBLIC_KEY" => q[i] = [origin |-> r.origin, kind |-> "getPublicKey"]
  PROVE  Proper([To(r, p) EXCEPT !.id = i], q, x)
<1> DEFINE n == To(r, p)
<1>1. n \in TaskRecords /\ n.op = r.op /\ n.pc = p /\ n.origin = r.origin /\ n.ret = "none"
      /\ Proper(n, q, x)
  BY PcNames, ToType, ToProper DEF RowsPcs
<1> HIDE DEF n
<1>2. r.op \notin Decisions /\ r.op # "DAPP_POLL_REQUEST_RESULT"
  BY DEF Requests, Decisions
<1>3. Proper([n EXCEPT !.id = i], q, x)
  BY <1>1, <1>2 DEF Proper, TaskRecords
<1> QED BY <1>3 DEF n

LEMMA NewRequestProper ==
  ASSUME TypeInv, Consent, NEW x, Excusing(x), NEW t \in Tasks, NEW kind \in Kinds,
         NewRequest(t, kind), task[t].op \in Requests, task[t].ret = "none",
         task[t].op = "DAPP_GET_PUBLIC_KEY" => kind = "getPublicKey", UNCHANGED store
  PROVE  StillExcusing(x)
<1>0. nextId \in Ids
  BY MaxIdAssumption DEF NewRequest, TypeInv, TypeOK, Ids
<1>1. nextId \in Ids /\ task[t] \in TaskRecords
  BY <1>0 DEF TypeInv, TypeOK
<1>2. /\ \A j \in Ids : j < nextId => request'[j] = request[j]
      /\ request'[nextId] = [origin |-> task[t].origin, kind |-> kind]
  BY <1>1 DEF NewRequest, TypeInv, TypeOK, Ids
<1>3. Proper(task[t], request', x)
  BY <1>1, <1>2, LaterProper DEF TypeInv, TypeOK, Consent, TasksHonest, Excusing
<1>4. Proper([To(task[t], "upsert") EXCEPT !.id = nextId], request', x)
  BY <1>1, <1>2, <1>3, TakesProper
<1>5. \A u \in Tasks : Proper(task'[u], request', x)
  BY <1>2, <1>4, SlotProper DEF NewRequest, GoWith
<1>6. RowsExcused(store', request', x)
  BY <1>2, LaterExcused DEF Consent, RowsConsent, RowsEarned, Excusing
<1> QED BY <1>5, <1>6 DEF StillExcusing

LEMMA PreparedProper ==
  ASSUME TypeInv, Consent, NEW x, Excusing(x), NEW t \in Tasks, Prepared(t)
  PROVE  StillExcusing(x)
<1> DEFINE kind == "externalSignReview"
<1>1. task[t].op = "DAPP_SIGN_TRANSACTION" /\ task[t].ret = "none"
  BY DEF Prepared, At, TypeInv, TypeOK, Located, FitsIn, Fits, EarlyPcs, Excusing, Proper
<1>2. kind \in Kinds /\ NewRequest(t, kind) /\ UNCHANGED store
  BY DEF Prepared, Kinds, persistent
<1> HIDE DEF kind
<1> QED BY <1>1, <1>2, NewRequestProper DEF Requests

\* A connect prompt is joined for the origin that asks, or made for it.
LEMMA EnqueueProper ==
  ASSUME TypeInv, Consent, NEW x, Excusing(x), NEW t \in Tasks, Enqueue(t)
  PROVE  StillExcusing(x)
<1> DEFINE o == task[t].origin
           mine == {i \in LiveIds(task[t].rows) :
                      request[i] = [origin |-> o, kind |-> "getPublicKey"]}
<1>1. /\ task[t] \in TaskRecords /\ o \in Origins /\ task[t].op \in Requests
      /\ task[t].ret = "none" /\ Proper(task[t], request, x) /\ UNCHANGED store
      /\ inflight[o] \in Ids \cup {0}
  BY DEF Enqueue, At, TypeInv, TypeOK, Located, FitsIn, Fits, EarlyPcs, OriginPcs, Excusing,
         persistent
<1>2. ASSUME NEW i \in Ids, request[i] = [origin |-> o, kind |-> "getPublicKey"]
      PROVE  Proper([To(task[t], "popup") EXCEPT !.id = i], request, x)
  BY <1>1, <1>2, TakesProper
<1>3. ASSUME NEW i \in Ids, request[i] = [origin |-> o, kind |-> "getPublicKey"],
             GoWith(t, "popup", i), UNCHANGED request
      PROVE  StillExcusing(x)
  <2>1. \A u \in Tasks : Proper(task'[u], request', x)
    BY <1>2, <1>3, SlotProper DEF GoWith
  <2> QED BY <2>1, <1>1, <1>3 DEF StillExcusing, Excusing
<1>4. ASSUME NEW i \in mine, UNCHANGED request,
             task' = [u \in Tasks |->
                        IF u = t THEN [To(task[t], "popup") EXCEPT !.id = i]
                        ELSE IF Holds(u, i) THEN [task[u] EXCEPT !.ret = "orphaned"]
                        ELSE task[u]]
      PROVE  StillExcusing(x)
  <2>1. i \in Ids /\ request[i] = [origin |-> o, kind |-> "getPublicKey"]
    BY DEF LiveIds
  <2>2. ASSUME NEW u \in Tasks PROVE Proper(task'[u], request', x)
    <3> DEFINE a == "orphaned"
    <3>1. a \in {"approved", "rejected", "orphaned"}
      OBVIOUS
    <3>2. task[u] \in TaskRecords /\ Proper(task[u], request, x)
      BY DEF TypeInv, TypeOK, Excusing
    <3>3. task'[u] = IF u = t THEN [To(task[t], "popup") EXCEPT !.id = i]
                     ELSE IF Holds(u, i) THEN [task[u] EXCEPT !.ret = a] ELSE task[u]
      BY <1>4
    <3> HIDE DEF a
    <3>4. Holds(u, i) => Proper([task[u] EXCEPT !.ret = a], request, x)
      BY <3>1, <3>2, ToldProper DEF Holds
    <3>5. Proper([To(task[t], "popup") EXCEPT !.id = i], request, x)
      BY <1>2, <2>1
    <3> QED BY <1>4, <3>2, <3>3, <3>4, <3>5
  <2> QED BY <1>1, <1>4, <2>2 DEF StillExcusing, Excusing
<1>5. CASE /\ mine = {} /\ inflight[o] = 0 /\ NewRequest(t, "getPublicKey")
  <2> DEFINE kind == "getPublicKey"
  <2>1. kind \in Kinds /\ NewRequest(t, kind)
    BY <1>5 DEF Kinds
  <2>2. task[t].op = "DAPP_GET_PUBLIC_KEY" => kind = "getPublicKey"
    OBVIOUS
  <2> HIDE DEF kind, mine
  <2> QED BY <1>1, <2>1, <2>2, NewRequestProper
<1>6. CASE \E i \in mine : GoWith(t, "popup", i) /\ UNCHANGED catalog
  BY <1>3, <1>6 DEF catalog, LiveIds
<1>7. CASE inflight[o] # 0 /\ GoWith(t, "popup", inflight[o]) /\ UNCHANGED catalog
  BY <1>1, <1>3, <1>7 DEF catalog, Consent, InflightOK
<1> QED BY <1>4, <1>5, <1>6, <1>7 DEF Enqueue, catalog

LEMMA HandleProper ==
  ASSUME TypeInv, Consent, NEW x, Excusing(x), NEW t \in Tasks, Handle(t), SweptBy(t) \subseteq x,
         task[t].op = "DAPP_DISCONNECT" =>
             \A i \in Ids : (i < nextId /\ request[i].origin = task[t].origin) => i \in x
  PROVE  StillExcusing(x)
<1>1. CASE ReadRows(t) \/ Prune(t) \/ ReadLocal(t)
  BY <1>1, ReadingProper
<1>2. CASE CheckPermission(t) \/ AssertPromptAllowed(t) \/ Enqueue(t) \/ Upsert(t)
           \/ OpenPopup(t) \/ CreateWindow(t) \/ Decided(t) \/ Grant(t) \/ Unmark(t)
  BY <1>2, CheckPermissionProper, AssertPromptAllowedProper, EnqueueProper, UpsertProper,
     OpenPopupProper, CreateWindowProper, DecidedProper, GrantProper, UnmarkProper
<1>3. CASE CheckAllowed(t) \/ Prepared(t) \/ PrepareFailed(t) \/ PollRow(t) \/ PollPermission(t)
  BY <1>3, CheckAllowedProper, PreparedProper, PrepareFailedProper, PollRowProper,
     PollPermissionProper
<1>4. CASE GetBefore(t) \/ ResolveRow(t) \/ Wake(t) \/ MarkSigning(t) \/ SignSubmitted(t)
           \/ SignFailed(t)
  BY <1>4, GetBeforeProper, ResolveRowProper, WakeProper, MarkSigningProper,
     SignSubmittedProper, SignFailedProper
<1>5. CASE MarkDisconnected(t) \/ Forget(t) \/ CloseWindow(t) \/ List(t) \/ RejectNext(t)
           \/ RejectDone(t) \/ ClearAll(t) \/ Wipe(t)
  BY <1>5, MarkDisconnectedProper, ForgetProper, CloseWindowProper, ListProper,
     RejectNextProper, RejectDoneProper, ClearAllProper, WipeProper
<1> QED BY <1>1, <1>2, <1>3, <1>4, <1>5 DEF Handle

-----------------------------------------------------------------------------
(* What a handler's step leaves alone. *)

\* The record of a handler keeps its method, a page's its origin, a poll its
\* request; the handler of a closed window ends by itself.
Same(r, n) ==
    \/ r.op = "WINDOW_CLOSED" /\ n = Idle
    \/ /\ n.op = r.op
       /\ r.op \in DappOps => n.origin = r.origin
       /\ r.op = "DAPP_POLL_REQUEST_RESULT" => n.id = r.id

\* Requests that were handed out, consents and signatures stay.
Lasting ==
    /\ nextId' >= nextId /\ \A i \in Ids : i < nextId => request'[i] = request[i]
    /\ userApproved \subseteq userApproved' /\ signed \subseteq signed'

LEMMA ToSame ==
  ASSUME NEW r \in TaskRecords, NEW p \in Pcs
  PROVE  /\ Same(r, To(r, p))
         /\ \A a : Same(r, [To(r, p) EXCEPT !.ret = a])
         /\ \A i : r.op # "DAPP_POLL_REQUEST_RESULT" => Same(r, [To(r, p) EXCEPT !.id = i])
  BY ToType DEF Same, TaskRecords

LEMMA HandleSame ==
  ASSUME TypeInv, NEW t \in Tasks, Handle(t),
         task[t].pc = "clear" => task[t].op \in {"WINDOW_CLOSED", "LOGOUT"}
  PROVE  \A u \in Tasks : Same(task[u], task'[u])
<1>1. \A u \in Tasks : task[u] \in TaskRecords /\ FitsIn(task[u]) /\ Same(task[u], task[u])
  BY DEF TypeInv, TypeOK, Located, Same
<1>0. ASSUME NEW r, task' = [task EXCEPT ![t] = r], Same(task[t], r)
      PROVE  \A u \in Tasks : Same(task[u], task'[u])
  BY <1>0, <1>1 DEF TypeInv, TypeOK
<1>2. ASSUME NEW p \in Pcs, Go(t, p) PROVE \A u \in Tasks : Same(task[u], task'[u])
  BY <1>1, <1>2, ToSame DEF Go, TypeInv, TypeOK
<1>3. ASSUME NEW a, Answer(t, a) PROVE \A u \in Tasks : Same(task[u], task'[u])
  BY <1>1, <1>3, ToSame, PcNames DEF Answer, TypeInv, TypeOK
<1>4. ASSUME NEW p \in Pcs, NEW i, GoWith(t, p, i), task[t].op # "DAPP_POLL_REQUEST_RESULT"
      PROVE  \A u \in Tasks : Same(task[u], task'[u])
  BY <1>1, <1>4, ToSame DEF GoWith, TypeInv, TypeOK
<1>5. CASE ReadRows(t) \/ Prune(t) \/ ReadLocal(t)
  BY <1>1, <1>5 DEF ReadRows, Prune, ReadLocal, TypeInv, TypeOK, TaskRecords, Same
<1>6. CASE CheckPermission(t) \/ AssertPromptAllowed(t) \/ Upsert(t) \/ OpenPopup(t)
           \/ CreateWindow(t) \/ Decided(t) \/ Grant(t) \/ Unmark(t) \/ CheckAllowed(t)
           \/ PrepareFailed(t) \/ PollRow(t) \/ PollPermission(t) \/ MarkSigning(t)
           \/ SignFailed(t) \/ MarkDisconnected(t) \/ Forget(t) \/ CloseWindow(t)
           \/ RejectDone(t) \/ Wipe(t)
  <2>1. (\E p \in Pcs : Go(t, p)) \/ (\E a : Answer(t, a))
    BY <1>6, PcNames
    DEF CheckPermission, AssertPromptAllowed, Upsert, OpenPopup, CreateWindow, Opened, Decided,
        Grant, Unmark, CheckAllowed, PrepareFailed, PollRow, PollPermission, MarkSigning,
        SignFailed, MarkDisconnected, Forget, CloseWindow, RejectDone, Wipe, RowsPcs, PermsPcs,
        DiscPcs
  <2> QED BY <2>1, <1>2, <1>3
<1>7. CASE Prepared(t)
  <2>1. task[t].op # "DAPP_POLL_REQUEST_RESULT" /\ GoWith(t, "upsert", nextId)
    BY <1>1, <1>7 DEF Prepared, NewRequest, At, FitsIn, Fits, EarlyPcs, Requests
  <2> QED BY <2>1, <1>4, PcNames DEF RowsPcs
<1>8. CASE Enqueue(t)
  <2>1. task[t].op # "DAPP_POLL_REQUEST_RESULT"
    BY <1>1, <1>8 DEF Enqueue, At, FitsIn, Fits, EarlyPcs, Requests
  <2>2. \/ \E p \in {"upsert", "popup"} : \E i : GoWith(t, p, i)
        \/ \E i : task' = [u \in Tasks |->
                             IF u = t THEN [To(task[t], "popup") EXCEPT !.id = i]
                             ELSE IF Holds(u, i) THEN [task[u] EXCEPT !.ret = "orphaned"]
                             ELSE task[u]]
    BY <1>8 DEF Enqueue, NewRequest
  <2>3. CASE \E p \in {"upsert", "popup"} : \E i : GoWith(t, p, i)
    BY <2>1, <2>3, <1>4, PcNames DEF RowsPcs
  <2>4. ASSUME NEW i, task' = [u \in Tasks |->
                             IF u = t THEN [To(task[t], "popup") EXCEPT !.id = i]
                             ELSE IF Holds(u, i) THEN [task[u] EXCEPT !.ret = "orphaned"]
                             ELSE task[u]]
        PROVE  \A u \in Tasks : Same(task[u], task'[u])
    <3>1. Same(task[t], [To(task[t], "popup") EXCEPT !.id = i])
      BY <1>1, <2>1, ToSame, PcNames
    <3>2. \A u \in Tasks : Same(task[u], [task[u] EXCEPT !.ret = "orphaned"])
      BY <1>1 DEF Same, TaskRecords
    <3> QED BY <1>1, <2>4, <3>1, <3>2
  <2> QED BY <2>2, <2>3, <2>4
<1>9. CASE GetBefore(t) \/ ResolveRow(t) \/ SignSubmitted(t) \/ List(t) \/ RejectNext(t)
  <2>1. /\ task[t].op \notin Requests /\ task[t].op # "DAPP_POLL_REQUEST_RESULT"
        /\ GetBefore(t) => task[t].op \notin DappOps
    BY <1>1, <1>9
    DEF GetBefore, ResolveRow, SignSubmitted, List, RejectNext, At, FitsIn, Fits, SweepPcs,
        Decisions, Sweeps, Requests, DappOps
  <2>2. \A p \in {"resolve", "wake", "reply", "next"} :
           /\ To(task[t], p) \in TaskRecords /\ To(task[t], p).op = task[t].op
           /\ To(task[t], p).origin = task[t].origin
    BY <1>1, ToType, PcNames DEF RowsPcs
  <2>3. UiOps \cap DappOps = {}
    BY DEF UiOps, DappOps, Requests
  <2>4. ASSUME NEW p \in {"resolve", "wake", "reply", "next"}
        PROVE  /\ \A o : task[t].op \notin DappOps =>
                            Same(task[t], [To(task[t], p) EXCEPT !.origin = o])
               /\ \A a, o : (task[t].op \notin UiOps => o = task[t].origin) =>
                            Same(task[t], [To(task[t], p) EXCEPT !.ret = a, !.origin = o])
               /\ Same(task[t], [To(task[t], p) EXCEPT !.yes = TRUE])
               /\ \A d, a : Same(task[t], [To(task[t], p) EXCEPT !.todo = d, !.ret = a])
               /\ \A d : Same(task[t], [To(task[t], p) EXCEPT !.todo = d])
               /\ \A i, d : Same(task[t], [To(task[t], p) EXCEPT !.id = i, !.todo = d])
    <3> DEFINE q == To(task[t], p)
    <3>1. q \in TaskRecords /\ q.op = task[t].op /\ q.origin = task[t].origin
      BY <2>2
    <3> HIDE DEF q
    <3>2. /\ \A o : task[t].op \notin DappOps => Same(task[t], [q EXCEPT !.origin = o])
          /\ \A a, o : (task[t].op \notin UiOps => o = task[t].origin) =>
                Same(task[t], [q EXCEPT !.ret = a, !.origin = o])
          /\ Same(task[t], [q EXCEPT !.yes = TRUE])
          /\ \A d, a : Same(task[t], [q EXCEPT !.todo = d, !.ret = a])
          /\ \A d : Same(task[t], [q EXCEPT !.todo = d])
          /\ \A i, d : Same(task[t], [q EXCEPT !.id = i, !.todo = d])
      BY <2>1, <2>3, <3>1 DEF TaskRecords, Same
    <3> QED BY <3>2 DEF q
  <2>5. CASE GetBefore(t)
    BY <2>5, <1>1, <2>1, <2>4 DEF GetBefore, TypeInv, TypeOK
  <2>6. CASE ResolveRow(t)
    BY <2>6, <1>1, <2>1, <2>4 DEF ResolveRow, TypeInv, TypeOK
  <2>7. CASE SignSubmitted(t)
    BY <2>7, <1>1, <2>1, <2>4 DEF SignSubmitted, TypeInv, TypeOK
  <2>8. CASE List(t)
    <3>1. \/ \E d : task' = [task EXCEPT ![t] = [To(task[t], "reply") EXCEPT !.todo = d, !.ret = "ok"]]
          \/ \E d : task' = [task EXCEPT ![t] = [To(task[t], "next") EXCEPT !.todo = d]]
      BY <2>8 DEF List
    <3>2. \A d : /\ Same(task[t], [To(task[t], "reply") EXCEPT !.todo = d, !.ret = "ok"])
                 /\ Same(task[t], [To(task[t], "next") EXCEPT !.todo = d])
      BY <2>4
    <3>3. \E r : task' = [task EXCEPT ![t] = r] /\ Same(task[t], r)
      BY <3>1, <3>2, Zenon
    <3> QED BY <3>3, <1>0
  <2>9. CASE RejectNext(t)
    <3>1. \E i, d : task' = [task EXCEPT ![t] = [To(task[t], "resolve") EXCEPT !.id = i, !.todo = d]]
      BY <2>9 DEF RejectNext
    <3>2. \A i, d : Same(task[t], [To(task[t], "resolve") EXCEPT !.id = i, !.todo = d])
      BY <2>4
    <3>3. \E r : task' = [task EXCEPT ![t] = r] /\ Same(task[t], r)
      BY <3>1, <3>2, Zenon
    <3> QED BY <3>3, <1>0
  <2> QED BY <1>9, <2>5, <2>6, <2>7, <2>8, <2>9
<1>10. CASE Wake(t)
  <2>1. task[t].op \notin Requests /\ task[t].op # "DAPP_POLL_REQUEST_RESULT"
    BY <1>1, <1>10 DEF Wake, At, FitsIn, Fits, Decisions, Sweeps, Requests
  <2>2. \A p \in {"reply", "next"} : \A a : Same(task[t], [To(task[t], p) EXCEPT !.ret = a])
    BY <1>1, ToSame, PcNames
  <2>3. \A u \in Tasks : \A a : Same(task[u], [task[u] EXCEPT !.ret = a])
    BY <1>1 DEF Same, TaskRecords
  <2> QED BY <1>1, <1>10, <2>2, <2>3 DEF Wake
<1>11. CASE ClearAll(t)
  <2>1. \/ Go(t, "wipe")
        \/ task' = [task EXCEPT ![t] = Idle] /\ task[t].op = "WINDOW_CLOSED"
    BY <1>11 DEF ClearAll, At
  <2> QED BY <1>1, <1>2, <2>1, PcNames DEF Same, TypeInv, TypeOK
<1> QED BY <1>5, <1>6, <1>7, <1>8, <1>9, <1>10, <1>11 DEF Handle

\* Only a sign request is ever signed, and requests only become more.
LEMMA HandleLasting ==
  ASSUME TypeInv, Consent, SignedAreSigns, NEW t \in Tasks, Handle(t)
  PROVE  Lasting /\ SignedAreSigns'
<1>1. ASSUME UNCHANGED <<catalog, history>> PROVE Lasting /\ SignedAreSigns'
  BY <1>1 DEF Lasting, SignedAreSigns, catalog, history, TypeInv, TypeOK
<1>2. ASSUME NEW kind, NewRequest(t, kind), UNCHANGED history
      PROVE  Lasting /\ SignedAreSigns'
  <2>1. nextId' = nextId + 1 /\ nextId \in Int
    BY <1>2 DEF NewRequest, TypeInv, TypeOK
  <2>2. \A i \in Ids : i < nextId => request'[i] = request[i]
    BY <1>2, <2>1 DEF NewRequest, TypeInv, TypeOK, Ids
  <2>3. Lasting
    BY <1>2, <2>1, <2>2 DEF Lasting, history
  <2>4. \A i \in signed : i \in Ids /\ i < nextId
    BY DEF Consent, Handed, TypeInv, TypeOK
  <2> QED BY <1>2, <2>2, <2>3, <2>4 DEF SignedAreSigns, history
<1>3. CASE Prepared(t)
  BY <1>3, <1>2 DEF Prepared
<1>4. CASE Enqueue(t)
  BY <1>4, <1>1, <1>2 DEF Enqueue
<1>5. CASE SignSubmitted(t)
  <2>1. UNCHANGED <<nextId, request, userApproved>> /\ signed' = signed \cup {task[t].id}
    BY <1>5 DEF SignSubmitted, catalog
  <2>2. task[t].id \in Ids /\ request[task[t].id].kind # "getPublicKey"
    BY <1>5 DEF SignSubmitted, At, TypeInv, Located, FitsIn, Fits, IdPcs, Consent, TasksHonest,
                Honest
  <2>3. request[task[t].id].kind = "externalSignReview"
    BY <2>2 DEF TypeInv, TypeOK, Kinds
  <2> QED BY <2>1, <2>3 DEF SignedAreSigns, Lasting, TypeInv, TypeOK
<1>6. CASE UNCHANGED <<catalog, history>>
  BY <1>1, <1>6
<1>7. \/ UNCHANGED <<catalog, history>> \/ Prepared(t) \/ Enqueue(t) \/ SignSubmitted(t)
  BY DEF Handle, ReadRows, Prune, ReadLocal, CheckPermission, AssertPromptAllowed, Upsert,
         OpenPopup, CreateWindow, Decided, Grant, Unmark, CheckAllowed, PrepareFailed, PollRow,
         PollPermission, GetBefore, ResolveRow, Wake, MarkSigning, SignFailed, MarkDisconnected,
         Forget, CloseWindow, List, RejectNext, RejectDone, ClearAll, Wipe
<1> QED BY <1>3, <1>4, <1>5, <1>6, <1>7

-----------------------------------------------------------------------------
(* Messages arrive, answers leave, time passes, the service worker restarts. *)
LEMMA BeginProper ==
  ASSUME TypeInv, Consent, NEW x, Excusing(x), NEW t \in Tasks, NEW op \in HandlerOps,
         NEW p \in Pcs \ {"idle", "next", "clear", "allow", "prepare", "resolve"},
         NEW o, NEW i, NEW yes, Begin(t, op, p, o, i, yes),
         op = "DAPP_GET_PUBLIC_KEY" => i = 0,
         (op \in Decisions /\ ~yes) => Excuse(i, request, x), UNCHANGED <<store, request>>
  PROVE  StillExcusing(x)
<1> DEFINE q == To(Idle, p)
           r == [q EXCEPT !.op = op, !.origin = o, !.id = i, !.yes = yes]
<1>1. q \in TaskRecords /\ q.pc = p /\ q.ret = "none" /\ q.todo = {} /\ q.rows = EmptyStore
  <2>1. Idle.ret = "none" /\ Idle.todo = {}
    BY DEF Idle
  <2> QED BY <2>1, IdleType, ToType
<1>2. Proper(r, request, x)
  <2> HIDE DEF q
  <2> QED BY <1>1, EmptyExcused DEF Proper, TaskRecords
<1>3. \A u \in Tasks : Proper(task'[u], request', x)
  BY <1>2, SlotProper DEF Begin
<1> QED BY <1>3 DEF StillExcusing, Excusing

LEMMA ReplyProper ==
  ASSUME TypeInv, Consent, NEW x, Excusing(x), NEW t \in Tasks, Reply(t) PROVE StillExcusing(x)
<1>1. UNCHANGED <<store, request>>
  BY DEF Reply, persistent, catalog
<1>2. \A u \in Tasks : Proper(task'[u], request', x)
  BY <1>1, IdleProper, SlotProper DEF Reply
<1> QED BY <1>1, <1>2 DEF StillExcusing, Excusing

LEMMA TickProper ==
  ASSUME TypeInv, NEW x, Excusing(x), Tick PROVE StillExcusing(x)
<1>1. UNCHANGED request /\ store' = Older(store) /\ store \in Stores
  BY DEF Tick, catalog, TypeInv, TypeOK
<1>2. ASSUME NEW u \in Tasks PROVE Proper(task'[u], request', x)
  <2>1. task[u] \in TaskRecords /\ Proper(task[u], request, x) /\ task[u].rows \in Stores
    BY DEF TypeInv, TypeOK, Excusing, TaskRecords
  <2>2. task'[u] = [task[u] EXCEPT !.rows = Older(task[u].rows)]
    BY DEF Tick
  <2>3. RowsExcused(Older(task[u].rows), request, x)
    BY <2>1, OlderExcused DEF Proper
  <2> QED BY <1>1, <2>1, <2>2, <2>3 DEF Proper, TaskRecords
<1>3. RowsExcused(store', request', x)
  BY <1>1, OlderExcused DEF Excusing
<1> QED BY <1>2, <1>3 DEF StillExcusing

LEMMA RestartProper ==
  ASSUME NEW x, Excusing(x), SwRestart PROVE StillExcusing(x)
  BY IdleProper DEF Excusing, StillExcusing, SwRestart, ForgetMemory, persistent, catalog

-----------------------------------------------------------------------------
(* The closed system: DappApproval's invariants carry over. *)

LEMMA SysStep ==
  ASSUME SysTypeOK, CallsKnown, SysNext PROVE [Next]_vars
<1>1. ASSUME NEW t \in Tasks, NEW c \in Calls, Send(c, t) \/ Ask(c, t) PROVE Next
  <2>1. CallOrigin[c] \in Origins /\ CallOps[c] \subseteq DappOps
    BY CallOriginAssumption, CallOpsAssumption
  <2>2. CASE Send(c, t)
    BY <2>1, <2>2 DEF Send, Next, Dapp
  <2>3. CASE Ask(c, t)
    <3>1. call[c].id \in Ids
      BY <2>3 DEF Ask, CallsKnown, KnownNow, Known
    <3> QED BY <2>1, <2>3, <3>1 DEF Ask, Next, Dapp
  <2> QED BY <1>1, <2>2, <2>3
<1>2. ASSUME NEW t \in Tasks, NEW s \in Surfaces, LoadPending(s, t) \/ Decide(s, t) \/ Confirm(s, t)
      PROVE  Next
  BY <1>2 DEF LoadPending, Decide, Confirm, Next, User
<1>3. ASSUME NEW t \in Tasks, Dismiss(t) PROVE Next
  <2>1. outbox \subseteq Ids /\ FALSE \in BOOLEAN
    BY DEF SysTypeOK
  <2> QED BY <1>3, <2>1 DEF Dismiss, Next, User
<1>4. ASSUME NEW t \in Tasks, WindowRemoved(t) PROVE [Next]_vars
  <2>1. removed \subseteq Windows
    BY DEF SysTypeOK
  <2> QED BY <1>4, <2>1 DEF WindowRemoved, Next, User
<1>5. ASSUME NEW t \in Tasks, Background(t) \/ Deliver(t) PROVE Next
  BY <1>5 DEF Background, Deliver, Next
<1>6. ASSUME NEW c \in Calls, Timeout(c) PROVE UNCHANGED vars
  BY <1>6 DEF Timeout
<1>7. ASSUME NEW s \in Surfaces, Hide(s) PROVE UNCHANGED vars
  BY <1>7 DEF Hide
<1>8. OpenToolbar => UNCHANGED vars
  BY DEF OpenToolbar
<1>9. (Restart \/ Outside) => Next
  BY DEF Restart, Outside, Next, Environment
<1> QED BY <1>1, <1>2, <1>3, <1>4, <1>5, <1>6, <1>7, <1>8, <1>9 DEF SysNext

\* The excused requests after a step, of those that were there before it.
StillExcused ==
    {i \in Ids : i < nextId /\ (i \in dismissed' \/ request[i].origin \in Leaving')}

\* Excuses stay: nobody takes a rejection or a disconnect back.
Growing == Lasting /\ dismissed \subseteq dismissed' /\ Leaving \subseteq Leaving'

LEMMA ExcusedNow ==
  ASSUME SysInv, Growing PROVE Excusing(StillExcused)
<1> DEFINE x == StillExcused
<1>1. \A i \in Excused : i < nextId => i \in x
  BY DEF Excused, StillExcused, Growing
<1>2. Excusing(Excused)
  BY DEF SysInv, RowsProper, TasksProper, Excusing
<1> HIDE DEF x
<1> QED BY <1>1, <1>2, LaterExcusing DEF SysInv, x

LEMMA ExcusedNext ==
  ASSUME SysInv, Growing, TypeInv', Consent', StillExcusing(StillExcused)
  PROVE  RowsProper' /\ TasksProper'
<1> DEFINE x == StillExcused
           y == Excused'
           q == request'
           n == nextId'
<1>1. \A i \in x : i < n => i \in y
  BY DEF StillExcused, Excused, Growing, Lasting
<1>2. RowsExcused(store', q, x) /\ \A u \in Tasks : Proper(task'[u], q, x)
  BY DEF StillExcusing
<1>3. /\ RowsEarned(store', n, q, userApproved', signed')
      /\ \A u \in Tasks : task'[u] \in TaskRecords /\ Honest(task'[u], n, q, userApproved', signed')
      /\ signed' \subseteq Ids
  BY DEF TypeInv, TypeOK, Consent, RowsConsent, TasksHonest
<1> HIDE DEF x, y, q, n
<1>4. RowsExcused(store', q, y)
  BY <1>1, <1>2, <1>3, LaterExcused DEF RowsEarned
<1>5. ASSUME NEW u \in Tasks PROVE Proper(task'[u], q, y)
  BY <1>1, <1>2, <1>3, LaterProper
<1> QED BY <1>4, <1>5 DEF RowsProper, TasksProper, y, q

-----------------------------------------------------------------------------
(* What a page knows stays true. *)
KnownNext(r, o) == Known(r, o, nextId', request', userApproved', signed', Excused')

LEMMA KnownLater ==
  ASSUME SysInv, Growing, NEW r, NEW o, r.id \in Ids \cup {0}, KnownNow(r, o), TypeInv'
  PROVE  KnownNext(r, o)
<1>1. nextId \in Nat /\ nextId' \in Nat /\ nextId <= nextId'
  BY MaxIdAssumption DEF SysInv, TypeInv, TypeOK, Growing, Lasting
<1>2. r.id < nextId'
  BY <1>1 DEF KnownNow, Known, Ids
<1>3. r.result = "connected" => Granted(o, request', userApproved')
  <2>1. \A j \in userApproved : j \in Ids /\ j < nextId
    BY DEF SysInv, Consent, Handed, TypeInv, TypeOK
  <2> QED BY <2>1 DEF KnownNow, Known, Granted, Growing, Lasting
<1>4. r.id # 0 => request'[r.id] = request[r.id]
  BY DEF KnownNow, Known, Growing, Lasting
<1>5. r.id \in Excused => r.id \in Excused'
  BY DEF KnownNow, Known, Growing, Lasting, Excused
<1>6. r.result = "signed" => r.id \in signed' /\ r.id \in Ids
  BY DEF KnownNow, Known, Growing, Lasting, SysInv, TypeInv, TypeOK
<1>7. r.result = "signed" =>
        request'[r.id] = [origin |-> o, kind |-> "externalSignReview"]
  BY <1>4, <1>6 DEF KnownNow, Known, Ids
<1>8. (r.op = "DAPP_GET_PUBLIC_KEY" /\ r.id # 0) =>
        /\ request'[r.id] = [origin |-> o, kind |-> "getPublicKey"]
        /\ r.result = "rejected" => r.id \in Excused'
  BY <1>4, <1>5 DEF KnownNow, Known
<1> QED BY <1>2, <1>3, <1>6, <1>7, <1>8 DEF KnownNow, KnownNext, Known

\* The calls a step does not touch.
LEMMA CallsLater ==
  ASSUME SysInv, Growing, TypeInv',
         \A c \in Calls : call'[c] = call[c] \/ KnownNext(call'[c], CallOrigin[c])
  PROVE  CallsKnown'
<1>1. \A c \in Calls : KnownNext(call[c], CallOrigin[c])
  BY KnownLater DEF SysInv, SysTypeOK, CallRecords, CallsKnown
<1> QED BY <1>1 DEF CallsKnown, KnownNow, KnownNext

-----------------------------------------------------------------------------
(* A message arrives: who serves whom. *)
LEMMA BeginSlot ==
  ASSUME TypeInv, NEW t \in Tasks, NEW op, NEW p, NEW o, NEW i, NEW yes,
         Begin(t, op, p, o, i, yes)
  PROVE  /\ task[t].pc = "idle"
         /\ task'[t].op = op /\ task'[t].origin = o /\ task'[t].id = i
         /\ \A u \in Tasks \ {t} : task'[u] = task[u]
<1> DEFINE q == To(Idle, p)
           r == [q EXCEPT !.op = op, !.origin = o, !.id = i, !.yes = yes]
<1>1. r.op = op /\ r.origin = o /\ r.id = i
  BY DEF To, Idle
<1>2. task[t].pc = "idle" /\ task' = [task EXCEPT ![t] = r]
  BY DEF Begin
<1> HIDE DEF r
<1> QED BY <1>1, <1>2 DEF TypeInv, TypeOK

\* A slot whose handler nobody waits for gets a message of k's.
LEMMA NewClient ==
  ASSUME SysInv, NEW t \in Tasks, NEW k, task[t].pc = "idle",
         \A u \in Tasks \ {t} : task'[u] = task[u],
         client' \in {client, [client EXCEPT ![t] = k]},
         client' # client => task'[t].op \notin {"idle", "WINDOW_CLOSED"},
         \A c \in Calls : c # k => call'[c] = call[c],
         k \in Calls => /\ client' # client /\ Serves(k, task[t])' 
                        /\ call[k].st \in {"unsent", "polling"}
  PROVE  Linked'
<1>1. client[t] = NoClient /\ client \in [Tasks -> Calls \cup Surfaces \cup {NoClient}]
  BY DEF SysInv, TasksProper, Proper, Linked, SysTypeOK
<1>2. \A u \in Tasks : client[u] \in Calls => client[u] # k
  BY DEF SysInv, Linked, Serves
<1>3. \A u \in Tasks \ {t} : client'[u] = client[u]
  BY <1>1
<1>4. client'[t] = NoClient \/ (client'[t] = k /\ client' # client)
  BY <1>1
<1>5. ASSUME NEW u \in Tasks, task'[u].op \in {"idle", "WINDOW_CLOSED"}
      PROVE  client'[u] = NoClient
  BY <1>1, <1>3, <1>4, <1>5 DEF SysInv, Linked
<1>6. ASSUME NEW u \in Tasks, client'[u] \in Calls
      PROVE  Serves(client[u], task[u])'
  <2>1. CASE u = t
    BY <1>4, <1>6, <2>1, ClientsAssumption
  <2>2. CASE u # t
    <3>1. client'[u] = client[u] /\ task'[u] = task[u] /\ Serves(client[u], task[u])
      BY <1>3, <1>6, <2>2 DEF SysInv, Linked
    <3>2. call'[client[u]] = call[client[u]]
      BY <1>2, <1>6, <3>1
    <3> QED BY <3>1, <3>2 DEF Serves
  <2> QED BY <2>1, <2>2
<1>7. ASSUME NEW u \in Tasks, NEW v \in Tasks, client'[u] \in Calls, client'[v] = client'[u]
      PROVE  u = v
  BY <1>2, <1>3, <1>4, <1>7, ClientsAssumption DEF SysInv, Linked
<1> QED BY <1>5, <1>6, <1>7 DEF Linked

-----------------------------------------------------------------------------
(* Each step of the closed system. *)
LEMMA SendKeeps ==
  ASSUME SysInv, TypeInv', Consent', NEW c \in Calls, NEW t \in Tasks, Send(c, t) PROVE SysInv'
<1>1. PICK op \in CallOps[c] :
        /\ call[c].st = "unsent"
        /\ DappCall(t, op, CallOrigin[c])
        /\ call' = [call EXCEPT ![c].op = op, ![c].st = "sent"]
        /\ client' = [client EXCEPT ![t] = c]
        /\ UNCHANGED <<ui, outbox, removed, dismissed, revoked, restarts>>
  BY DEF Send
<1> DEFINE o == CallOrigin[c]
           p == FirstPc(op)
<1>2. o \in Origins /\ op \in DappOps /\ op # "DAPP_POLL_REQUEST_RESULT" /\ op \in HandlerOps
      /\ op \notin Decisions /\ op \notin {"idle", "WINDOW_CLOSED"}
  BY CallOriginAssumption, CallOpsAssumption DEF HandlerOps, DappOps, Decisions, Requests
<1>3. Begin(t, op, p, o, 0, FALSE) /\ UNCHANGED <<store, nextId, request, userApproved, signed>>
  BY <1>1 DEF DappCall, persistent, catalog, history
<1>4. p \in Pcs \ {"idle", "next", "clear", "allow", "prepare", "resolve"}
  BY <1>2, PcNames DEF FirstPc, DappOps, PermsPcs, DiscPcs
<1>5. /\ call[c] \in CallRecords /\ c \in DOMAIN call /\ DOMAIN call = Calls
      /\ client \in [Tasks -> Calls \cup Surfaces \cup {NoClient}]
      /\ KnownNow(call[c], o)
  BY DEF SysInv, SysTypeOK, CallsKnown
<1> HIDE DEF p, o
<1>6. call'[c] = [call[c] EXCEPT !.op = op, !.st = "sent"]
      /\ \A d \in Calls : d # c => call'[d] = call[d]
  BY <1>1, <1>5
<1> DEFINE r == [call[c] EXCEPT !.op = op, !.st = "sent"]
<1>7. /\ r \in CallRecords /\ r.op = op /\ r.st = "sent" /\ r.id = 0 /\ r.result = "none"
  BY <1>1, <1>2, <1>5 DEF CallRecords, CallStates, KnownNow, Known
<1>8. SysTypeOK'
  BY <1>1, <1>2, <1>6, <1>7 DEF SysInv, SysTypeOK, TypeInv
<1>9. Growing
  <2>1. \A d \in Calls : call[d].op = "DAPP_DISCONNECT" => call'[d].op = "DAPP_DISCONNECT"
    BY <1>1, <1>6, <1>7 DEF SysInv, CallsKnown, KnownNow, Known
  <2>2. Leaving \subseteq Leaving'
    BY <2>1 DEF Leaving
  <2>3. Lasting
    BY <1>3 DEF Lasting, SysInv, TypeInv, TypeOK
  <2> QED BY <1>1, <2>2, <2>3 DEF Growing
<1>10. StillExcusing(StillExcused)
  <2>1. Excusing(StillExcused)
    BY <1>9, ExcusedNow
  <2> DEFINE x == StillExcused
  <2> HIDE DEF x
  <2>2. Excusing(x)
    BY <2>1 DEF x
  <2>3. StillExcusing(x)
    BY <2>2, <1>2, <1>3, <1>4, BeginProper DEF SysInv
  <2> QED BY <2>3 DEF x
<1>11. RowsProper' /\ TasksProper'
  BY <1>9, <1>10, ExcusedNext
<1>12. /\ task[t].pc = "idle"
       /\ task'[t].op = op /\ task'[t].origin = o /\ task'[t].id = 0
       /\ \A u \in Tasks \ {t} : task'[u] = task[u]
  BY <1>3, BeginSlot DEF SysInv
<1>13. Serves(c, task[t])'
  BY <1>2, <1>6, <1>7, <1>12 DEF Serves, o
<1>14. Linked'
  <2>1. client[t] = NoClient
    BY <1>12 DEF SysInv, Linked, TasksProper, Proper
  <2>2. client' # client
    BY <1>1, <1>5, <2>1, ClientsAssumption
  <2> QED BY <1>1, <1>2, <1>6, <1>12, <1>13, <2>2, NewClient
<1>15. CallsKnown'
  <2>1. KnownNow(r, o)
    BY <1>2, <1>5, <1>7 DEF KnownNow, Known
  <2>2. KnownNext(r, o)
    BY <1>7, <1>9, <2>1, KnownLater
  <2> QED BY <1>6, <1>9, <2>2, CallsLater DEF o
<1>16. Leavers'
  <2>1. op = "DAPP_DISCONNECT" => o \in Leaving'
    BY <1>6, <1>7 DEF Leaving, o
  <2> QED BY <1>9, <1>12, <2>1 DEF SysInv, Leavers, Growing
<1>17. TrulyRejected' /\ SignedAreSigns'
  BY <1>1, <1>3 DEF SysInv, TrulyRejected, SignedAreSigns
<1> QED BY <1>8, <1>11, <1>14, <1>15, <1>16, <1>17 DEF SysInv

\* A step that creates no request, signs nothing and starts no call.
LEMMA QuietGrowing ==
  ASSUME SysInv, UNCHANGED <<nextId, request, signed>>, userApproved \subseteq userApproved',
         dismissed \subseteq dismissed', \A c \in Calls : call'[c].op = call[c].op
  PROVE  Growing /\ Leaving' = Leaving /\ SignedAreSigns'
<1>1. Leaving' = Leaving
  BY DEF Leaving
<1>2. Lasting
  BY DEF Lasting, SysInv, TypeInv, TypeOK
<1> QED BY <1>1, <1>2 DEF Growing, SysInv, SignedAreSigns

\* A message of the poll or of a surface arrives.
LEMMA MessageKeeps ==
  ASSUME SysInv, TypeInv', Consent', NEW t \in Tasks,
         NEW op \in UiOps \cup {"WINDOW_CLOSED", "DAPP_POLL_REQUEST_RESULT"},
         NEW p \in {"poll", "get", "mark", "list"}, NEW o, NEW i, NEW yes,
         Begin(t, op, p, o, i, yes), Growing, Leaving' = Leaving, UNCHANGED <<store, request>>,
         (op \in Decisions /\ ~yes) => Excuse(i, request, StillExcused)
  PROVE  RowsProper' /\ TasksProper' /\ Leavers'
<1>1. op \in HandlerOps /\ op \notin {"DAPP_GET_PUBLIC_KEY", "DAPP_DISCONNECT"}
      /\ p \in Pcs \ {"idle", "next", "clear", "allow", "prepare", "resolve"}
  BY PcNames DEF HandlerOps, DappOps, UiOps, RowsPcs
<1> DEFINE x == StillExcused
<1>2. Excusing(x)
  BY ExcusedNow
<1> HIDE DEF x
<1>3. (op \in Decisions /\ ~yes) => Excuse(i, request, x)
  BY DEF x
<1>4. StillExcusing(x)
  BY <1>1, <1>2, <1>3, BeginProper DEF SysInv
<1>5. RowsProper' /\ TasksProper'
  BY <1>4, ExcusedNext DEF x
<1>6. task'[t].op = op /\ \A u \in Tasks \ {t} : task'[u] = task[u]
  BY BeginSlot DEF SysInv
<1> QED BY <1>1, <1>5, <1>6 DEF SysInv, Leavers

LEMMA AskKeeps ==
  ASSUME SysInv, TypeInv', Consent', NEW c \in Calls, NEW t \in Tasks, Ask(c, t) PROVE SysInv'
<1> DEFINE o == CallOrigin[c]
           i == call[c].id
           r == [call[c] EXCEPT !.st = "asking"]
           op == "DAPP_POLL_REQUEST_RESULT"
           p == "poll"
<1>1. /\ Begin(t, op, p, o, i, FALSE)
      /\ UNCHANGED <<store, nextId, request, userApproved, signed>>
      /\ UNCHANGED <<ui, outbox, removed, dismissed, revoked, restarts>>
      /\ client' = [client EXCEPT ![t] = c] /\ call[c].st = "polling"
  BY DEF Ask, Poll, persistent, catalog, history
<1>2. /\ call[c] \in CallRecords /\ KnownNow(call[c], o)
      /\ client \in [Tasks -> Calls \cup Surfaces \cup {NoClient}]
  BY DEF SysInv, SysTypeOK, CallsKnown
<1>3. r \in CallRecords /\ r.op = call[c].op /\ r.st = "asking" /\ r.id = i
      /\ r.result = call[c].result
  BY <1>2 DEF CallRecords, CallStates
<1>4. call'[c] = r /\ \A d \in Calls : d # c => call'[d] = call[d]
  BY DEF Ask, SysInv, SysTypeOK
<1>5. SysTypeOK'
  <2>1. call' \in [Calls -> CallRecords]
    BY <1>3 DEF Ask, SysInv, SysTypeOK
  <2> QED BY <1>1, <2>1 DEF SysInv, SysTypeOK, TypeInv
<1>6. Growing /\ Leaving' = Leaving /\ SignedAreSigns'
  BY <1>1, <1>3, <1>4, QuietGrowing
<1>7. RowsProper' /\ TasksProper' /\ Leavers'
  <2>1. op \in UiOps \cup {"WINDOW_CLOSED", "DAPP_POLL_REQUEST_RESULT"} /\ op \notin Decisions
        /\ p \in {"poll", "get", "mark", "list"}
    BY DEF Decisions
  <2> HIDE DEF op, p, o, i
  <2> QED BY <1>1, <1>6, <2>1, MessageKeeps
<1>8. /\ task[t].pc = "idle"
      /\ task'[t].op = op /\ task'[t].origin = o /\ task'[t].id = i
      /\ \A u \in Tasks \ {t} : task'[u] = task[u]
  <2> HIDE DEF op, p, o, i
  <2> QED BY <1>1, BeginSlot DEF SysInv
<1>9. Linked'
  <2>1. client[t] = NoClient
    BY <1>8 DEF SysInv, Linked, TasksProper, Proper
  <2>2. client' # client
    BY <1>1, <1>2, <2>1, ClientsAssumption
  <2>3. Serves(c, task[t])'
    BY <1>3, <1>4, <1>8 DEF Serves, DappOps
  <2>4. task'[t].op \notin {"idle", "WINDOW_CLOSED"}
    BY <1>8
  <2> HIDE DEF op, p, o, i, r
  <2> QED BY <1>1, <1>4, <1>8, <2>2, <2>3, <2>4, NewClient
<1>10. CallsKnown'
  <2>1. KnownNow(r, o)
    BY <1>1, <1>2, <1>3 DEF KnownNow, Known
  <2>2. r.id \in Ids \cup {0}
    BY <1>3 DEF CallRecords
  <2> HIDE DEF r
  <2>3. KnownNext(r, o)
    BY <1>6, <2>1, <2>2, KnownLater
  <2> QED BY <1>4, <1>6, <2>3, CallsLater
<1>11. TrulyRejected'
  BY <1>1 DEF SysInv, TrulyRejected
<1> QED BY <1>5, <1>6, <1>7, <1>9, <1>10, <1>11 DEF SysInv

\* A surface lists, decides or confirms.
LEMMA UiKeeps ==
  ASSUME SysInv, TypeInv', Consent', NEW s \in Surfaces, NEW t \in Tasks,
         LoadPending(s, t) \/ Decide(s, t) \/ Confirm(s, t)
  PROVE  SysInv'
<1>1. UiSends(s, t) /\ UNCHANGED <<nextId, request, signed, store>>
  BY DEF LoadPending, Decide, Confirm, ListPending, Resolve, Execute, persistent, catalog, history
<1>2. /\ dismissed \subseteq dismissed' /\ dismissed' \subseteq Ids
      /\ userApproved \subseteq userApproved'
      /\ ui' \in [Surfaces -> [open : BOOLEAN, shown : SUBSET Ids, busy : BOOLEAN]]
  BY DEF LoadPending, Decide, Confirm, ListPending, Resolve, Execute, history, SysInv, SysTypeOK
<1>3. SysTypeOK'
  BY <1>1, <1>2 DEF UiSends, SysInv, SysTypeOK, TypeInv
<1>4. Growing /\ Leaving' = Leaving /\ SignedAreSigns'
  BY <1>1, <1>2, QuietGrowing DEF UiSends
<1>5. \E op \in UiOps, p \in {"get", "mark", "list"}, i \in Ids \cup {0}, yes \in BOOLEAN :
         /\ Begin(t, op, p, NoOrigin, i, yes)
         /\ (op \in Decisions /\ ~yes) => Excuse(i, request, StillExcused)
  <2>1. CASE LoadPending(s, t)
    BY <2>1 DEF LoadPending, ListPending, UiOps, Decisions
  <2>2. CASE Decide(s, t)
    <3>1. PICK i \in Ids, yes \in BOOLEAN :
            /\ i < nextId /\ Begin(t, "RESOLVE_PENDING_DAPP_REQUEST", "get", NoOrigin, i, yes)
            /\ ~yes => i \in dismissed'
      BY <2>2 DEF Decide, Resolve
    <3>2. ~yes => Excuse(i, request, StillExcused)
      BY <3>1 DEF Excuse, StillExcused
    <3> QED BY <3>1, <3>2 DEF UiOps
  <2>3. CASE Confirm(s, t)
    <3>1. PICK i \in Ids :
            /\ request[i].kind = "externalSignReview"
            /\ Begin(t, "EXECUTE_DAPP_EXTERNAL_SIGN", "mark", NoOrigin, i, FALSE)
      BY <2>3 DEF Confirm, Execute
    <3>2. Excuse(i, request, StillExcused)
      BY <3>1 DEF Excuse
    <3> QED BY <3>1, <3>2 DEF UiOps
  <2> QED BY <2>1, <2>2, <2>3
<1>6. PICK op \in UiOps, p \in {"get", "mark", "list"}, i \in Ids \cup {0}, yes \in BOOLEAN :
         /\ Begin(t, op, p, NoOrigin, i, yes)
         /\ (op \in Decisions /\ ~yes) => Excuse(i, request, StillExcused)
  BY <1>5
<1>7. RowsProper' /\ TasksProper' /\ Leavers'
  BY <1>1, <1>4, <1>6, MessageKeeps
<1>8. Linked'
  <2>1. /\ task[t].pc = "idle" /\ task'[t].op = op /\ \A u \in Tasks \ {t} : task'[u] = task[u]
    BY <1>6, BeginSlot DEF SysInv
  <2>2. op \notin {"idle", "WINDOW_CLOSED"} /\ s \notin Calls
    BY ClientsAssumption DEF UiOps
  <2> QED BY <1>1, <2>1, <2>2, NewClient DEF UiSends
<1>9. CallsKnown'
  BY <1>1, <1>4, CallsLater DEF UiSends
<1>10. TrulyRejected'
  BY <1>1, <1>2 DEF UiSends, SysInv, TrulyRejected
<1> QED BY <1>3, <1>4, <1>7, <1>8, <1>9, <1>10 DEF SysInv

\* A rejection sent by a surface that went away, or its window's onRemoved.
LEMMA GoneKeeps ==
  ASSUME SysInv, TypeInv', Consent', NEW t \in Tasks, Dismiss(t) \/ WindowRemoved(t)
  PROVE  SysInv'
<1>1. /\ UNCHANGED <<nextId, request, signed, store, userApproved>>
      /\ UNCHANGED <<call, client, ui, dismissed, revoked, restarts>>
      /\ outbox' \subseteq outbox /\ removed' \subseteq removed
  BY DEF Dismiss, WindowRemoved, Resolve, WindowClosed, vars, persistent, catalog, history
<1>2. SysTypeOK'
  BY <1>1 DEF SysInv, SysTypeOK, TypeInv
<1>3. Growing /\ Leaving' = Leaving /\ SignedAreSigns'
  BY <1>1, QuietGrowing
<1>4. \/ UNCHANGED vars
      \/ \E op \in UiOps \cup {"WINDOW_CLOSED"}, p \in {"get", "list"}, i \in Ids \cup {0}, yes \in BOOLEAN :
            /\ Begin(t, op, p, NoOrigin, i, yes)
            /\ (op \in Decisions /\ ~yes) => Excuse(i, request, StillExcused)
  <2>1. CASE Dismiss(t)
    <3>1. PICK i \in outbox :
            i < nextId /\ Begin(t, "RESOLVE_PENDING_DAPP_REQUEST", "get", NoOrigin, i, FALSE)
      BY <2>1 DEF Dismiss, Resolve
    <3>2. i \in dismissed'
      BY <1>1 DEF SysInv, TrulyRejected
    <3>3. Excuse(i, request, StillExcused)
      BY <3>1, <3>2 DEF Excuse, StillExcused
    <3>4. i \in Ids
      BY DEF SysInv, SysTypeOK
    <3> QED BY <3>1, <3>3, <3>4 DEF UiOps
  <2>2. CASE WindowRemoved(t)
    <3> DEFINE op == "WINDOW_CLOSED"
    <3>1. UNCHANGED vars \/ Begin(t, op, "list", NoOrigin, 0, FALSE)
      BY <2>2 DEF WindowRemoved, WindowClosed
    <3>2. op \notin Decisions /\ op \in UiOps \cup {"WINDOW_CLOSED"}
      BY DEF Decisions
    <3> HIDE DEF op
    <3> QED BY <3>1, <3>2
  <2> QED BY <2>1, <2>2
<1>5. CASE UNCHANGED vars
  <2>1. StillExcusing(StillExcused)
    BY <1>3, <1>5, ExcusedNow DEF Excusing, StillExcusing, vars, persistent, catalog
  <2>2. RowsProper' /\ TasksProper'
    BY <1>3, <2>1, ExcusedNext
  <2>3. Linked' /\ Leavers'
    BY <1>1, <1>3, <1>5 DEF SysInv, Linked, Serves, Leavers, vars
  <2>4. CallsKnown'
    BY <1>1, <1>3, CallsLater
  <2> QED BY <1>1, <1>2, <1>3, <2>2, <2>3, <2>4 DEF SysInv, TrulyRejected
<1>6. ASSUME NEW op \in UiOps \cup {"WINDOW_CLOSED"}, NEW p \in {"get", "list"},
             NEW i \in Ids \cup {0}, NEW yes \in BOOLEAN, Begin(t, op, p, NoOrigin, i, yes),
             (op \in Decisions /\ ~yes) => Excuse(i, request, StillExcused)
      PROVE  SysInv'
  <2>1. RowsProper' /\ TasksProper' /\ Leavers'
    BY <1>1, <1>3, <1>6, MessageKeeps
  <2>2. /\ task[t].pc = "idle" /\ \A u \in Tasks \ {t} : task'[u] = task[u]
    BY <1>6, BeginSlot DEF SysInv
  <2> DEFINE k == NoClient
  <2>3. k \notin Calls
    BY ClientsAssumption
  <2>4. Linked'
    BY <1>1, <2>2, <2>3, NewClient
  <2>5. CallsKnown'
    BY <1>1, <1>3, CallsLater
  <2> QED BY <1>1, <1>2, <1>3, <2>1, <2>4, <2>5 DEF SysInv, TrulyRejected
<1> QED BY <1>4, <1>5, <1>6

\* A step of a handler: windows open and close with what they show.
LEMMA BackgroundKeeps ==
  ASSUME SysInv, TypeInv', Consent', NEW t \in Tasks, Background(t) PROVE SysInv'
<1> DEFINE closed == tracked \ tracked'
           gone   == UNION {ui[s].shown : s \in closed}
           x      == StillExcused
<1>1. /\ Handle(t) /\ UNCHANGED <<call, removed, revoked, restarts>>
      /\ outbox' = outbox \cup gone
      /\ dismissed' = dismissed \cup SweptBy(t) \cup gone
      /\ \A u \in Tasks : client'[u] \in {client[u], NoClient}
  <2>1. client' = [u \in Tasks |-> IF client[u] \in closed THEN NoClient ELSE client[u]]
    BY DEF Background
  <2>2. Handle(t) /\ UNCHANGED <<call, removed, revoked, restarts>>
    BY DEF Background
  <2>3. outbox' = outbox \cup gone
    BY Zenon DEF Background
  <2>4. dismissed' = dismissed \cup SweptBy(t) \cup gone
    BY Zenon DEF Background
  <2> HIDE DEF closed, gone
  <2> QED BY <2>1, <2>2, <2>3, <2>4
<1>2. closed \subseteq Surfaces
  BY DEF SysInv, TypeInv, TypeOK, Surfaces
<1>3. gone \subseteq Ids /\ SweptBy(t) \subseteq Ids
  BY <1>2 DEF SysInv, SysTypeOK, SweptBy, ToReject, LiveIds
<1>4. SysTypeOK'
  <2>1. ui' \in [Surfaces -> [open : BOOLEAN, shown : SUBSET Ids, busy : BOOLEAN]]
    BY DEF Background, SysInv, SysTypeOK, Closed
  <2>2. client' \in [Tasks -> Calls \cup Surfaces \cup {NoClient}]
    BY DEF Background, SysInv, SysTypeOK
  <2> QED BY <1>1, <1>3, <2>1, <2>2 DEF SysInv, SysTypeOK, TypeInv
<1>5. Lasting /\ SignedAreSigns' /\ Leaving' = Leaving
  BY <1>1, HandleLasting DEF SysInv, Leaving
<1>6. Growing
  BY <1>1, <1>5 DEF Growing
<1>7. SweptBy(t) \subseteq x
  <2> SUFFICES ASSUME NEW i \in SweptBy(t) PROVE i \in StillExcused
    OBVIOUS
  <2>1. i \in Ids /\ task[t].rows[i].status # "none"
    BY DEF SweptBy, ToReject, LiveIds, Live, LiveStatuses
  <2>2. i < nextId
    BY <2>1 DEF SysInv, Consent, TasksHonest, Honest, RowsEarned
  <2> QED BY <1>1, <2>1, <2>2 DEF StillExcused
<1>8. task[t].op = "DAPP_DISCONNECT" =>
        \A i \in Ids : (i < nextId /\ request[i].origin = task[t].origin) => i \in x
  BY <1>5 DEF SysInv, Leavers, StillExcused
<1>9. Excusing(x)
  BY <1>6, ExcusedNow
<1> HIDE DEF x, gone, closed
<1>10. StillExcusing(x)
  BY <1>1, <1>7, <1>8, <1>9, HandleProper DEF SysInv
<1>11. RowsProper' /\ TasksProper'
  BY <1>6, <1>10, ExcusedNext DEF x
<1>12. \A u \in Tasks : Same(task[u], task'[u])
  BY <1>1, HandleSame DEF SysInv, TasksProper, Proper
<1>13. Linked'
  <2>1. ASSUME NEW u \in Tasks, task'[u].op \in {"idle", "WINDOW_CLOSED"}
        PROVE  client'[u] = NoClient
    BY <1>1, <1>12, <2>1 DEF SysInv, Linked, Same
  <2>2. ASSUME NEW u \in Tasks, client'[u] \in Calls
        PROVE  Serves(client[u], task[u])'
    <3>1. client'[u] = client[u] /\ Serves(client[u], task[u])
      BY <1>1, <2>2, ClientsAssumption DEF SysInv, Linked
    <3>2. task[u].op # "WINDOW_CLOSED"
      BY <3>1 DEF Serves, DappOps, Requests
    <3> QED BY <1>1, <1>12, <3>1, <3>2 DEF Serves, Same
  <2>3. ASSUME NEW u \in Tasks, NEW v \in Tasks, client'[u] \in Calls, client'[v] = client'[u]
        PROVE  u = v
    BY <1>1, <2>3, ClientsAssumption DEF SysInv, Linked
  <2> QED BY <2>1, <2>2, <2>3 DEF Linked
<1>14. CallsKnown'
  BY <1>1, <1>6, CallsLater
<1>15. Leavers'
  <2> SUFFICES ASSUME NEW u \in Tasks, task'[u].op = "DAPP_DISCONNECT"
               PROVE  task'[u].origin \in Leaving'
    BY DEF Leavers
  <2>1. task[u].op = "DAPP_DISCONNECT" /\ task'[u].origin = task[u].origin
    BY <1>12 DEF Same, Idle, DappOps
  <2> QED BY <1>5, <2>1 DEF SysInv, Leavers
<1>16. TrulyRejected'
  BY <1>1 DEF SysInv, TrulyRejected
<1> QED BY <1>4, <1>5, <1>11, <1>13, <1>14, <1>15, <1>16 DEF SysInv

\* What the page of call c makes of the answer of the handler with record r.
LEMMA HeardKnown ==
  ASSUME SysInv, NEW c \in Calls, NEW t \in Tasks, client[t] = c,
         NEW n, n = Heard(c, task[t].ret, task[t].id)[c]
  PROVE  /\ KnownNow(n, CallOrigin[c]) /\ n \in CallRecords /\ n.op = call[c].op
         /\ Heard(c, task[t].ret, task[t].id) = [call EXCEPT ![c] = n]
<1> DEFINE a == task[t].ret
           i == task[t].id
           k == call[c]
           o == CallOrigin[c]
<1>1. /\ k \in CallRecords /\ call \in [Calls -> CallRecords] /\ KnownNow(k, o)
      /\ task[t] \in TaskRecords /\ a \in Answers /\ i \in Ids \cup {0}
      /\ Proper(task[t], request, Excused)
      /\ Honest(task[t], nextId, request, userApproved, signed)
      /\ Serves(c, task[t])
  BY DEF SysInv, SysTypeOK, CallsKnown, TypeInv, TypeOK, TasksProper, Consent, TasksHonest,
         Linked, TaskRecords
<1> DEFINE first == [k EXCEPT !.st = "polling", !.id = i]
           again == [k EXCEPT !.st = "polling"]
           done  == [k EXCEPT !.st = "done", !.result = a]
           h     == Heard(c, a, i)
<1>2. \/ k.st = "sent" /\ a = "pending" /\ h = [call EXCEPT ![c] = first]
      \/ k.st = "asking" /\ a = "pending" /\ h = [call EXCEPT ![c] = again]
      \/ k.st \in {"sent", "asking"} /\ a # "pending" /\ h = [call EXCEPT ![c] = done]
      \/ k.st \notin {"sent", "asking"} /\ h = [call EXCEPT ![c] = k]
  <2>1. CASE k.st = "sent" /\ a = "pending"
    <3>1. h = [call EXCEPT ![c].st = "polling", ![c].id = i]
      BY <2>1 DEF Heard
    <3> QED BY <1>1, <2>1, <3>1
  <2>2. CASE k.st = "asking" /\ a = "pending"
    <3>1. h = [call EXCEPT ![c].st = "polling"]
      BY <2>2 DEF Heard
    <3> QED BY <1>1, <2>2, <3>1
  <2>3. CASE k.st \in {"sent", "asking"} /\ a # "pending"
    <3>1. h = [call EXCEPT ![c].st = "done", ![c].result = a]
      BY <2>3 DEF Heard, Settled
    <3> QED BY <1>1, <2>3, <3>1
  <2>4. CASE k.st \notin {"sent", "asking"}
    <3>1. h = call
      BY <2>4 DEF Heard
    <3> QED BY <1>1, <2>4, <3>1
  <2> QED BY <2>1, <2>2, <2>3, <2>4
<1>6. /\ h = [call EXCEPT ![c] = n]
      /\ \/ k.st = "sent" /\ a = "pending" /\ n = first
         \/ k.st = "asking" /\ a = "pending" /\ n = again
         \/ k.st \in {"sent", "asking"} /\ a # "pending" /\ n = done
         \/ k.st \notin {"sent", "asking"} /\ n = k
  <2>1. n = h[c] /\ DOMAIN call = Calls
    BY <1>1
  <2> HIDE DEF h, k, first, again, done
  <2> QED BY <1>2, <2>1
<1>3. n \in CallRecords /\ n.op = k.op
  BY <1>1, <1>6 DEF CallRecords, CallStates
<1>4. Heard(c, a, i) = [call EXCEPT ![c] = n]
  BY <1>6
<1>5. KnownNow(n, o)
  <2>1. CASE k.st = "sent" /\ a = "pending" /\ n = [k EXCEPT !.st = "polling", !.id = i]
    <3>1. n.st = "polling" /\ n.id = i /\ n.op = k.op /\ n.result = "none"
      BY <1>1, <2>1 DEF CallRecords, KnownNow, Known
    <3>2. i \in Ids /\ i < nextId /\ k.op = task[t].op /\ task[t].origin = o
      BY <1>1, <2>1 DEF Proper, Honest, Serves
    <3> HIDE DEF i, k, o
    <3>3. n.op = "DAPP_GET_PUBLIC_KEY" =>
            request[i] = [origin |-> o, kind |-> "getPublicKey"]
      BY <1>1, <3>1, <3>2 DEF Proper, Ids, i
    <3> QED BY <3>1, <3>2, <3>3 DEF KnownNow, Known
  <2>2. CASE k.st = "asking" /\ a = "pending" /\ n = [k EXCEPT !.st = "polling"]
    <3>1. n.st = "polling" /\ n.id = k.id /\ n.op = k.op /\ n.result = k.result
      BY <1>1, <2>2 DEF CallRecords
    <3> QED BY <1>1, <2>2, <3>1 DEF KnownNow, Known
  <2>3. CASE k.st \in {"sent", "asking"} /\ a # "pending"
             /\ n = [k EXCEPT !.st = "done", !.result = a]
    <3>1. n.st = "done" /\ n.id = k.id /\ n.op = k.op /\ n.result = a
      BY <1>1, <2>3 DEF CallRecords
    <3>2. a = "connected" => Granted(o, request, userApproved)
      BY <1>1 DEF Honest, Serves
    <3>3. a = "signed" => /\ k.id \in signed
                          /\ request[k.id] = [origin |-> o, kind |-> "externalSignReview"]
      <4> SUFFICES ASSUME a = "signed"
                   PROVE  /\ k.id \in signed
                          /\ request[k.id] = [origin |-> o, kind |-> "externalSignReview"]
        OBVIOUS
      <4>1. task[t].op = "DAPP_POLL_REQUEST_RESULT" /\ k.id = i
            /\ request[i].kind = "externalSignReview"
        BY <1>1 DEF Proper, Serves
      <4>2. i \in signed /\ request[i].origin = o
        BY <1>1 DEF Honest, Serves
      <4>3. request[i] \in [origin : Origins \cup {NoOrigin}, kind : Kinds]
        BY <4>2 DEF SysInv, TypeInv, TypeOK
      <4> QED BY <4>1, <4>2, <4>3
    <3>4. (k.op = "DAPP_GET_PUBLIC_KEY" /\ k.id # 0 /\ a = "rejected") => k.id \in Excused
      <4> SUFFICES ASSUME k.op = "DAPP_GET_PUBLIC_KEY", k.id # 0, a = "rejected"
                   PROVE  k.id \in Excused
        OBVIOUS
      <4>1. task[t].op = "DAPP_POLL_REQUEST_RESULT" /\ k.id = i
        BY <1>1 DEF Serves
      <4>2. Excuse(i, request, Excused) /\ request[i].kind = "getPublicKey"
        BY <1>1, <4>1 DEF Proper, KnownNow, Known
      <4> QED BY <1>1, <4>1, <4>2 DEF Excuse
    <3> QED BY <1>1, <3>1, <3>2, <3>3, <3>4 DEF KnownNow, Known
  <2>4. CASE n = k
    BY <1>1, <2>4
  <2> QED BY <1>6, <2>1, <2>2, <2>3, <2>4
<1> QED BY <1>3, <1>4, <1>5

\* The answer of the handler in slot t reaches whoever asked.
LEMMA DeliverKeeps ==
  ASSUME SysInv, TypeInv', Consent', NEW t \in Tasks, Deliver(t) PROVE SysInv'
<1> DEFINE k == client[t]
           x == StillExcused
<1>1. /\ Reply(t) /\ client' = [client EXCEPT ![t] = NoClient]
      /\ call' = IF k \in Calls THEN Heard(k, task[t].ret, task[t].id) ELSE call
      /\ UNCHANGED <<outbox, removed, dismissed, restarts>>
      /\ UNCHANGED <<store, nextId, request, userApproved, signed>>
  BY DEF Deliver, Reply, persistent, catalog, history
<1>2. /\ call \in [Calls -> CallRecords] /\ task[t] \in TaskRecords
      /\ client \in [Tasks -> Calls \cup Surfaces \cup {NoClient}]
  BY DEF SysInv, SysTypeOK, TypeInv, TypeOK
<1>3. /\ call' \in [Calls -> CallRecords]
      /\ \A c \in Calls : /\ call'[c].op = call[c].op
                          /\ call'[c] = call[c] \/ (c = k /\ KnownNow(call'[c], CallOrigin[c]))
  <2>1. CASE k \notin Calls
    BY <1>1, <1>2, <2>1
  <2>2. CASE k \in Calls
    <3> DEFINE n == Heard(k, task[t].ret, task[t].id)[k]
    <3>1. /\ KnownNow(n, CallOrigin[k]) /\ n \in CallRecords /\ n.op = call[k].op
          /\ call' = [call EXCEPT ![k] = n]
      BY <1>1, <2>2, HeardKnown
    <3> HIDE DEF n
    <3> QED BY <1>2, <3>1
  <2> QED BY <2>1, <2>2
<1>4. SysTypeOK'
  <2>1. task[t].todo \subseteq Ids
    BY <1>2 DEF TaskRecords
  <2>2. ui' \in [Surfaces -> [open : BOOLEAN, shown : SUBSET Ids, busy : BOOLEAN]]
    BY <2>1 DEF Deliver, SysInv, SysTypeOK
  <2>3. client' \in [Tasks -> Calls \cup Surfaces \cup {NoClient}]
    BY <1>1, <1>2
  <2>4. revoked' \subseteq Ids
    BY DEF Deliver, SysInv, SysTypeOK, TypeOK
  <2> QED BY <1>1, <1>3, <2>2, <2>3, <2>4 DEF SysInv, SysTypeOK, TypeInv
<1>5. Growing /\ Leaving' = Leaving /\ SignedAreSigns'
  BY <1>1, <1>3, QuietGrowing
<1>6. RowsProper' /\ TasksProper'
  <2>1. Excusing(x)
    BY <1>5, ExcusedNow
  <2> HIDE DEF x
  <2>2. StillExcusing(x)
    BY <1>1, <2>1, ReplyProper DEF SysInv
  <2> QED BY <1>5, <2>2, ExcusedNext DEF x
<1>7. task'[t] = Idle /\ \A u \in Tasks \ {t} : task'[u] = task[u] /\ client'[u] = client[u]
  BY <1>1, <1>2 DEF Reply, SysInv, TypeInv, TypeOK
<1>8. Linked'
  <2>1. client'[t] = NoClient /\ NoClient \notin Calls
    BY <1>1, <1>2, ClientsAssumption
  <2>2. ASSUME NEW u \in Tasks, client'[u] \in Calls PROVE Serves(client[u], task[u])'
    <3>1. u # t /\ client[u] # k /\ Serves(client[u], task[u]) /\ task'[u] = task[u]
          /\ client'[u] = client[u]
      BY <1>7, <2>1, <2>2 DEF SysInv, Linked
    <3>2. call'[client[u]] = call[client[u]]
      BY <1>3, <2>2, <3>1
    <3> QED BY <3>1, <3>2 DEF Serves
  <2>3. ASSUME NEW u \in Tasks, task'[u].op \in {"idle", "WINDOW_CLOSED"}
        PROVE  client'[u] = NoClient
    BY <1>7, <2>1, <2>3 DEF SysInv, Linked
  <2>4. ASSUME NEW u \in Tasks, NEW v \in Tasks, client'[u] \in Calls, client'[v] = client'[u]
        PROVE  u = v
    BY <1>7, <2>1, <2>4 DEF SysInv, Linked
  <2> QED BY <2>2, <2>3, <2>4 DEF Linked
<1>9. CallsKnown'
  <2>1. ASSUME NEW c \in Calls, KnownNow(call'[c], CallOrigin[c])
        PROVE  KnownNext(call'[c], CallOrigin[c])
    <3>1. call'[c].id \in Ids \cup {0}
      BY <1>3 DEF CallRecords
    <3> QED BY <1>5, <2>1, <3>1, KnownLater
  <2> QED BY <1>3, <1>5, <2>1, CallsLater
<1>10. Leavers' /\ TrulyRejected'
  BY <1>1, <1>5, <1>7 DEF SysInv, Leavers, TrulyRejected, Idle
<1> QED BY <1>4, <1>5, <1>6, <1>8, <1>9, <1>10 DEF SysInv

\* A page gives up, a surface opens or goes away: no handler runs.
LEMMA AsideKeeps ==
  ASSUME SysInv, TypeInv', Consent',
         (\E c \in Calls : Timeout(c)) \/ (\E s \in Surfaces : Hide(s)) \/ OpenToolbar
  PROVE  SysInv'
<1>1. UNCHANGED vars
  BY DEF Timeout, Hide, OpenToolbar
<1>2. UNCHANGED <<store, nextId, request, userApproved, signed, task>>
  BY <1>1 DEF vars, persistent, catalog, history
<1>3. /\ dismissed \subseteq dismissed' /\ dismissed' \subseteq Ids /\ outbox' \subseteq dismissed'
      /\ removed' \subseteq Windows /\ UNCHANGED <<revoked, restarts>>
  BY DEF Timeout, Hide, OpenToolbar, SysInv, SysTypeOK, TrulyRejected
<1>4. ui' \in [Surfaces -> [open : BOOLEAN, shown : SUBSET Ids, busy : BOOLEAN]]
  <2> DEFINE U == [open : BOOLEAN, shown : SUBSET Ids, busy : BOOLEAN]
  <2>1. ui \in [Surfaces -> U] /\ Toolbar \in Surfaces
    BY DEF SysInv, SysTypeOK, Surfaces
  <2>2. Closed \in U /\ [Closed EXCEPT !.open = TRUE] \in U
    BY DEF Closed
  <2>3. CASE \E c \in Calls : Timeout(c)
    BY <2>1, <2>3 DEF Timeout
  <2>4. CASE \E s \in Surfaces : Hide(s)
    <3> HIDE DEF U
    <3>1. ui' \in [Surfaces -> U]
      BY <2>1, <2>2, <2>4 DEF Hide
    <3> QED BY <3>1 DEF U
  <2>5. CASE OpenToolbar
    <3> HIDE DEF U
    <3>1. ui' \in [Surfaces -> U]
      BY <2>1, <2>2, <2>5 DEF OpenToolbar
    <3> QED BY <3>1 DEF U
  <2> QED BY <2>3, <2>4, <2>5
<1>5. /\ client' \in [Tasks -> Calls \cup Surfaces \cup {NoClient}]
      /\ \A u \in Tasks : client'[u] \in {client[u], NoClient}
  BY DEF Timeout, Hide, OpenToolbar, SysInv, SysTypeOK
<1>6. /\ call' \in [Calls -> CallRecords]
      /\ \A c \in Calls : \/ call'[c] = call[c]
                          \/ /\ call'[c] = [call[c] EXCEPT !.st = "done", !.result = "timeout"]
                             /\ call[c].st \in {"sent", "polling", "asking"}
  <2>1. call \in [Calls -> CallRecords]
    BY DEF SysInv, SysTypeOK
  <2>2. CASE \E c \in Calls : Timeout(c)
    <3>1. PICK c \in Calls : Timeout(c)
      BY <2>2
    <3> DEFINE r == [call[c] EXCEPT !.st = "done", !.result = "timeout"]
    <3>2. r \in CallRecords
      BY <2>1 DEF CallRecords, CallStates
    <3>3. call[c].st \in {"sent", "polling", "asking"} /\ call' = Settled(c, "timeout")
      BY <3>1 DEF Timeout
    <3>4. call' = [call EXCEPT ![c] = r]
      BY <2>1, <3>3 DEF Settled, CallRecords
    <3>5. \A d \in Calls : call'[d] = IF d = c THEN r ELSE call[d]
      BY <2>1, <3>4
    <3>6. call' \in [Calls -> CallRecords]
      BY <2>1, <3>2, <3>4
    <3> QED BY <3>3, <3>5, <3>6
  <2>3. CASE UNCHANGED call
    BY <2>1, <2>3
  <2> QED BY <2>2, <2>3 DEF Hide, OpenToolbar
<1>7. SysTypeOK'
  <2>1. outbox' \subseteq Ids
    BY <1>3
  <2> QED BY <1>3, <1>4, <1>5, <1>6, <2>1 DEF SysInv, SysTypeOK, TypeInv
<1>8. \A c \in Calls : /\ call'[c].op = call[c].op /\ call'[c].id = call[c].id
                       /\ call'[c].st \in {call[c].st, "done"}
  <2> SUFFICES ASSUME NEW c \in Calls
               PROVE  /\ call'[c].op = call[c].op /\ call'[c].id = call[c].id
                      /\ call'[c].st \in {call[c].st, "done"}
    OBVIOUS
  <2>1. call[c] \in CallRecords
    BY DEF SysInv, SysTypeOK
  <2>2. CASE call'[c] = call[c]
    BY <2>2
  <2>3. CASE call'[c] = [call[c] EXCEPT !.st = "done", !.result = "timeout"]
    BY <2>1, <2>3 DEF CallRecords
  <2> QED BY <1>6, <2>2, <2>3
<1>9. Growing /\ Leaving' = Leaving /\ SignedAreSigns'
  BY <1>2, <1>3, <1>8, QuietGrowing
<1>10. RowsProper' /\ TasksProper'
  <2>1. StillExcusing(StillExcused)
    BY <1>2, <1>9, ExcusedNow DEF Excusing, StillExcusing
  <2> QED BY <1>9, <2>1, ExcusedNext
<1>11. Linked'
  BY <1>2, <1>5, <1>8, ClientsAssumption DEF SysInv, Linked, Serves
<1>12. CallsKnown'
  <2>1. ASSUME NEW c \in Calls, call'[c] # call[c]
        PROVE  KnownNext(call'[c], CallOrigin[c])
    <3> DEFINE n == call'[c]
    <3>1. /\ call[c] \in CallRecords /\ KnownNow(call[c], CallOrigin[c])
      BY DEF SysInv, SysTypeOK, CallsKnown
    <3>2. /\ n.id = call[c].id /\ n.op = call[c].op /\ n.st = "done" /\ n.result = "timeout"
      BY <1>6, <2>1, <3>1 DEF CallRecords
    <3>3. n.id \in Ids \cup {0}
      BY <3>1, <3>2 DEF CallRecords
    <3> HIDE DEF n
    <3>4. KnownNow(n, CallOrigin[c])
      BY <3>1, <3>2 DEF KnownNow, Known
    <3>5. KnownNext(n, CallOrigin[c])
      BY <1>9, <3>3, <3>4, KnownLater
    <3> QED BY <3>5 DEF n
  <2> QED BY <1>9, <2>1, CallsLater
<1>13. Leavers' /\ TrulyRejected'
  BY <1>2, <1>3, <1>9 DEF SysInv, Leavers, TrulyRejected
<1> QED BY <1>7, <1>9, <1>10, <1>11, <1>12, <1>13 DEF SysInv

\* The service worker is stopped: its clients lose their answers.
LEMMA RestartKeeps ==
  ASSUME SysInv, TypeInv', Consent', Restart PROVE SysInv'
<1> DEFINE x == StillExcused
<1>1. /\ SwRestart /\ UNCHANGED <<store, nextId, request, userApproved, signed>>
      /\ UNCHANGED <<outbox, removed, dismissed, revoked>>
      /\ client' = [t \in Tasks |-> NoClient]
      /\ \A u \in Tasks : task'[u] = Idle
      /\ restarts' = restarts + 1 /\ restarts < MaxRestarts
  BY DEF Restart, SwRestart, ForgetMemory, persistent, catalog, history
<1>2. ASSUME NEW c \in Calls
      PROVE  /\ call'[c] \in CallRecords /\ call'[c].op = call[c].op
             /\ KnownNow(call'[c], CallOrigin[c])
  <2>1. call'[c] = Dead(c) /\ call[c] \in CallRecords /\ KnownNow(call[c], CallOrigin[c])
    BY DEF Restart, SysInv, SysTypeOK, CallsKnown
  <2>2. CASE call[c].st = "sent"
    <3> DEFINE n == [call[c] EXCEPT !.st = "done", !.result = "unreachable"]
    <3>1. call'[c] = n
      BY <2>1, <2>2 DEF Dead
    <3>2. /\ n \in CallRecords /\ n.op = call[c].op /\ n.id = call[c].id /\ n.st = "done"
          /\ n.result = "unreachable"
      BY <2>1 DEF CallRecords, CallStates
    <3> HIDE DEF n
    <3> QED BY <2>1, <3>1, <3>2 DEF KnownNow, Known
  <2>3. CASE call[c].st = "asking"
    <3> DEFINE n == [call[c] EXCEPT !.st = "polling"]
    <3>1. call'[c] = n
      BY <2>1, <2>3 DEF Dead
    <3>2. /\ n \in CallRecords /\ n.op = call[c].op /\ n.id = call[c].id /\ n.st = "polling"
          /\ n.result = call[c].result
      BY <2>1 DEF CallRecords, CallStates
    <3> HIDE DEF n
    <3> QED BY <2>1, <2>3, <3>1, <3>2 DEF KnownNow, Known
  <2>4. CASE call[c].st \notin {"sent", "asking"}
    BY <2>1, <2>4 DEF Dead
  <2> QED BY <2>2, <2>3, <2>4
<1>3. call' \in [Calls -> CallRecords]
  BY <1>2 DEF Restart
<1>4. SysTypeOK'
  <2>1. ui' \in [Surfaces -> [open : BOOLEAN, shown : SUBSET Ids, busy : BOOLEAN]]
    BY DEF Restart, SysInv, SysTypeOK
  <2>2. restarts' \in 0..MaxRestarts
    BY <1>1, MaxRestartsAssumption DEF SysInv, SysTypeOK
  <2> QED BY <1>1, <1>3, <2>1, <2>2 DEF SysInv, SysTypeOK, TypeInv
<1>5. Growing /\ Leaving' = Leaving /\ SignedAreSigns'
  BY <1>1, <1>2, QuietGrowing
<1>6. RowsProper' /\ TasksProper'
  <2>1. Excusing(x)
    BY <1>5, ExcusedNow
  <2> HIDE DEF x
  <2>2. StillExcusing(x)
    BY <1>1, <2>1, RestartProper
  <2> QED BY <1>5, <2>2, ExcusedNext DEF x
<1>7. CallsKnown'
  <2>1. ASSUME NEW c \in Calls PROVE KnownNext(call'[c], CallOrigin[c])
    <3>1. call'[c].id \in Ids \cup {0}
      BY <1>2 DEF CallRecords
    <3> QED BY <1>2, <1>5, <3>1, KnownLater
  <2> QED BY <1>5, <2>1, CallsLater
<1>8. Linked'
  BY <1>1, ClientsAssumption DEF Linked
<1>9. Leavers' /\ TrulyRejected'
  BY <1>1 DEF SysInv, Leavers, TrulyRejected, Idle
<1> QED BY <1>4, <1>5, <1>6, <1>7, <1>8, <1>9 DEF SysInv

\* Time passes.
LEMMA OutsideKeeps ==
  ASSUME SysInv, TypeInv', Consent', Outside PROVE SysInv'
<1> DEFINE x == StillExcused
<1>1. /\ UNCHANGED <<call, client, ui, outbox, removed, dismissed, revoked, restarts>>
      /\ UNCHANGED <<nextId, request, userApproved, signed>>
      /\ Tick \/ UNCHANGED <<store, task>>
  BY DEF Outside, Tick, CooldownOver, persistent, catalog, history
<1>2. SysTypeOK'
  BY <1>1 DEF SysInv, SysTypeOK, TypeInv
<1>3. Growing /\ Leaving' = Leaving /\ SignedAreSigns'
  BY <1>1, QuietGrowing
<1>4. RowsProper' /\ TasksProper'
  <2>1. Excusing(x)
    BY <1>3, ExcusedNow
  <2> HIDE DEF x
  <2>2. StillExcusing(x)
    BY <1>1, <2>1, TickProper DEF SysInv, Excusing, StillExcusing
  <2> QED BY <1>3, <2>2, ExcusedNext DEF x
<1>5. \A u \in Tasks : /\ task'[u].op = task[u].op /\ task'[u].origin = task[u].origin
                       /\ task'[u].id = task[u].id
  BY <1>1 DEF Tick, SysInv, TypeInv, TypeOK, TaskRecords
<1>6. Linked'
  BY <1>1, <1>5 DEF SysInv, Linked, Serves
<1>7. CallsKnown'
  BY <1>1, <1>3, CallsLater
<1>8. Leavers' /\ TrulyRejected'
  BY <1>1, <1>3, <1>5 DEF SysInv, Leavers, TrulyRejected
<1> QED BY <1>2, <1>3, <1>4, <1>6, <1>7, <1>8 DEF SysInv

-----------------------------------------------------------------------------
LEMMA InitSys == SysInit => SysInv
<1> SUFFICES ASSUME SysInit PROVE SysInv
  OBVIOUS
<1>1. TypeInv /\ Consent /\ nextId = 1
  BY InitType, InitConsent DEF SysInit, Init
<1>2. SysTypeOK
  BY <1>1, MaxRestartsAssumption
  DEF SysInit, TypeInv, SysTypeOK, CallRecords, CallStates, Answers, Closed
<1>3. RowsProper /\ TasksProper
  BY EmptyExcused, IdleProper DEF SysInit, Init, RowsProper, TasksProper
<1>4. Linked /\ Leavers
  BY ClientsAssumption DEF SysInit, Init, Linked, Leavers, Idle
<1>5. CallsKnown
  BY <1>1 DEF SysInit, CallsKnown, KnownNow, Known
<1> QED BY <1>1, <1>2, <1>3, <1>4, <1>5 DEF SysInit, Init, SysInv, SignedAreSigns, TrulyRejected

LEMMA NextSys == SysInv /\ [SysNext]_sysVars => SysInv'
<1> SUFFICES ASSUME SysInv, [SysNext]_sysVars PROVE SysInv'
  OBVIOUS
<1>1. CASE UNCHANGED sysVars
  <2>1. UNCHANGED vars
    BY <1>1 DEF sysVars
  <2>2. TypeInv' /\ Consent'
    BY <2>1, NextType, NextConsent DEF SysInv
  <2>3. UNCHANGED <<store, task, nextId, request, userApproved, signed, call, client, ui, outbox,
                    removed, dismissed, revoked, restarts>>
    BY <1>1, <2>1 DEF sysVars, vars, persistent, catalog, history
  <2> QED BY <2>2, <2>3
          DEF SysInv, SysTypeOK, TypeInv, RowsProper, TasksProper, SignedAreSigns, Leavers,
              TrulyRejected, Linked, Serves, CallsKnown, KnownNow, Excused, Leaving
<1>2. CASE SysNext
  <2>1. TypeInv' /\ Consent'
    BY <1>2, SysStep, NextType, NextConsent DEF SysInv
  <2> QED BY <1>2, <2>1, SendKeeps, AskKeeps, UiKeeps, GoneKeeps, BackgroundKeeps, DeliverKeeps,
             AsideKeeps, RestartKeeps, OutsideKeeps DEF SysNext
<1> QED BY <1>1, <1>2

\* The inductive invariant of the closed system, in every reachable state.
THEOREM SystemKept == SysSpec => []SysInv
  BY InitSys, NextSys, PTL DEF SysSpec

\* Calls, handlers, surfaces and the service worker hold what the code gives
\* them, in every reachable state.
THEOREM SystemTyped == SysSpec => []SysTypeOK
<1>1. SysInv => SysTypeOK
  BY DEF SysInv
<1> QED BY <1>1, SystemKept, PTL

\* A page hears "connected" only after the user approved a connect request of
\* its origin, whatever closed, timed out or restarted meanwhile.
THEOREM ConnectedEarned == SysSpec => []ConnectedIsEarned
<1>1. SysInv => ConnectedIsEarned
  BY DEF SysInv, CallsKnown, KnownNow, Known, Granted, Consented, ConnectedIsEarned
<1> QED BY <1>1, SystemKept, PTL

\* A page hears "signed" only if the transaction of this very call was signed.
THEOREM SignedEarned == SysSpec => []SignedIsEarned
<1>1. SysInv => SignedIsEarned
  BY DEF SysInv, CallsKnown, KnownNow, Known, SignedIsEarned
<1> QED BY <1>1, SystemKept, PTL

\* A page hears "rejected" only if the user, a surface that went away or its own
\* disconnect rejected the request: never for an expiry or a restart.
THEOREM RejectedByTheUser == SysSpec => []OnlyTheUserRejects
<1>1. SysInv => OnlyTheUserRejects
  <2> SUFFICES ASSUME SysInv, NEW c \in Calls, Asks(c, "DAPP_GET_PUBLIC_KEY"),
                      call[c].result = "rejected"
               PROVE  \/ call[c].id \in dismissed
                      \/ \E d \in Calls : call[d].op = "DAPP_DISCONNECT"
                                          /\ CallOrigin[d] = CallOrigin[c]
    BY DEF OnlyTheUserRejects
  <2>1. KnownNow(call[c], CallOrigin[c])
    BY DEF SysInv, CallsKnown
  <2>2. call[c].op = "DAPP_GET_PUBLIC_KEY" /\ call[c].id # 0
    BY DEF Asks
  <2>3. /\ request[call[c].id].origin = CallOrigin[c] /\ call[c].id \in Excused
    BY <2>1, <2>2 DEF KnownNow, Known
  <2> QED BY <2>3 DEF Excused, Leaving
<1> QED BY <1>1, SystemKept, PTL

=============================================================================
