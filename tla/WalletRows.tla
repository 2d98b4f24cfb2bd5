----------------------------- MODULE WalletRows -----------------------------
(***************************************************************************)
(* The rows of the store of wallets, for every number of handlers, rows,   *)
(* signers and wallets, whatever overlaps.  A behaviour of WalletUse       *)
(* exercises one of its parts and leaves the others where they started, so *)
(* it is a behaviour of each: the invariant of a part is proved from its   *)
(* own initial states and steps, and carried over.                         *)
(***************************************************************************)
EXTENDS WalletUse, SequenceTheorems, FiniteSetTheorems, WellFoundedInduction, TLAPS

\* Every step of a behaviour is a step, or none, of each of its parts.
LEMMA StoreOnly == [UseNext]_useVars => [SyncNext]_syncVars
BY DEF UseNext, useVars, Using

\* A record with these fields.
Shaped(r, fields) == DOMAIN r = fields /\ r = [f \in fields |-> r[f]]

-----------------------------------------------------------------------------
(* Lists of rows. *)

\* A set of numbers with a member has a least one.
LEMMA LeastOf == ASSUME NEW S, S \subseteq Nat, S # {} PROVE \E m \in S : \A n \in S : m <= n
<1>1. PICK m \in S : \A n \in S : <<n, m>> \notin OpToRel(<, Nat)
  BY NatLessThanWellFounded, WFMin
<1>2. \A n \in S : ~(n < m)
  BY <1>1 DEF OpToRel
<1> QED BY <1>2

\* The first row of a list that is in a set is in both, if there is one.
LEMMA FirstIsThere ==
  ASSUME NEW list, DOMAIN list \subseteq Nat, NEW rows
  PROVE  IF RangeOf(list) \cap rows = {} THEN FirstOf(list, rows) = None
         ELSE FirstOf(list, rows) \in RangeOf(list) \cap rows
<1>. DEFINE at == {i \in DOMAIN list : list[i] \in rows}
<1>1. at = {} <=> RangeOf(list) \cap rows = {}
  BY DEF RangeOf
<1>2. CASE at = {}
  BY <1>1, <1>2 DEF FirstOf
<1>3. CASE at # {}
  <2>1. \E i \in at : \A j \in at : i <= j
    BY <1>3, LeastOf
  <2>2. FirstOf(list, rows) = list[CHOOSE i \in at : \A j \in at : i <= j]
    BY <1>3 DEF FirstOf
  <2>3. (CHOOSE i \in at : \A j \in at : i <= j) \in at
    BY <2>1
  <2> QED BY <1>1, <1>3, <2>2, <2>3 DEF RangeOf
<1> QED BY <1>2, <1>3

\* A list, of whatever rows.
IsList(list) == list \in Seq(RangeOf(list))

LEMMA ListOfMore ==
  ASSUME NEW S, NEW list \in Seq(S) PROVE IsList(list) /\ RangeOf(list) \subseteq S
<1>1. /\ Len(list) \in Nat /\ list \in [1..Len(list) -> S] /\ DOMAIN list = 1..Len(list)
  BY LenProperties
<1>2. list \in [1..Len(list) -> RangeOf(list)] /\ RangeOf(list) \subseteq S
  BY <1>1 DEF RangeOf
<1> QED BY <1>1, <1>2, SeqDef DEF IsList

LEMMA ListIsSeq ==
  ASSUME NEW list, IsList(list), NEW S, RangeOf(list) \subseteq S PROVE list \in Seq(S)
<1>1. Len(list) \in Nat /\ list \in [1..Len(list) -> RangeOf(list)]
  BY LenProperties DEF IsList
<1>2. list \in [1..Len(list) -> S]
  BY <1>1
<1> QED BY <1>1, <1>2, SeqDef

LEMMA ListDomain == ASSUME NEW list, IsList(list)
                    PROVE Len(list) \in Nat /\ DOMAIN list = 1..Len(list) /\ DOMAIN list \subseteq Nat
BY LenProperties DEF IsList

LEMMA NoRows ==
  IsList(<<>>) /\ RangeOf(<<>>) = {} /\ \A list : IsList(list) /\ RangeOf(list) = {} => list = <<>>
<1>1. <<>> \in Seq({}) /\ RangeOf(<<>>) = {}
  BY EmptySeq DEF RangeOf
<1>2. ASSUME NEW list, IsList(list), RangeOf(list) = {} PROVE list = <<>>
  <2>1. list \in Seq({})
    BY <1>2 DEF IsList
  <2>2. Len(list) = 0
    <3>1. DOMAIN list = 1..Len(list) /\ Len(list) \in Nat
      BY <1>2, ListDomain
    <3>2. DOMAIN list = {}
      BY <1>2 DEF RangeOf
    <3> QED BY <3>1, <3>2
  <2> QED BY <2>1, <2>2, EmptySeq
<1> QED BY <1>1, <1>2, ListOfMore

\* One more row at the end.
LEMMA AppendedRows ==
  ASSUME NEW list, IsList(list), NEW r
  PROVE  IsList(Append(list, r)) /\ RangeOf(Append(list, r)) = RangeOf(list) \cup {r}
<1>. DEFINE more == Append(list, r)
            S == RangeOf(list) \cup {r}
<1>1. list \in Seq(S) /\ r \in S
  BY ListIsSeq
<1>2. /\ more \in Seq(S) /\ Len(more) = Len(list) + 1 /\ more[Len(list) + 1] = r
      /\ \A i \in 1..Len(list) : more[i] = list[i]
  BY <1>1, AppendProperties
<1>3. Len(list) \in Nat /\ DOMAIN list = 1..Len(list)
  BY ListDomain
<1>4. DOMAIN more = 1..(Len(list) + 1)
  BY <1>2, LenProperties
<1>5. 1..(Len(list) + 1) = 1..Len(list) \cup {Len(list) + 1}
  BY <1>3
<1>. HIDE DEF more, S
<1>6. RangeOf(more) = RangeOf(list) \cup {r}
  BY <1>2, <1>3, <1>4, <1>5 DEF RangeOf
<1>7. IsList(more)
  BY <1>2, ListOfMore
<1> QED BY <1>6, <1>7 DEF more

\* A row is put in the place of the rows with its id, or at the end.
LEMMA UpsertedRows ==
  ASSUME NEW list, IsList(list), NEW r
  PROVE  /\ IsList(Upserted(list, r))
         /\ r \in RangeOf(Upserted(list, r))
         /\ RangeOf(Upserted(list, r)) = {a \in RangeOf(list) : a.id # r.id} \cup {r}
         /\ IdsOf(Upserted(list, r)) = IdsOf(list) \cup {r.id}
         /\ Upserted(list, r) # <<>>
<1>1. CASE r.id \in IdsOf(list)
  <2>. DEFINE new == [i \in DOMAIN list |-> IF list[i].id = r.id THEN r ELSE list[i]]
              S == RangeOf(list) \cup {r}
  <2>1. Upserted(list, r) = new
    BY <1>1 DEF Upserted
  <2>2. Len(list) \in Nat /\ DOMAIN list = 1..Len(list)
    BY ListDomain
  <2>3. new \in [1..Len(list) -> S]
    BY <2>2 DEF RangeOf
  <2>4. new \in Seq(S)
    BY <2>2, <2>3, SeqDef
  <2>5. PICK i \in DOMAIN list : list[i].id = r.id
    BY <1>1 DEF IdsOf, RangeOf
  <2>6. RangeOf(new) = {a \in RangeOf(list) : a.id # r.id} \cup {r}
    BY <2>5 DEF RangeOf
  <2>. HIDE DEF new
  <2>7. IsList(new) /\ r \in RangeOf(new) /\ new # <<>>
    BY <2>4, <2>6, ListOfMore, NoRows
  <2>8. IdsOf(new) = IdsOf(list) \cup {r.id}
    BY <2>6 DEF IdsOf
  <2> QED BY <2>1, <2>6, <2>7, <2>8
<1>2. CASE r.id \notin IdsOf(list)
  <2>. DEFINE new == Append(list, r)
  <2>1. Upserted(list, r) = new
    BY <1>2 DEF Upserted
  <2>2. IsList(new) /\ RangeOf(new) = RangeOf(list) \cup {r}
    BY AppendedRows
  <2>. HIDE DEF new
  <2>3. RangeOf(list) = {a \in RangeOf(list) : a.id # r.id}
    BY <1>2 DEF IdsOf
  <2>4. IdsOf(new) = IdsOf(list) \cup {r.id} /\ new # <<>>
    BY <2>2, NoRows DEF IdsOf
  <2> QED BY <2>1, <2>2, <2>3, <2>4
<1> QED BY <1>1, <1>2

\* The rows of a list that are in a set, up to the n-th: as the filter computes them.
MoreOf(r, rows, s) == IF r \in rows THEN Append(s, r) ELSE s
Filters(list, rows, n, f) ==
    f = [i \in 0..n |-> IF i = 0 THEN <<>> ELSE MoreOf(list[i], rows, f[i - 1])]

LEMMA FilterExists ==
  ASSUME NEW list, NEW rows, NEW N \in Nat PROVE \E f : Filters(list, rows, N, f)
<1>. DEFINE T == {n \in Nat : ~ \E f : Filters(list, rows, n, f)}
<1>1. SUFFICES ASSUME T # {} PROVE FALSE
  OBVIOUS
<1>2. PICK m \in T : \A n \in T : m <= n
  <2>1. T \subseteq Nat
    OBVIOUS
  <2>. HIDE DEF T
  <2> QED BY <1>1, <2>1, LeastOf
<1>3. CASE m = 0
  <2>1. Filters(list, rows, 0, [i \in 0..0 |-> <<>>])
    BY DEF Filters, MoreOf
  <2> QED BY <2>1, <1>3
<1>4. CASE m # 0
  <2>1. m - 1 \in Nat /\ ~(m <= m - 1)
    BY <1>4
  <2>2. PICK g : Filters(list, rows, m - 1, g)
    BY <1>2, <2>1
  <2>. DEFINE f == [i \in 0..m |-> IF i < m THEN g[i] ELSE MoreOf(list[m], rows, g[m - 1])]
  <2>3. ASSUME NEW i \in 0..m PROVE f[i] = IF i = 0 THEN <<>> ELSE MoreOf(list[i], rows, f[i - 1])
    <3>1. CASE i < m
      <4>1. i \in 0..(m - 1) /\ f[i] = g[i]
        BY <3>1
      <4>2. i # 0 => i - 1 \in 0..(m - 1) /\ f[i - 1] = g[i - 1]
        BY <3>1
      <4>3. g[i] = IF i = 0 THEN <<>> ELSE MoreOf(list[i], rows, g[i - 1])
        BY <2>2, <4>1 DEF Filters
      <4> QED BY <4>1, <4>2, <4>3
    <3>2. CASE i = m
      <4>1. f[m] = MoreOf(list[m], rows, g[m - 1]) /\ f[m - 1] = g[m - 1]
        BY <2>1
      <4> QED BY <4>1, <3>2, <1>4
    <3> QED BY <3>1, <3>2
  <2>4. f = [i \in 0..m |-> f[i]]
    OBVIOUS
  <2>. HIDE DEF f
  <2>5. Filters(list, rows, m, f)
    BY <2>3, <2>4, Zenon DEF Filters
  <2> QED BY <2>5
<1> QED BY <1>3, <1>4

\* A filter of a list is a list of the rows that are in the set.
LEMMA ThoseRows ==
  ASSUME NEW list, IsList(list), NEW rows
  PROVE  IsList(Those(list, rows)) /\ RangeOf(Those(list, rows)) = RangeOf(list) \cap rows
<1>. DEFINE N == Len(list)
            f == CHOOSE g : Filters(list, rows, N, g)
            Good(n) == IsList(f[n]) /\ RangeOf(f[n]) = {list[i] : i \in 1..n} \cap rows
            T == {n \in 0..N : ~Good(n)}
<1>1. N \in Nat /\ DOMAIN list = 1..N
  BY ListDomain
<1>2. Filters(list, rows, N, f) /\ Those(list, rows) = f[N]
  <2>1. Filters(list, rows, N, f)
    BY <1>1, FilterExists
  <2> QED BY <2>1 DEF Those, Filters, MoreOf
<1>. HIDE DEF f
<1>3. f[0] = <<>> /\ \A n \in 1..N : f[n] = MoreOf(list[n], rows, f[n - 1])
  BY <1>1, <1>2 DEF Filters
<1>4. Good(0)
  BY <1>3, NoRows
<1>5. ASSUME NEW n \in 1..N, Good(n - 1) PROVE Good(n)
  <2>1. f[n] = MoreOf(list[n], rows, f[n - 1]) /\ 1..n = 1..(n - 1) \cup {n}
    BY <1>1, <1>3
  <2>2. {list[i] : i \in 1..n} = {list[i] : i \in 1..(n - 1)} \cup {list[n]}
    BY <2>1
  <2>3. CASE list[n] \in rows
    <3>. DEFINE g == f[n - 1]
                r == list[n]
    <3>1. f[n] = Append(g, r) /\ IsList(g) /\ RangeOf(g) = {list[i] : i \in 1..(n - 1)} \cap rows
      BY <1>5, <2>1, <2>3 DEF MoreOf
    <3>. HIDE DEF g
    <3>2. IsList(f[n]) /\ RangeOf(f[n]) = RangeOf(g) \cup {r}
      BY <3>1, AppendedRows
    <3> QED BY <2>2, <2>3, <3>1, <3>2
  <2>4. CASE list[n] \notin rows
    BY <1>5, <2>1, <2>2, <2>4 DEF MoreOf
  <2> QED BY <2>3, <2>4
<1>6. T = {}
  <2>. SUFFICES ASSUME T # {} PROVE FALSE
    OBVIOUS
  <2>1. PICK m \in T : \A n \in T : m <= n
    <3>1. T \subseteq Nat
      BY <1>1
    <3>. HIDE DEF T
    <3> QED BY <3>1, LeastOf
  <2>2. m \in 0..N /\ ~Good(m)
    OBVIOUS
  <2>3. m # 0
    BY <2>2, <1>4
  <2>4. m - 1 \in 0..N /\ ~(m <= m - 1) /\ m \in 1..N
    BY <2>2, <2>3, <1>1
  <2>5. Good(m - 1)
    BY <2>1, <2>4
  <2>. HIDE DEF Good
  <2> QED BY <1>5, <2>2, <2>4, <2>5
<1>7. Good(N)
  <2>. HIDE DEF Good
  <2> QED BY <1>1, <1>6
<1>8. RangeOf(list) = {list[i] : i \in 1..N}
  BY <1>1 DEF RangeOf
<1> QED BY <1>2, <1>7, <1>8

\* A list without the rows of one id.
LEMMA WithoutRows ==
  ASSUME NEW list, IsList(list), NEW id
  PROVE  /\ IsList(Without(list, id))
         /\ RangeOf(Without(list, id)) = {r \in RangeOf(list) : r.id # id}
         /\ IdsOf(Without(list, id)) = IdsOf(list) \ {id}
<1>. DEFINE left == Without(list, id)
<1>1. IsList(left) /\ RangeOf(left) = {r \in RangeOf(list) : r.id # id}
  BY ThoseRows DEF Without
<1>. HIDE DEF left
<1>2. IdsOf(left) = IdsOf(list) \ {id}
  BY <1>1 DEF IdsOf
<1> QED BY <1>1, <1>2 DEF left

LEMMA FirstIdIsThere ==
  ASSUME NEW list, IsList(list)
  PROVE  IF list = <<>> THEN FirstId(list) = None ELSE FirstId(list) \in IdsOf(list)
<1>1. CASE list # <<>>
  <2>1. RangeOf(list) # {}
    BY <1>1, NoRows
  <2>2. 1 \in DOMAIN list
    BY <2>1, ListDomain DEF RangeOf
  <2> QED BY <1>1, <2>2 DEF FirstId, IdsOf, RangeOf
<1> QED BY <1>1 DEF FirstId

-----------------------------------------------------------------------------
(* The handlers of the store. *)

TaskFields == {"op", "pc", "arg", "net", "list", "act", "row", "then", "remember", "mine", "inv",
               "gone", "todo", "made", "hit", "bag", "next", "phase", "ret", "draft",
               "count", "before"}

ApiOps == {"CREATE_OR_CONNECT_PASSKEY", "PASSKEY_REG_FINISH", "PASSKEY_AUTH_FINISH",
           "IMPORT_MNEMONIC_ACCOUNT"}
SyncOps == {"SYNC", "ENSURE"}
SyncLabels == {"sync", "syncInvites", "syncRemoved", "dropSession", "list", "wallets", "ensured",
               "invites", "preview", "predict", "ownDraft", "draft", "register", "known",
               "confirm", "activateNew"}

NameLabels == {"peek", "seeding", "ceremony", "finish", "confirmRead", "confirmWrite"}

\* The operations whose handlers come to a label.
MayBeAt(op, label) ==
    /\ label = "before" => op = "CREATE_OR_CONNECT_PASSKEY"
    /\ label = "api" => op \in ApiOps
    /\ label \in {"create", "upsert", "write"} => op \in ApiOps \cup SyncOps \cup {"ADD_EXISTING", "CREATE_LOCAL"}
    /\ label = "unremove" => op = "PASSKEY_AUTH_FINISH"
    /\ label = "seed" => op = "IMPORT_MNEMONIC_ACCOUNT"
    /\ label \in {"unlock", "match"} => op = "UNLOCK_MNEMONIC_VAULT"
    /\ label = "read" => op \in {"SET_ACTIVE_ACCOUNT", "RENAME_ACCOUNT", "DELETE_ACCOUNT", "SYNC"}
    /\ label = "activate" => op \in {"SET_ACTIVE_ACCOUNT", "SYNC"}
    /\ label = "rename" => op = "RENAME_ACCOUNT"
    /\ label \in {"delete", "unvault", "denylist", "cleared"} => op = "DELETE_ACCOUNT"
    /\ label = "setup" => op \in {"DELETE_ACCOUNT", "GET_ACCOUNTS"}
    /\ label \in {"repair", "repairNext", "patch"} => op = "GET_ACCOUNTS"
    /\ label \in {"logout", "unvaultAll", "wipe"} => op = "LOGOUT"
    /\ label \in {"peek", "seeding", "ceremony", "finish", "confirmRead", "confirmWrite"} =>
          op = "PASSKEY_CONFIRM_SEQ"
    /\ label = "health" => op = "SET_DEVELOPER_MODE"
    /\ label \in SyncLabels => op \in SyncOps
    /\ label \in {"listOne", "lastResort"} => op = "ENSURE"
    /\ label \in {"verify", "readd"} => op = "ADD_EXISTING"
    /\ label = "local" => op = "CREATE_LOCAL"
    /\ label = "note" => op \in SyncOps
    /\ label \in {"add", "noted"} => op \in SyncOps \cup {"ADD_INVITE"}
    /\ label \in {"clear", "cleared1"} => op \in SyncOps \cup {"REMOVE_INVITE"}
    /\ label = "draftMeta" => op = "DRAFT_META"

\* Where a handler goes on after a write of the rows, and in a sync after a note of an
\* invite, with one invite and after all of it.
Thens  == {"done", "unremove", "seed", "ensured", "readd", "listOne"}
Nexts  == {"done", "predict", "draft", "confirm", "wallets", "clear"}
Phases == {"wallets", "invites", "activateNew"}
Rets   == {"done", "listOne", "end"}

Controlled(r) ==
    /\ Shaped(r, TaskFields)
    /\ r.then \in Thens /\ r.next \in Nexts /\ r.phase \in Phases /\ r.ret \in Rets
    /\ r.pc # "idle" =>
         /\ r.op \in scene.ops /\ MayBeAt(r.op, r.pc) /\ MayBeAt(r.op, r.then)
         /\ r.op \in {"ADD_INVITE", "GET_ACCOUNTS"} => r.next = "done"
         /\ r.op = "SET_DEVELOPER_MODE" => r.arg \in BOOLEAN
         /\ r.op # "ENSURE" => r.ret = "done"

\* One handler at a time.
Alone == \A t, u \in Tasks : tasks[t].pc # "idle" /\ tasks[u].pc # "idle" => t = u

ControlKept ==
    /\ scene \in Scenes /\ dev \in BOOLEAN
    /\ DOMAIN tasks = Tasks /\ tasks = [t \in Tasks |-> tasks[t]]
    /\ \A t \in Tasks : Controlled(tasks[t])
    /\ scene.busy = 1 => Alone

LEMMA NoTaskControlled == Controlled(NoTask) /\ NoTask.pc = "idle"
BY DEF Controlled, Shaped, TaskFields, NoTask, MayBeAt, Thens, Nexts, Phases, Rets, SyncLabels

LEMMA ControlStarts == SyncInit => ControlKept
BY NoTaskControlled DEF SyncInit, Init, ControlKept, Alone

\* The handler t goes on, with its operation, or ends; the others stand still.
Moved(t) ==
    /\ tasks' = [tasks EXCEPT ![t] = tasks'[t]] /\ tasks[t].pc # "idle"
    /\ Controlled(tasks'[t]) /\ (tasks'[t] = NoTask \/ tasks'[t].op = tasks[t].op)
    /\ UNCHANGED scene /\ dev' \in BOOLEAN

LEMMA MovedKeeps == ASSUME ControlKept, NEW t \in Tasks, Moved(t) PROVE ControlKept'
<1>. DEFINE r == tasks'[t]
<1>1. tasks' = [tasks EXCEPT ![t] = r] /\ tasks[t].pc # "idle" /\ Controlled(r) /\ UNCHANGED scene
      /\ dev' \in BOOLEAN
  BY DEF Moved
<1>. HIDE DEF r
<1> QED BY <1>1 DEF ControlKept, Controlled, Alone

LEMMA MovesTo ==
  ASSUME ControlKept, NEW t \in Tasks, NEW r, tasks' = [tasks EXCEPT ![t] = r], Controlled(r),
         r = NoTask \/ r.op = tasks[t].op, tasks[t].pc # "idle", UNCHANGED scene, dev' \in BOOLEAN
  PROVE  Moved(t)
BY DEF ControlKept, Moved

\* A handler goes on at a label of its operation, with what it was to do after.
Continues(T, r) ==
    /\ Shaped(r, TaskFields) /\ r.op = T.op /\ MayBeAt(T.op, r.pc)
    /\ T.op = "SET_DEVELOPER_MODE" => r.arg = T.arg
    /\ r.then = T.then /\ r.next = T.next /\ r.phase = T.phase /\ r.ret = T.ret

LEMMA ContinuesMoves ==
  ASSUME ControlKept, NEW t \in Tasks, NEW r, tasks' = [tasks EXCEPT ![t] = r],
         Continues(tasks[t], r), tasks[t].pc # "idle", UNCHANGED <<scene, dev>>
  PROVE  Moved(t)
<1>1. Controlled(tasks[t]) /\ dev' \in BOOLEAN
  BY DEF ControlKept
<1>2. Controlled(r) /\ r.op = tasks[t].op
  BY <1>1 DEF Controlled, Continues
<1> QED BY <1>1, <1>2, MovesTo

LEMMA GotoMoves ==
  ASSUME ControlKept, NEW t \in Tasks, NEW label, Goto(t, label), MayBeAt(tasks[t].op, label),
         tasks[t].pc # "idle", UNCHANGED <<scene, dev>>
  PROVE  Moved(t)
<1>. DEFINE r == [tasks[t] EXCEPT !.pc = label]
<1>1. Continues(tasks[t], r)
  BY DEF ControlKept, Controlled, Continues, Shaped, TaskFields
<1>2. tasks' = [tasks EXCEPT ![t] = r]
  BY DEF Goto
<1>. HIDE DEF r
<1> QED BY <1>1, <1>2, ContinuesMoves

LEMMA FinishMoves ==
  ASSUME ControlKept, NEW t \in Tasks, Finish(t), tasks[t].pc # "idle", UNCHANGED scene,
         dev' \in BOOLEAN
  PROVE  Moved(t)
BY NoTaskControlled, MovesTo DEF Finish

LEMMA StartControlled ==
  ASSUME ControlKept, NEW t \in Tasks, NEW op, NEW label, NEW arg, Start(t, op, label, arg),
         MayBeAt(op, label), op = "SET_DEVELOPER_MODE" => arg \in BOOLEAN
  PROVE  ControlKept'
<1>. DEFINE r == [NoTask EXCEPT !.op = op, !.pc = label, !.arg = arg]
<1>1. Shaped(NoTask, TaskFields) /\ NoTask.then = "done" /\ NoTask.next = "done"
      /\ NoTask.phase = "wallets" /\ NoTask.ret = "done"
  BY DEF Shaped, TaskFields, NoTask
<1>2. Shaped(r, TaskFields) /\ r.op = op /\ r.pc = label /\ r.arg = arg /\ r.then = "done" /\ r.next = "done"
      /\ r.phase = "wallets" /\ r.ret = "done"
  <2>. HIDE DEF NoTask
  <2> QED BY <1>1 DEF Shaped, TaskFields
<1>3. tasks' = [tasks EXCEPT ![t] = r] /\ UNCHANGED <<scene, dev>> /\ op \in scene.ops
  BY DEF Start
<1>. HIDE DEF r
<1>4. Controlled(r)
  BY <1>2, <1>3 DEF Controlled, MayBeAt, Thens, Nexts, Phases, Rets, SyncLabels
<1>5. ASSUME scene.busy = 1, NEW u \in Tasks PROVE tasks[u].pc = "idle"
  <2>1. IsFiniteSet(Busy) /\ Cardinality(Busy) \in Nat
    BY WalletAssumption, FS_Subset, FS_CardinalityType DEF Busy
  <2>2. Cardinality(Busy) = 0
    BY <1>5, <2>1 DEF Start
  <2>3. Busy = {}
    BY <2>1, <2>2, FS_EmptySet
  <2> QED BY <2>3 DEF Busy
<1> QED BY <1>3, <1>4, <1>5 DEF ControlKept, Controlled, Alone

\* A step of naming a passkey: the handler goes on at one of these labels, or ends.
LEMMA NamingIs ==
  ASSUME ControlKept, NEW t \in Tasks, NamingStep(t)
  PROVE  /\ UNCHANGED <<scene, dev, store, keys, sid, displaced, nextId, invites, meta>>
         /\ tasks[t].pc \in NameLabels
         /\ tasks' = [tasks EXCEPT ![t] = tasks'[t]]
         /\ \/ Finish(t)
            \/ /\ Continues(tasks[t], tasks'[t])
               /\ tasks'[t].pc \in (NameLabels \ {"peek"}) \cup {"done"}
               /\ tasks'[t].net = tasks[t].net /\ tasks'[t].made = tasks[t].made
<1>. DEFINE T == tasks[t]
            Onward == /\ tasks' = [tasks EXCEPT ![t] = tasks'[t]]
                     /\ \/ Finish(t)
                        \/ /\ Continues(T, tasks'[t])
                           /\ tasks'[t].pc \in (NameLabels \ {"peek"}) \cup {"done"}
                           /\ tasks'[t].net = T.net /\ tasks'[t].made = T.made
<1>1. UNCHANGED <<scene, dev, store, keys, sid, displaced, nextId, invites, meta>> /\ T.pc \in NameLabels
  BY DEF NamingStep, PeekSeq, PeekFails, SeedSeq, Ceremony, FinishNamed, ConfirmRead, ConfirmWrite, At,
         NameLabels
<1>. HIDE DEF Onward
<1>. SUFFICES Onward
  BY <1>1 DEF Onward
<1>2. Controlled(T) /\ DOMAIN tasks = Tasks
  BY DEF ControlKept
<1>3. Shaped(T, TaskFields) /\ T.op = "PASSKEY_CONFIRM_SEQ"
  BY <1>1, <1>2 DEF Controlled, MayBeAt, NameLabels
<1>4. ASSUME NEW arg, NEW count, NEW before, NEW label \in (NameLabels \ {"peek"}) \cup {"done"},
             tasks' = [tasks EXCEPT ![t] = [T EXCEPT !.arg = arg, !.count = count, !.before = before,
                                                     !.pc = label]]
      PROVE  Onward
  <2>. DEFINE r == [T EXCEPT !.arg = arg, !.count = count, !.before = before, !.pc = label]
  <2>1. /\ Shaped(r, TaskFields) /\ r.pc = label /\ r.op = T.op /\ r.net = T.net /\ r.made = T.made
        /\ r.then = T.then /\ r.next = T.next /\ r.phase = T.phase /\ r.ret = T.ret
    BY <1>3 DEF Shaped, TaskFields
  <2>2. MayBeAt(T.op, label)
    BY <1>3 DEF MayBeAt, NameLabels, SyncLabels, ApiOps, SyncOps
  <2>3. tasks' = [tasks EXCEPT ![t] = r]
    BY <1>4
  <2>. HIDE DEF r
  <2>4. tasks'[t] = r
    BY <1>2, <2>3
  <2>5. Continues(T, r)
    BY <1>3, <2>1, <2>2 DEF Continues
  <2> QED BY <2>1, <2>3, <2>4, <2>5 DEF Onward
<1>5. ASSUME NEW label \in (NameLabels \ {"peek"}) \cup {"done"}, Goto(t, label) PROVE Onward
  <2>. DEFINE a == T.arg
              n == T.count
              b == T.before
  <2>1. tasks' = [tasks EXCEPT ![t] = [T EXCEPT !.arg = a, !.count = n, !.before = b, !.pc = label]]
    BY <1>3, <1>5 DEF Goto, Shaped, TaskFields
  <2>. HIDE DEF a, n, b
  <2> QED BY <1>4, <2>1
<1>6. ASSUME NEW arg, NEW before,
             tasks' = [tasks EXCEPT ![t].arg = arg, ![t].before = before, ![t].pc = "ceremony"]
      PROVE  Onward
  <2>. DEFINE n == T.count
  <2>1. tasks' = [tasks EXCEPT ![t] = [T EXCEPT !.arg = arg, !.count = n, !.before = before,
                                                !.pc = "ceremony"]]
    BY <1>3, <1>6 DEF Shaped, TaskFields
  <2>2. "ceremony" \in (NameLabels \ {"peek"}) \cup {"done"}
    BY DEF NameLabels
  <2>. HIDE DEF n
  <2> QED BY <1>4, <2>1, <2>2
<1>7. ASSUME NEW count, tasks' = [tasks EXCEPT ![t].count = count, ![t].pc = "seeding"]
      PROVE  Onward
  <2>. DEFINE a == T.arg
              b == T.before
  <2>1. tasks' = [tasks EXCEPT ![t] = [T EXCEPT !.arg = a, !.count = count, !.before = b,
                                                !.pc = "seeding"]]
    BY <1>3, <1>7 DEF Shaped, TaskFields
  <2>2. "seeding" \in (NameLabels \ {"peek"}) \cup {"done"}
    BY DEF NameLabels
  <2>. HIDE DEF a, b
  <2> QED BY <1>4, <2>1, <2>2
<1>8. ASSUME Finish(t) PROVE Onward
  <2>1. tasks' = [tasks EXCEPT ![t] = NoTask] /\ tasks'[t] = NoTask
    BY <1>2, <1>8 DEF Finish
  <2> QED BY <1>8, <2>1 DEF Onward
<1>9. ASSUME NEW arg, tasks' = [tasks EXCEPT ![t].arg = arg, ![t].pc = "ceremony"] PROVE Onward
  <2>. DEFINE b == T.before
  <2>1. tasks' = [tasks EXCEPT ![t].arg = arg, ![t].before = b, ![t].pc = "ceremony"]
    BY <1>3, <1>9 DEF Shaped, TaskFields
  <2>. HIDE DEF b
  <2> QED BY <1>6, <2>1
<1>10. CASE PeekSeq(t)
  <2>. DEFINE next == seq + 1
              rows == Cardinality(PasskeyRows)
  <2>1. \/ tasks' = [tasks EXCEPT ![t].arg = next, ![t].before = named.retired, ![t].pc = "ceremony"]
        \/ tasks' = [tasks EXCEPT ![t].count = rows, ![t].pc = "seeding"]
    BY <1>10 DEF PeekSeq
  <2>. HIDE DEF next, rows
  <2> QED BY <1>6, <1>7, <2>1
<1>11. CASE PeekFails(t)
  BY <1>9, <1>11 DEF PeekFails
<1>12. ASSUME NEW now, Compare(t, now) PROVE Onward
  <2>1. Goto(t, "confirmWrite") \/ Goto(t, "done")
    BY <1>12 DEF Compare
  <2> QED BY <1>5, <2>1 DEF NameLabels
<1>13. CASE SeedSeq(t)
  <2>. DEFINE next == T.count + 1
  <2>1. \/ tasks' = [tasks EXCEPT ![t].arg = next, ![t].before = named.retired, ![t].pc = "ceremony"]
        \/ Compare(t, T.count)
    BY <1>13 DEF SeedSeq
  <2>. HIDE DEF next
  <2> QED BY <1>6, <1>12, <2>1
<1>14. CASE ConfirmRead(t)
  <2>. DEFINE rows == Cardinality(PasskeyRows)
  <2>1. \/ tasks' = [tasks EXCEPT ![t].count = rows, ![t].pc = "seeding"]
        \/ Compare(t, seq)
    BY <1>14 DEF ConfirmRead
  <2>. HIDE DEF rows
  <2> QED BY <1>7, <1>12, <2>1
<1>15. CASE Ceremony(t) \/ FinishNamed(t) \/ ConfirmWrite(t)
  <2>1. Finish(t) \/ \E label \in {"finish", "confirmRead", "done"} : Goto(t, label)
    BY <1>15 DEF Ceremony, FinishNamed, ConfirmWrite
  <2> QED BY <1>5, <1>8, <2>1 DEF NameLabels
<1> QED BY <1>10, <1>11, <1>13, <1>14, <1>15 DEF NamingStep

LEMMA StoreMoves == ASSUME ControlKept, NEW t \in Tasks, StoreStep(t) PROVE Moved(t)
<1>0. ControlKept /\ Controlled(tasks[t]) /\ dev \in BOOLEAN
  BY DEF ControlKept
<1>1. CASE ReadBefore(t)
  <2>. DEFINE r == [tasks[t] EXCEPT !.net = LiveNet, !.list = Bucket,
                !.act = active[Scope][LiveNet], !.pc = "api"]
  <2>1. tasks' = [tasks EXCEPT ![t] = r] /\ tasks[t].pc = "before" /\ UNCHANGED <<scene, dev>>
    BY <1>1 DEF ReadBefore, At, ReadBucket
  <2>2. MayBeAt(tasks[t].op, "api")
    BY <1>0, <2>1 DEF Controlled, MayBeAt, SyncLabels, ApiOps, SyncOps, Nexts, Rets, Phases
  <2>3. Continues(tasks[t], r)
    BY <1>0, <2>2 DEF Continues, Controlled, Shaped, TaskFields
  <2>. HIDE DEF r
  <2> QED BY <1>0, <2>1, <2>3, ContinuesMoves
<1>2. CASE ApiAnswered(t)
  <2>1. tasks[t].pc = "api" /\ UNCHANGED <<scene, dev>>
    BY <1>2 DEF ApiAnswered, At
  <2>2. MayBeAt(tasks[t].op, "create")
    BY <1>0, <2>1 DEF Controlled, MayBeAt, SyncLabels
  <2>4. CASE tasks[t].op = "CREATE_OR_CONNECT_PASSKEY"
    <3>. DEFINE r == [tasks[t] EXCEPT !.pc = "create",
                  !.row = NewRow("passkey", Or(Kept(t), FactoryOf[tasks[t].arg]), tasks[t].arg,
                  tasks[t].arg, None)]
    <3>1. Continues(tasks[t], r)
      BY <1>0, <2>2 DEF Continues, Controlled, Shaped, TaskFields
    <3>2. tasks' = [tasks EXCEPT ![t] = r]
      BY <1>2, <2>4 DEF ApiAnswered
    <3>. HIDE DEF r
    <3> QED BY <1>0, <2>1, <3>1, <3>2, ContinuesMoves
  <2>5. CASE tasks[t].op \in {"PASSKEY_REG_FINISH", "PASSKEY_AUTH_FINISH"}
    <3>. DEFINE then == IF tasks[t].op = "PASSKEY_AUTH_FINISH" THEN "unremove" ELSE "done"
    <3>1. PICK data : tasks' = [tasks EXCEPT ![t].pc = "create",
                                ![t].row = NewRow("passkey", FactoryOf[tasks[t].arg], tasks[t].arg,
                                  data, None), ![t].then = then]
      BY <1>2, <2>5 DEF ApiAnswered
    <3>2. then \in Thens /\ MayBeAt(tasks[t].op, then)
      BY <2>5 DEF Thens, MayBeAt, SyncLabels
    <3>. HIDE DEF then
    <3>. DEFINE r == [tasks[t] EXCEPT !.pc = "create",
                                !.row = NewRow("passkey", FactoryOf[tasks[t].arg], tasks[t].arg,
                                  data, None), !.then = then]
    <3>3. Controlled(r) /\ r.op = tasks[t].op
      BY <1>0, <2>1, <2>2, <3>2 DEF Controlled, Shaped, TaskFields
    <3>4. tasks' = [tasks EXCEPT ![t] = r]
      BY <3>1
    <3>. HIDE DEF r
    <3> QED BY <1>0, <2>1, <3>3, <3>4, MovesTo
  <2>6. CASE tasks[t].op = "IMPORT_MNEMONIC_ACCOUNT"
    <3>1. PICK remember \in BOOLEAN : tasks' = [tasks EXCEPT ![t].pc = "create",
                    ![t].row = NewRow("mnemonic", FactoryOf[tasks[t].arg], None, None,
                      tasks[t].arg), ![t].remember = remember, ![t].then = "seed"]
      BY <1>2, <2>6 DEF ApiAnswered
    <3>2. "seed" \in Thens /\ MayBeAt(tasks[t].op, "seed")
      BY <2>6 DEF Thens, MayBeAt, SyncLabels
    <3>. DEFINE r == [tasks[t] EXCEPT !.pc = "create",
                    !.row = NewRow("mnemonic", FactoryOf[tasks[t].arg], None, None, tasks[t].arg),
                      !.remember = remember, !.then = "seed"]
    <3>3. Controlled(r) /\ r.op = tasks[t].op
      BY <1>0, <2>1, <2>2, <3>2 DEF Controlled, Shaped, TaskFields
    <3>4. tasks' = [tasks EXCEPT ![t] = r]
      BY <3>1
    <3>. HIDE DEF r
    <3> QED BY <1>0, <2>1, <3>3, <3>4, MovesTo
  <2> QED BY <1>2, <2>4, <2>5, <2>6 DEF ApiAnswered
<1>3. CASE ApiFailed(t)
  BY <1>0, <1>3, FinishMoves DEF ApiFailed, At
<1>4. CASE CreateRead(t)
  <2>. DEFINE r == [tasks[t] EXCEPT !.row = Merged(@, Existing(Bucket, @)), !.pc = "upsert"]
  <2>1. tasks' = [tasks EXCEPT ![t] = r] /\ tasks[t].pc = "create" /\ UNCHANGED <<scene, dev>>
    BY <1>4 DEF CreateRead, At
  <2>2. MayBeAt(tasks[t].op, "upsert")
    BY <1>0, <2>1 DEF Controlled, MayBeAt, SyncLabels, ApiOps, SyncOps, Nexts, Rets, Phases
  <2>3. Continues(tasks[t], r)
    BY <1>0, <2>2 DEF Continues, Controlled, Shaped, TaskFields
  <2>. HIDE DEF r
  <2> QED BY <1>0, <2>1, <2>3, ContinuesMoves
<1>5. CASE UpsertRead(t)
  <2>. DEFINE r == [tasks[t] EXCEPT !.net = LiveNet, !.list = Bucket,
                !.act = active[Scope][LiveNet], !.pc = "write"]
  <2>1. tasks' = [tasks EXCEPT ![t] = r] /\ tasks[t].pc = "upsert" /\ UNCHANGED <<scene, dev>>
    BY <1>5 DEF UpsertRead, At, ReadBucket
  <2>2. MayBeAt(tasks[t].op, "write")
    BY <1>0, <2>1 DEF Controlled, MayBeAt, SyncLabels, ApiOps, SyncOps, Nexts, Rets, Phases
  <2>3. Continues(tasks[t], r)
    BY <1>0, <2>2 DEF Continues, Controlled, Shaped, TaskFields
  <2>. HIDE DEF r
  <2> QED BY <1>0, <2>1, <2>3, ContinuesMoves
<1>6. CASE UpsertWrite(t)
  <2>. DEFINE row == IF tasks[t].row.id = None THEN [tasks[t].row EXCEPT !.id = nextId]
                ELSE tasks[t].row
              r == [tasks[t] EXCEPT !.row = row, !.pc = tasks[t].then]
  <2>1. tasks' = [tasks EXCEPT ![t] = r] /\ tasks[t].pc = "write" /\ UNCHANGED <<scene, dev>>
    BY <1>6 DEF UpsertWrite, At
  <2>. HIDE DEF row
  <2>2. Continues(tasks[t], r)
    BY <1>0, <2>1 DEF Continues, Controlled, Shaped, TaskFields
  <2>. HIDE DEF r
  <2> QED BY <1>0, <2>1, <2>2, ContinuesMoves
<1>7. CASE Unremove(t)
  <2>1. (Goto(t, "done")) /\ tasks[t].pc = "unremove" /\ UNCHANGED <<scene, dev>>
    BY <1>7 DEF Unremove, At
  <2>2. MayBeAt(tasks[t].op, "done")
    BY <1>0, <2>1 DEF Controlled, MayBeAt, SyncLabels, ApiOps, SyncOps, Nexts, Rets, Phases
  <2> QED BY <1>0, <2>1, <2>2, GotoMoves
<1>8. CASE SaveSeed(t)
  <2>1. (Goto(t, "done")) /\ tasks[t].pc = "seed" /\ UNCHANGED <<scene, dev>>
    BY <1>8 DEF SaveSeed, At
  <2>2. MayBeAt(tasks[t].op, "done")
    BY <1>0, <2>1 DEF Controlled, MayBeAt, SyncLabels, ApiOps, SyncOps, Nexts, Rets, Phases
  <2> QED BY <1>0, <2>1, <2>2, GotoMoves
<1>9. CASE LoadSeed(t)
  <2>1. (Goto(t, "match") \/ Finish(t)) /\ tasks[t].pc = "unlock" /\ UNCHANGED <<scene, dev>>
    BY <1>9 DEF LoadSeed, At
  <2>2. MayBeAt(tasks[t].op, "match")
    BY <1>0, <2>1 DEF Controlled, MayBeAt, SyncLabels, ApiOps, SyncOps, Nexts, Rets, Phases
  <2> QED BY <1>0, <2>1, <2>2, GotoMoves, FinishMoves
<1>10. CASE RegisterKey(t)
  BY <1>0, <1>10, FinishMoves DEF RegisterKey, At
<1>11. CASE ReadRows(t)
  <2>. DEFINE label == CASE tasks[t].op = "DELETE_ACCOUNT" -> "delete"
                         [] tasks[t].op = "RENAME_ACCOUNT" -> "rename"
                         [] OTHER -> "activate"
  <2>. DEFINE r == [tasks[t] EXCEPT !.net = LiveNet, !.list = Bucket,
                !.act = active[Scope][LiveNet], !.pc = label]
  <2>1. tasks' = [tasks EXCEPT ![t] = r] /\ tasks[t].pc = "read" /\ UNCHANGED <<scene, dev>>
    BY <1>11 DEF ReadRows, At, ReadBucket
  <2>2. MayBeAt(tasks[t].op, label)
    BY <1>0, <2>1 DEF Controlled, MayBeAt, SyncLabels, ApiOps, SyncOps, Nexts, Rets, Phases
  <2>. HIDE DEF label
  <2>3. Continues(tasks[t], r)
    BY <1>0, <2>2 DEF Continues, Controlled, Shaped, TaskFields
  <2>. HIDE DEF r
  <2> QED BY <1>0, <2>1, <2>3, ContinuesMoves
<1>12. CASE WriteActive(t)
  <2>1. (Goto(t, "done")) /\ tasks[t].pc = "activate" /\ UNCHANGED <<scene, dev>>
    BY <1>12 DEF WriteActive, At
  <2>2. MayBeAt(tasks[t].op, "done")
    BY <1>0, <2>1 DEF Controlled, MayBeAt, SyncLabels, ApiOps, SyncOps, Nexts, Rets, Phases
  <2> QED BY <1>0, <2>1, <2>2, GotoMoves
<1>13. CASE WriteLabel(t)
  <2>1. (Goto(t, "done")) /\ tasks[t].pc = "rename" /\ UNCHANGED <<scene, dev>>
    BY <1>13 DEF WriteLabel, At
  <2>2. MayBeAt(tasks[t].op, "done")
    BY <1>0, <2>1 DEF Controlled, MayBeAt, SyncLabels, ApiOps, SyncOps, Nexts, Rets, Phases
  <2> QED BY <1>0, <2>1, <2>2, GotoMoves
<1>14. CASE DeleteRow(t)
  <2>. DEFINE left == Without(tasks[t].list, tasks[t].arg)
              gone == WithId(tasks[t].list, tasks[t].arg)
              s == [tasks[t] EXCEPT !.row = gone, !.list = left, !.pc = "unvault"]
  <2>1. tasks[t].pc = "delete" /\ UNCHANGED <<scene, dev>>
        /\ (tasks' = [tasks EXCEPT ![t] = s] \/ Goto(t, "cleared"))
    BY <1>14 DEF DeleteRow, At, Goto
  <2>. HIDE DEF left, gone
  <2>2. MayBeAt(tasks[t].op, "unvault") /\ MayBeAt(tasks[t].op, "cleared")
    BY <1>0, <2>1 DEF Controlled, MayBeAt, SyncLabels
  <2>3. Continues(tasks[t], s)
    BY <1>0, <2>2 DEF Continues, Controlled, Shaped, TaskFields
  <2>. HIDE DEF s
  <2> QED BY <1>0, <2>1, <2>2, <2>3, ContinuesMoves, GotoMoves
<1>15. CASE DeleteSeed(t)
  <2>1. (Goto(t, "denylist")) /\ tasks[t].pc = "unvault" /\ UNCHANGED <<scene, dev>>
    BY <1>15 DEF DeleteSeed, At
  <2>2. MayBeAt(tasks[t].op, "denylist")
    BY <1>0, <2>1 DEF Controlled, MayBeAt, SyncLabels, ApiOps, SyncOps, Nexts, Rets, Phases
  <2> QED BY <1>0, <2>1, <2>2, GotoMoves
<1>16. CASE DenyAddress(t)
  <2>1. (Goto(t, "cleared")) /\ tasks[t].pc = "denylist" /\ UNCHANGED <<scene, dev>>
    BY <1>16 DEF DenyAddress, At
  <2>2. MayBeAt(tasks[t].op, "cleared")
    BY <1>0, <2>1 DEF Controlled, MayBeAt, SyncLabels, ApiOps, SyncOps, Nexts, Rets, Phases
  <2> QED BY <1>0, <2>1, <2>2, GotoMoves
<1>17. CASE DeleteDone(t)
  <2>1. (Goto(t, "setup")) /\ tasks[t].pc = "cleared" /\ UNCHANGED <<scene, dev>>
    BY <1>17 DEF DeleteDone, At
  <2>2. MayBeAt(tasks[t].op, "setup")
    BY <1>0, <2>1 DEF Controlled, MayBeAt, SyncLabels, ApiOps, SyncOps, Nexts, Rets, Phases
  <2> QED BY <1>0, <2>1, <2>2, GotoMoves
<1>18. CASE MatchSetup(t)
  <2>. DEFINE label == IF tasks[t].op = "GET_ACCOUNTS" THEN "repair" ELSE "done"
  <2>. DEFINE r == [tasks[t] EXCEPT !.net = "testnet", !.pc = label]
  <2>1. tasks' = [tasks EXCEPT ![t] = r] /\ tasks[t].pc = "setup" /\ UNCHANGED <<scene, dev>>
    BY <1>18 DEF MatchSetup, At
  <2>2. MayBeAt(tasks[t].op, label)
    BY <1>0, <2>1 DEF Controlled, MayBeAt, SyncLabels, ApiOps, SyncOps, Nexts, Rets, Phases
  <2>. HIDE DEF label
  <2>3. Continues(tasks[t], r)
    BY <1>0, <2>2 DEF Continues, Controlled, Shaped, TaskFields
  <2>. HIDE DEF r
  <2> QED BY <1>0, <2>1, <2>3, ContinuesMoves
<1>19. CASE LogoutSession(t)
  <2>1. (Goto(t, "unvaultAll")) /\ tasks[t].pc = "logout" /\ UNCHANGED <<scene, dev>>
    BY <1>19 DEF LogoutSession, At
  <2>2. MayBeAt(tasks[t].op, "unvaultAll")
    BY <1>0, <2>1 DEF Controlled, MayBeAt, SyncLabels, ApiOps, SyncOps, Nexts, Rets, Phases
  <2> QED BY <1>0, <2>1, <2>2, GotoMoves
<1>20. CASE ClearVault(t)
  <2>1. (Goto(t, "wipe")) /\ tasks[t].pc = "unvaultAll" /\ UNCHANGED <<scene, dev>>
    BY <1>20 DEF ClearVault, At
  <2>2. MayBeAt(tasks[t].op, "wipe")
    BY <1>0, <2>1 DEF Controlled, MayBeAt, SyncLabels, ApiOps, SyncOps, Nexts, Rets, Phases
  <2> QED BY <1>0, <2>1, <2>2, GotoMoves
<1>21. CASE ClearSession(t)
  <2>1. (Goto(t, "done")) /\ tasks[t].pc = "wipe" /\ UNCHANGED <<scene, dev>>
    BY <1>21 DEF ClearSession, At
  <2>2. MayBeAt(tasks[t].op, "done")
    BY <1>0, <2>1 DEF Controlled, MayBeAt, SyncLabels, ApiOps, SyncOps, Nexts, Rets, Phases
  <2> QED BY <1>0, <2>1, <2>2, GotoMoves
<1>22. CASE RepairRead(t)
  <2>. DEFINE bucket == accounts[Scope][tasks[t].net]
              bad == Those(bucket, {r \in RangeOf(bucket) : Displaced(r)})
              fixed == [i \in DOMAIN bad |-> [bad[i] EXCEPT !.addr = displaced[@]]]
              s == [tasks[t] EXCEPT !.pc = "repairNext", !.mine = fixed]
  <2>1. tasks[t].pc = "repair" /\ UNCHANGED <<scene, dev>> /\ tasks' = [tasks EXCEPT ![t] = s]
    BY <1>22 DEF RepairRead, At
  <2>. HIDE DEF bucket, bad, fixed
  <2>2. MayBeAt(tasks[t].op, "repairNext")
    BY <1>0, <2>1 DEF Controlled, MayBeAt, SyncLabels
  <2>3. Continues(tasks[t], s)
    BY <1>0, <2>2 DEF Continues, Controlled, Shaped, TaskFields
  <2>. HIDE DEF s
  <2> QED BY <1>0, <2>1, <2>3, ContinuesMoves
<1>23. CASE PatchRead(t)
  <2>. DEFINE T == tasks[t]
              now == accounts[Scope][T.net]
              label == IF Patchable(now, T.mine[1]) THEN "patch" ELSE "repairNext"
              s == [T EXCEPT !.list = now, !.act = active[Scope][T.net], !.row = T.mine[1],
                             !.mine = Tail(@), !.pc = label]
              u == [T EXCEPT !.net = "mainnet", !.pc = "repair"]
  <2>1. T.pc = "repairNext" /\ UNCHANGED <<scene, dev>>
        /\ (tasks' = [tasks EXCEPT ![t] = s] \/ tasks' = [tasks EXCEPT ![t] = u] \/ Goto(t, "done"))
    BY <1>23 DEF PatchRead, At, Goto
  <2>2. /\ MayBeAt(T.op, label) /\ MayBeAt(T.op, "repair") /\ MayBeAt(T.op, "done")
    BY <1>0, <2>1 DEF Controlled, MayBeAt, SyncLabels
  <2>. HIDE DEF now, label
  <2>3. Shaped(T, TaskFields)
    BY <1>0 DEF Controlled
  <2>4. Continues(T, s)
    BY <1>0, <2>2, <2>3 DEF Continues, Controlled, Shaped, TaskFields
  <2>5. Continues(T, u)
    BY <1>0, <2>2, <2>3 DEF Continues, Controlled, Shaped, TaskFields
  <2>. HIDE DEF s, u
  <2> QED BY <1>0, <2>1, <2>2, <2>4, <2>5, ContinuesMoves, GotoMoves
<1>24. CASE PatchWrite(t)
  <2>1. (Goto(t, "repairNext")) /\ tasks[t].pc = "patch" /\ UNCHANGED <<scene, dev>>
    BY <1>24 DEF PatchWrite, At
  <2>2. MayBeAt(tasks[t].op, "repairNext")
    BY <1>0, <2>1 DEF Controlled, MayBeAt, SyncLabels, ApiOps, SyncOps, Nexts, Rets, Phases
  <2> QED BY <1>0, <2>1, <2>2, GotoMoves
<1>25. CASE NamingStep(t)
  <2>1. /\ tasks' = [tasks EXCEPT ![t] = tasks'[t]] /\ tasks[t].pc # "idle" /\ UNCHANGED <<scene, dev>>
        /\ Continues(tasks[t], tasks'[t]) \/ Finish(t)
    BY <1>25, NamingIs DEF NameLabels
  <2>. DEFINE r == tasks'[t]
  <2>2. tasks' = [tasks EXCEPT ![t] = r] /\ (Continues(tasks[t], r) \/ Finish(t))
    BY <2>1
  <2>. HIDE DEF r
  <2> QED BY <1>0, <2>1, <2>2, ContinuesMoves, FinishMoves
<1>29. CASE Done(t)
  BY <1>0, <1>29, FinishMoves DEF Done, At
<1>30. CASE ApplyDeveloperMode(t)
  <2>1. Finish(t) /\ tasks[t].pc = "health" /\ UNCHANGED scene /\ dev' \in {dev, tasks[t].arg}
    BY <1>30 DEF ApplyDeveloperMode, At
  <2>2. tasks[t].arg \in BOOLEAN
    BY <1>0, <2>1 DEF Controlled, MayBeAt
  <2> QED BY <1>0, <2>1, <2>2, FinishMoves
<1> QED BY <1>1, <1>2, <1>3, <1>4, <1>5, <1>6, <1>7, <1>8, <1>9, <1>10, <1>11, <1>12, <1>13, <1>14,
  <1>15, <1>16, <1>17, <1>18, <1>19, <1>20, <1>21, <1>22, <1>23, <1>24, <1>25,
  <1>29, <1>30 DEF StoreStep

\* What is to be done about a wallet: its row is created first, or it is done.
LEMMA EnsuredControlled ==
  ASSUME ControlKept, NEW t \in Tasks, NEW w, NEW then \in Nexts, tasks[t].op \in SyncOps,
         MayBeAt(tasks[t].op, then), NEW after \in Ensured(t, w, then), tasks[t].pc # "idle"
  PROVE  Controlled(after) /\ after.op = tasks[t].op
<1>. DEFINE as == [tasks[t] EXCEPT !.pc = then]
            created == [tasks[t] EXCEPT !.row = WalletRow(w), !.then = "ensured", !.next = then,
                                        !.pc = "create"]
<1>1. after \in {as, created}
  BY DEF Ensured
<1>2. Controlled(tasks[t])
  BY DEF ControlKept
<1>3. MayBeAt(tasks[t].op, "create") /\ MayBeAt(tasks[t].op, "ensured")
  BY DEF MayBeAt, SyncLabels, SyncOps
<1>4. Controlled(as) /\ as.op = tasks[t].op
  BY <1>2 DEF Controlled, Shaped, TaskFields, SyncOps
<1>5. Controlled(created) /\ created.op = tasks[t].op
  BY <1>2, <1>3 DEF Controlled, Shaped, TaskFields, SyncOps, Thens, Nexts
<1>. HIDE DEF as, created
<1> QED BY <1>1, <1>4, <1>5

LEMMA SyncMoves == ASSUME ControlKept, NEW t \in Tasks, SyncStep(t) PROVE Moved(t)
<1>0. ControlKept /\ Controlled(tasks[t]) /\ dev \in BOOLEAN
  BY DEF ControlKept
<1>1. CASE SyncRead(t)
  <2>. DEFINE r == [tasks[t] EXCEPT !.mine = Bucket, !.pc = "syncInvites"]
  <2>1. tasks[t].pc = "sync" /\ UNCHANGED <<scene, dev>>
        /\ (tasks' = [tasks EXCEPT ![t] = r])
    BY <1>1 DEF SyncRead, At, Goto, OnlyTasks
  <2>2. MayBeAt(tasks[t].op, "syncInvites")
    BY <1>0, <2>1 DEF Controlled, MayBeAt, SyncLabels, ApiOps, SyncOps, Nexts, Rets, Phases
  <2>3. Continues(tasks[t], r)
    BY <1>0, <2>2 DEF Continues, Controlled, Shaped, TaskFields
  <2>. HIDE DEF r
  <2> QED BY <1>0, <2>1, <2>2, <2>3, ContinuesMoves
<1>2. CASE SyncInvites(t)
  <2>. DEFINE r == [tasks[t] EXCEPT !.inv = invites[Scope], !.pc = "syncRemoved"]
  <2>1. tasks[t].pc = "syncInvites" /\ UNCHANGED <<scene, dev>>
        /\ (tasks' = [tasks EXCEPT ![t] = r])
    BY <1>2 DEF SyncInvites, At, Goto, OnlyTasks
  <2>2. MayBeAt(tasks[t].op, "syncRemoved")
    BY <1>0, <2>1 DEF Controlled, MayBeAt, SyncLabels, ApiOps, SyncOps, Nexts, Rets, Phases
  <2>3. Continues(tasks[t], r)
    BY <1>0, <2>2 DEF Continues, Controlled, Shaped, TaskFields
  <2>. HIDE DEF r
  <2> QED BY <1>0, <2>1, <2>2, <2>3, ContinuesMoves
<1>3. CASE SyncRemoved(t)
  <2>. DEFINE label == IF tasks[t].mine = <<>> THEN "dropSession"
                        ELSE IF LocalSigners(tasks[t].mine) = {} THEN tasks[t].ret ELSE "list"
  <2>. DEFINE r == [tasks[t] EXCEPT !.draft = meta[Scope], !.gone = removed[Scope][LiveNet],
                !.pc = label]
  <2>1. tasks[t].pc = "syncRemoved" /\ UNCHANGED <<scene, dev>>
        /\ (tasks' = [tasks EXCEPT ![t] = r])
    BY <1>3 DEF SyncRemoved, At, Goto, OnlyTasks
  <2>2. MayBeAt(tasks[t].op, label)
    BY <1>0, <2>1 DEF Controlled, MayBeAt, SyncLabels, ApiOps, SyncOps, Nexts, Rets, Phases
  <2>. HIDE DEF label
  <2>3. Continues(tasks[t], r)
    BY <1>0, <2>2 DEF Continues, Controlled, Shaped, TaskFields
  <2>. HIDE DEF r
  <2> QED BY <1>0, <2>1, <2>2, <2>3, ContinuesMoves
<1>4. CASE DropSession(t)
  <2>1. tasks[t].pc = "dropSession" /\ UNCHANGED <<scene, dev>>
        /\ (Goto(t, tasks[t].ret))
    BY <1>4 DEF DropSession, At, Goto
  <2>2. MayBeAt(tasks[t].op, tasks[t].ret)
    BY <1>0, <2>1 DEF Controlled, MayBeAt, SyncLabels, ApiOps, SyncOps, Nexts, Rets, Phases
  <2> QED BY <1>0, <2>1, <2>2, GotoMoves
<1>5. CASE ListWallets(t)
  <2>. DEFINE r == [tasks[t] EXCEPT !.todo = listed[Scope], !.pc = "wallets"]
  <2>. DEFINE s == [tasks[t] EXCEPT !.todo = tasks[t].inv, !.phase = "invites", !.pc = "invites"]
  <2>1. tasks[t].pc = "list" /\ UNCHANGED <<scene, dev>>
        /\ (tasks' = [tasks EXCEPT ![t] = r] \/ tasks' = [tasks EXCEPT ![t] = s])
    BY <1>5 DEF ListWallets, At, Goto, OnlyTasks
  <2>2. MayBeAt(tasks[t].op, "wallets") /\ MayBeAt(tasks[t].op, "invites")
    BY <1>0, <2>1 DEF Controlled, MayBeAt, SyncLabels, ApiOps, SyncOps, Nexts, Rets, Phases
  <2>30. Controlled(r) /\ r.op = tasks[t].op
    <3>1. Shaped(r, TaskFields) /\ r.op = tasks[t].op /\ r.pc = "wallets" /\ r.arg = tasks[t].arg
            /\ r.then = tasks[t].then /\ r.next = tasks[t].next /\ r.phase = tasks[t].phase
            /\ r.ret = tasks[t].ret
      BY <1>0 DEF Controlled, Shaped, TaskFields
    <3>. HIDE DEF r
    <3> QED BY <1>0, <2>1, <2>2, <3>1 DEF Controlled, MayBeAt, SyncLabels, SyncOps, Thens, Nexts,
      Rets, Phases
  <2>31. Controlled(s) /\ s.op = tasks[t].op
    <3>1. Shaped(s, TaskFields) /\ s.op = tasks[t].op /\ s.pc = "invites" /\ s.arg = tasks[t].arg
            /\ s.then = tasks[t].then /\ s.next = tasks[t].next /\ s.phase = "invites"
            /\ s.ret = tasks[t].ret
      BY <1>0 DEF Controlled, Shaped, TaskFields
    <3>. HIDE DEF s
    <3> QED BY <1>0, <2>1, <2>2, <3>1 DEF Controlled, MayBeAt, SyncLabels, SyncOps, Thens, Nexts,
      Rets, Phases
  <2>3. Controlled(r) /\ r.op = tasks[t].op /\ Controlled(s) /\ s.op = tasks[t].op
    BY <1>0, <2>30, <2>31 DEF Controlled, Shaped, TaskFields, MayBeAt, SyncLabels, SyncOps, Thens,
         Nexts, Rets, Phases
  <2>. HIDE DEF r, s
  <2> QED BY <1>0, <2>1, <2>2, <2>3, MovesTo
<1>6. CASE ImportNext(t)
  <2>. DEFINE r == [tasks[t] EXCEPT !.todo = tasks[t].inv, !.phase = "invites", !.pc = "invites"]
  <2>1. tasks[t].pc = "wallets" /\ UNCHANGED <<scene, dev>>
    BY <1>6 DEF ImportNext, At, OnlyTasks
  <2>2. /\ tasks[t].op \in SyncOps /\ \A label \in {"invites", "wallets",
          "clear"} : MayBeAt(tasks[t].op, label)
    BY <1>0, <2>1 DEF Controlled, MayBeAt, SyncLabels, SyncOps
  <2>3. Controlled(r) /\ r.op = tasks[t].op
    BY <1>0, <2>1, <2>2 DEF Controlled, Shaped, TaskFields, Phases
  <2>4. CASE tasks' = [tasks EXCEPT ![t] = r]
    <3>. HIDE DEF r
    <3> QED BY <1>0, <2>1, <2>3, <2>4, MovesTo
  <2>5. ASSUME NEW w, tasks' = [tasks EXCEPT ![t].todo = @ \ {w}] PROVE Moved(t)
    <3>. DEFINE s == [tasks[t] EXCEPT !.todo = @ \ {w}]
    <3>1. Continues(tasks[t], s)
      BY <1>0, <2>1 DEF Continues, Controlled, Shaped, TaskFields
    <3>2. tasks' = [tasks EXCEPT ![t] = s]
      BY <2>5
    <3>. HIDE DEF s
    <3> QED BY <1>0, <2>1, <3>1, <3>2, ContinuesMoves
  <2>6. ASSUME NEW w, NEW hit, NEW then \in {"wallets", "clear"}, NEW after \in Ensured(t, w, then),
               tasks' = [tasks EXCEPT ![t] = [after EXCEPT !.hit = hit, !.todo = @ \ {w}]]
        PROVE  Moved(t)
    <3>. DEFINE s == [after EXCEPT !.hit = hit, !.todo = @ \ {w}]
    <3>1. then \in Nexts
      BY DEF Nexts
    <3>2. Controlled(after) /\ after.op = tasks[t].op
      BY <1>0, <2>1, <2>2, <3>1, EnsuredControlled
    <3>3. Controlled(s) /\ s.op = tasks[t].op
      BY <3>2 DEF Controlled, Shaped, TaskFields
    <3>4. tasks' = [tasks EXCEPT ![t] = s]
      BY <2>6
    <3>. HIDE DEF s
    <3> QED BY <1>0, <2>1, <3>3, <3>4, MovesTo
  <2>7. CASE tasks[t].todo = {} /\ tasks' = [tasks EXCEPT ![t] = r]
    BY <2>4, <2>7
  <2>8. CASE \E w, hit : \E then \in {"wallets", "clear"} : \E after \in Ensured(t, w, then) :
               tasks' = [tasks EXCEPT ![t] = [after EXCEPT !.hit = hit, !.todo = @ \ {w}]]
    BY <2>6, <2>8
  <2>9. CASE \E w : tasks' = [tasks EXCEPT ![t].todo = @ \ {w}]
    BY <2>5, <2>9
  <2>. HIDE DEF r
  <2>10. \/ tasks[t].todo = {} /\ tasks' = [tasks EXCEPT ![t] = r]
         \/ \E w : tasks' = [tasks EXCEPT ![t].todo = @ \ {w}]
         \/ \E w, hit : \E then \in {"wallets", "clear"} : \E after \in Ensured(t, w, then) :
               tasks' = [tasks EXCEPT ![t] = [after EXCEPT !.hit = hit, !.todo = @ \ {w}]]
    BY <1>6 DEF ImportNext, r
  <2> QED BY <2>7, <2>8, <2>9, <2>10
<1>7. CASE EnsuredRow(t)
  <2>. DEFINE fresh == MultisigRow(tasks[t].mine, tasks[t].row.addr) = None
              mine == IF fresh THEN Append(tasks[t].mine, tasks[t].row)
                      ELSE [i \in DOMAIN tasks[t].mine |->
                              IF tasks[t].mine[i].id = tasks[t].row.id THEN tasks[t].row
                              ELSE tasks[t].mine[i]]
              ids == IF fresh THEN Append(tasks[t].made, tasks[t].row.id) ELSE tasks[t].made
  <2>. DEFINE r == [tasks[t] EXCEPT !.mine = mine, !.made = ids, !.pc = tasks[t].next]
  <2>1. tasks[t].pc = "ensured" /\ UNCHANGED <<scene, dev>>
        /\ (tasks' = [tasks EXCEPT ![t] = r])
    <3>. HIDE DEF fresh
    <3> QED BY <1>7 DEF EnsuredRow, At, Goto, OnlyTasks, fresh
  <2>2. MayBeAt(tasks[t].op, tasks[t].next)
    BY <1>0, <2>1 DEF Controlled, MayBeAt, SyncLabels, ApiOps, SyncOps, Nexts, Rets, Phases
  <2>. HIDE DEF mine, ids
  <2>3. Continues(tasks[t], r)
    BY <1>0, <2>2 DEF Continues, Controlled, Shaped, TaskFields
  <2>. HIDE DEF r
  <2> QED BY <1>0, <2>1, <2>2, <2>3, ContinuesMoves
<1>8. CASE InvitesRead(t)
  <2>. DEFINE r == [tasks[t] EXCEPT !.bag = invites[Scope], !.pc = "cleared1"]
              S(i) == [tasks[t] EXCEPT !.bag = Others(invites[Scope], i) \cup {i}, !.pc = "noted"]
  <2>1. /\ UNCHANGED <<scene, dev>>
        /\ \/ tasks[t].pc = "clear" /\ tasks' = [tasks EXCEPT ![t] = r]
           \/ tasks[t].pc = "add" /\ \E i : tasks' = [tasks EXCEPT ![t] = S(i)]
    BY <1>8 DEF InvitesRead, At, OnlyTasks
  <2>2. /\ tasks[t].pc = "clear" => MayBeAt(tasks[t].op, "cleared1")
        /\ tasks[t].pc = "add" => MayBeAt(tasks[t].op, "noted")
    BY <1>0 DEF Controlled, MayBeAt, SyncLabels, SyncOps
  <2>3. CASE tasks[t].pc = "clear" /\ tasks' = [tasks EXCEPT ![t] = r]
    <3>1. Continues(tasks[t], r)
      BY <1>0, <2>2, <2>3 DEF Continues, Controlled, Shaped, TaskFields
    <3>. HIDE DEF r
    <3> QED BY <1>0, <2>1, <2>3, <3>1, ContinuesMoves
  <2>4. ASSUME NEW i, tasks[t].pc = "add", tasks' = [tasks EXCEPT ![t] = S(i)] PROVE Moved(t)
    <3>. DEFINE u == S(i)
    <3>1. Continues(tasks[t], u)
      BY <1>0, <2>2, <2>4 DEF Continues, Controlled, Shaped, TaskFields
    <3>2. tasks' = [tasks EXCEPT ![t] = u]
      BY <2>4
    <3>. HIDE DEF u
    <3> QED BY <1>0, <2>1, <2>4, <3>1, <3>2, ContinuesMoves
  <2>. HIDE DEF r
  <2> QED BY <2>1, <2>3, <2>4
<1>9. CASE ClearInvite(t)
  <2>. DEFINE label == IF tasks[t].op = "REMOVE_INVITE" THEN "done" ELSE tasks[t].phase
              left == Others(tasks[t].inv, TheInvite(t))
  <2>. DEFINE r == [tasks[t] EXCEPT !.inv = left, !.hit = None, !.pc = label]
  <2>1. tasks[t].pc = "cleared1" /\ UNCHANGED <<scene, dev>>
        /\ (tasks' = [tasks EXCEPT ![t] = r])
    BY <1>9 DEF ClearInvite, At, Goto
  <2>2. MayBeAt(tasks[t].op, label)
    BY <1>0, <2>1 DEF Controlled, MayBeAt, SyncLabels, ApiOps, SyncOps, Nexts, Rets, Phases
  <2>. HIDE DEF label, left
  <2>3. Continues(tasks[t], r)
    BY <1>0, <2>2 DEF Continues, Controlled, Shaped, TaskFields
  <2>. HIDE DEF r
  <2> QED BY <1>0, <2>1, <2>2, <2>3, ContinuesMoves
<1>10. CASE NoteInvite(t)
  <2>1. tasks[t].pc = "noted" /\ UNCHANGED <<scene, dev>>
        /\ (Goto(t, tasks[t].next))
    BY <1>10 DEF NoteInvite, At, Goto
  <2>2. MayBeAt(tasks[t].op, tasks[t].next)
    BY <1>0, <2>1 DEF Controlled, MayBeAt, SyncLabels, ApiOps, SyncOps, Nexts, Rets, Phases
  <2> QED BY <1>0, <2>1, <2>2, GotoMoves
<1>11. CASE InviteNext(t)
  <2>. DEFINE r == [tasks[t] EXCEPT !.hit = None, !.pc = "ownDraft"]
  <2>1. tasks[t].pc = "invites" /\ UNCHANGED <<scene, dev>>
    BY <1>11 DEF InviteNext, At, OnlyTasks
  <2>2. \A label \in {"ownDraft", "known", "preview"} : MayBeAt(tasks[t].op, label)
    BY <1>0, <2>1 DEF Controlled, MayBeAt, SyncLabels
  <2>3. Continues(tasks[t], r)
    BY <1>0, <2>2 DEF Continues, Controlled, Shaped, TaskFields
  <2>4. CASE tasks' = [tasks EXCEPT ![t] = r]
    <3>. HIDE DEF r
    <3> QED BY <1>0, <2>1, <2>3, <2>4, ContinuesMoves
  <2>5. ASSUME NEW i, NEW label \in {"known", "preview"},
               tasks' = [tasks EXCEPT ![t].todo = @ \ {i}, ![t].hit = i, ![t].pc = label]
               PROVE Moved(t)
    <3>. DEFINE s == [tasks[t] EXCEPT !.todo = @ \ {i}, !.hit = i, !.pc = label]
    <3>1. Continues(tasks[t], s)
      BY <1>0, <2>2 DEF Continues, Controlled, Shaped, TaskFields
    <3>2. tasks' = [tasks EXCEPT ![t] = s]
      BY <2>5
    <3>. HIDE DEF s
    <3> QED BY <1>0, <2>1, <3>1, <3>2, ContinuesMoves
  <2>6. CASE \E i : \E label \in {"known", "preview"} :
               tasks' = [tasks EXCEPT ![t].todo = @ \ {i}, ![t].hit = i, ![t].pc = label]
    BY <2>5, <2>6
  <2>. HIDE DEF r
  <2>7. \/ tasks' = [tasks EXCEPT ![t] = r]
        \/ \E i : \E label \in {"known", "preview"} :
               tasks' = [tasks EXCEPT ![t].todo = @ \ {i}, ![t].hit = i, ![t].pc = label]
    BY <1>11 DEF InviteNext, r
  <2> QED BY <2>4, <2>6, <2>7
<1>12. CASE Preview(t)
  <2>1. tasks[t].pc = "preview" /\ UNCHANGED <<scene, dev>>
    BY <1>12 DEF Preview, At, OnlyTasks
  <2>2. tasks[t].op \in SyncOps /\ MayBeAt(tasks[t].op, "note")
          /\ MayBeAt(tasks[t].op, tasks[t].phase)
    BY <1>0, <2>1 DEF Controlled, MayBeAt, SyncLabels, SyncOps, Phases
  <2>3. ASSUME NEW hit, tasks' = [tasks EXCEPT ![t].hit = hit, ![t].next = "predict",
          ![t].pc = "note"] PROVE Moved(t)
    <3>. DEFINE s == [tasks[t] EXCEPT !.hit = hit, !.next = "predict", !.pc = "note"]
    <3>1. Controlled(s) /\ s.op = tasks[t].op
      BY <1>0, <2>1, <2>2 DEF Controlled, Shaped, TaskFields, Nexts, SyncOps
    <3>2. tasks' = [tasks EXCEPT ![t] = s]
      BY <2>3
    <3>. HIDE DEF s
    <3> QED BY <1>0, <2>1, <3>1, <3>2, MovesTo
  <2>4. CASE GiveUp(t)
    BY <1>0, <2>1, <2>2, <2>4, GotoMoves DEF GiveUp
  <2>5. GiveUp(t) \/ \E hit :
          tasks' = [tasks EXCEPT ![t].hit = hit, ![t].next = "predict", ![t].pc = "note"]
    BY <1>12 DEF Preview
  <2> QED BY <2>3, <2>4, <2>5
<1>13. CASE Predict(t)
  <2>1. tasks[t].pc = "predict" /\ UNCHANGED <<scene, dev>>
    BY <1>13 DEF Predict, At, OnlyTasks
  <2>2. tasks[t].op \in SyncOps /\ MayBeAt(tasks[t].op, "note") /\ MayBeAt(tasks[t].op, "draft")
    BY <1>0, <2>1 DEF Controlled, MayBeAt, SyncLabels, SyncOps
  <2>3. ASSUME NEW hit, tasks' = [tasks EXCEPT ![t].hit = hit, ![t].next = "draft",
          ![t].pc = "note"] PROVE Moved(t)
    <3>. DEFINE s == [tasks[t] EXCEPT !.hit = hit, !.next = "draft", !.pc = "note"]
    <3>1. Controlled(s) /\ s.op = tasks[t].op
      BY <1>0, <2>1, <2>2 DEF Controlled, Shaped, TaskFields, Nexts, SyncOps
    <3>2. tasks' = [tasks EXCEPT ![t] = s]
      BY <2>3
    <3>. HIDE DEF s
    <3> QED BY <1>0, <2>1, <3>1, <3>2, MovesTo
  <2>4. CASE Goto(t, "draft")
    BY <1>0, <2>1, <2>2, <2>4, GotoMoves
  <2>5. Goto(t, "draft") \/ \E hit :
          tasks' = [tasks EXCEPT ![t].hit = hit, ![t].next = "draft", ![t].pc = "note"]
    BY <1>13 DEF Predict
  <2> QED BY <2>3, <2>4, <2>5
<1>14. CASE OwnDraft(t)
  <2>1. tasks[t].pc = "ownDraft" /\ UNCHANGED <<scene, dev>>
    BY <1>14 DEF OwnDraft, At, OnlyTasks
  <2>2. MayBeAt(tasks[t].op, "activateNew") /\ MayBeAt(tasks[t].op, "draft")
    BY <1>0, <2>1 DEF Controlled, MayBeAt, SyncLabels, SyncOps
  <2>3. ASSUME NEW hit, tasks' = [tasks EXCEPT ![t].hit = hit, ![t].phase = "activateNew",
          ![t].pc = "draft"] PROVE Moved(t)
    <3>. DEFINE s == [tasks[t] EXCEPT !.hit = hit, !.phase = "activateNew", !.pc = "draft"]
    <3>1. Controlled(s) /\ s.op = tasks[t].op
      BY <1>0, <2>1, <2>2 DEF Controlled, Shaped, TaskFields, Phases
    <3>2. tasks' = [tasks EXCEPT ![t] = s]
      BY <2>3
    <3>. HIDE DEF s
    <3> QED BY <1>0, <2>1, <3>1, <3>2, MovesTo
  <2>4. CASE Goto(t, "activateNew")
    BY <1>0, <2>1, <2>2, <2>4, GotoMoves
  <2>5. Goto(t, "activateNew") \/ \E hit :
           tasks' = [tasks EXCEPT ![t].hit = hit, ![t].phase = "activateNew", ![t].pc = "draft"]
    BY <1>14 DEF OwnDraft
  <2> QED BY <2>3, <2>4, <2>5
<1>15. CASE Deployed(t)
  <2>1. tasks[t].pc = "draft" /\ UNCHANGED <<scene, dev>>
        /\ (Goto(t, "register") \/ Goto(t, tasks[t].phase))
    BY <1>15 DEF Deployed, At, Goto, OnlyTasks, GiveUp
  <2>2. MayBeAt(tasks[t].op, "register") /\ MayBeAt(tasks[t].op, tasks[t].phase)
    BY <1>0, <2>1 DEF Controlled, MayBeAt, SyncLabels, ApiOps, SyncOps, Nexts, Rets, Phases
  <2> QED BY <1>0, <2>1, <2>2, GotoMoves
<1>16. CASE RegisterWallet(t)
  <2>. DEFINE w == WalletOf[tasks[t].hit.token]
  <2>1. tasks[t].pc = "register" /\ UNCHANGED <<scene, dev>>
        /\ (GiveUp(t) \/ \E after \in Ensured(t, w,
          "confirm") : tasks' = [tasks EXCEPT ![t] = after])
    BY <1>16 DEF RegisterWallet, At
  <2>. HIDE DEF w
  <2>2. tasks[t].op \in SyncOps /\ MayBeAt(tasks[t].op, "confirm")
          /\ MayBeAt(tasks[t].op, tasks[t].phase)
    BY <1>0, <2>1 DEF Controlled, MayBeAt, SyncLabels, SyncOps, Phases
  <2>3. "confirm" \in Nexts
    BY DEF Nexts
  <2>4. ASSUME NEW after \in Ensured(t, w, "confirm"), tasks' = [tasks EXCEPT ![t] = after]
        PROVE Moved(t)
    <3>1. Controlled(after) /\ after.op = tasks[t].op
      BY <1>0, <2>1, <2>2, <2>3, EnsuredControlled
    <3> QED BY <1>0, <2>1, <2>4, <3>1, MovesTo
  <2>5. CASE GiveUp(t)
    BY <1>0, <2>1, <2>2, <2>5, GotoMoves DEF GiveUp
  <2> QED BY <2>1, <2>4, <2>5
<1>17. CASE RegisterKnown(t)
  <2>. DEFINE r == [tasks[t] EXCEPT !.next = "confirm", !.pc = "note"]
  <2>1. tasks[t].pc = "known" /\ UNCHANGED <<scene, dev>>
        /\ (tasks' = [tasks EXCEPT ![t] = r] \/ Goto(t, "confirm") \/ Goto(t, tasks[t].phase))
    BY <1>17 DEF RegisterKnown, At, Goto, GiveUp
  <2>2. MayBeAt(tasks[t].op, "note") /\ MayBeAt(tasks[t].op, "confirm")
          /\ MayBeAt(tasks[t].op, tasks[t].phase)
    BY <1>0, <2>1 DEF Controlled, MayBeAt, SyncLabels, ApiOps, SyncOps, Nexts, Rets, Phases
  <2>30. Controlled(r) /\ r.op = tasks[t].op
    <3>1. Shaped(r, TaskFields) /\ r.op = tasks[t].op /\ r.pc = "note" /\ r.arg = tasks[t].arg
            /\ r.then = tasks[t].then /\ r.next = "confirm" /\ r.phase = tasks[t].phase
            /\ r.ret = tasks[t].ret
      BY <1>0 DEF Controlled, Shaped, TaskFields
    <3>. HIDE DEF r
    <3> QED BY <1>0, <2>1, <2>2, <3>1 DEF Controlled, MayBeAt, SyncLabels, SyncOps, Thens, Nexts,
      Rets, Phases
  <2>3. Controlled(r) /\ r.op = tasks[t].op
    BY <1>0, <2>30 DEF Controlled, Shaped, TaskFields, MayBeAt, SyncLabels, SyncOps, Thens, Nexts,
         Rets, Phases
  <2>. HIDE DEF r
  <2> QED BY <1>0, <2>1, <2>2, <2>3, MovesTo, GotoMoves
<1>18. CASE StoreDraftMeta(t)
  <2>1. tasks[t].pc = "draftMeta" /\ UNCHANGED <<scene, dev>>
        /\ (Goto(t, "done"))
    BY <1>18 DEF StoreDraftMeta, At, Goto
  <2>2. MayBeAt(tasks[t].op, "done")
    BY <1>0, <2>1 DEF Controlled, MayBeAt, SyncLabels, ApiOps, SyncOps, Nexts, Rets, Phases
  <2> QED BY <1>0, <2>1, <2>2, GotoMoves
<1>19. CASE ConfirmListed(t)
  <2>1. tasks[t].pc = "confirm" /\ UNCHANGED <<scene, dev>>
        /\ (Goto(t, "clear") \/ Goto(t, tasks[t].phase))
    BY <1>19 DEF ConfirmListed, At, Goto, OnlyTasks, GiveUp
  <2>2. MayBeAt(tasks[t].op, "clear") /\ MayBeAt(tasks[t].op, tasks[t].phase)
    BY <1>0, <2>1 DEF Controlled, MayBeAt, SyncLabels, ApiOps, SyncOps, Nexts, Rets, Phases
  <2> QED BY <1>0, <2>1, <2>2, GotoMoves
<1>20. CASE ActivateNew(t)
  <2>. DEFINE first == tasks[t].op = "SYNC" /\ tasks[t].arg = TRUE /\ tasks[t].made # <<>>
              label == IF first THEN "read" ELSE tasks[t].ret
              arg == IF first THEN tasks[t].made[1] ELSE tasks[t].arg
  <2>. DEFINE r == [tasks[t] EXCEPT !.arg = arg, !.pc = label]
  <2>1. tasks[t].pc = "activateNew" /\ UNCHANGED <<scene, dev>>
        /\ (tasks' = [tasks EXCEPT ![t] = r])
    BY <1>20 DEF ActivateNew, At, Goto, OnlyTasks
  <2>2. MayBeAt(tasks[t].op, label)
    BY <1>0, <2>1 DEF Controlled, MayBeAt, SyncLabels, ApiOps, SyncOps, Nexts, Rets, Phases
  <2>. HIDE DEF label, arg
  <2>3. Continues(tasks[t], r)
    BY <1>0, <2>1, <2>2 DEF Continues, Controlled, Shaped, TaskFields, MayBeAt, SyncLabels, SyncOps,
         Thens, Nexts, Rets, Phases
  <2>. HIDE DEF r
  <2> QED BY <1>0, <2>1, <2>2, <2>3, ContinuesMoves
<1>21. CASE ListOne(t)
  <2>. DEFINE w == tasks[t].arg
              label == IF tasks[t].ret = "listOne" THEN "lastResort" ELSE "sync"
              r == Updated(t, w, "done")
              s == [tasks[t] EXCEPT !.pc = label, !.ret = "listOne"]
  <2>1. tasks[t].pc = "listOne" /\ UNCHANGED <<scene, dev>>
        /\ (Goto(t, "done") \/ tasks' = [tasks EXCEPT ![t] = r] \/ tasks' = [tasks EXCEPT ![t] = s])
    BY <1>21 DEF ListOne, At, OnlyTasks
  <2>. HIDE DEF w
  <2>2. /\ tasks[t].op = "ENSURE"
        /\ MayBeAt(tasks[t].op, "done") /\ MayBeAt(tasks[t].op, "create")
          /\ MayBeAt(tasks[t].op, label)
    BY <1>0, <2>1 DEF Controlled, MayBeAt, SyncLabels, SyncOps
  <2>. HIDE DEF label
  <2>3. Controlled(r) /\ r.op = tasks[t].op
    BY <1>0, <2>1, <2>2 DEF Updated, Controlled, Shaped, TaskFields, Thens, Rets
  <2>4. Controlled(s) /\ s.op = tasks[t].op
    BY <1>0, <2>1, <2>2 DEF Controlled, Shaped, TaskFields, Rets
  <2>. HIDE DEF r, s
  <2> QED BY <1>0, <2>1, <2>2, <2>3, <2>4, GotoMoves, MovesTo
<1>22. CASE LastResort(t)
  <2>. DEFINE w == tasks[t].arg
              r == Updated(t, w, "listOne")
              s == [tasks[t] EXCEPT !.pc = "listOne", !.ret = "end"]
  <2>1. tasks[t].pc = "lastResort" /\ UNCHANGED <<scene, dev>>
        /\ (Goto(t, "done") \/ tasks' = [tasks EXCEPT ![t] = r] \/ tasks' = [tasks EXCEPT ![t] = s])
    BY <1>22 DEF LastResort, At, OnlyTasks
  <2>. HIDE DEF w
  <2>2. /\ tasks[t].op = "ENSURE"
        /\ MayBeAt(tasks[t].op, "done") /\ MayBeAt(tasks[t].op, "create")
          /\ MayBeAt(tasks[t].op, "listOne")
    BY <1>0, <2>1 DEF Controlled, MayBeAt, SyncLabels, SyncOps
  <2>3. Controlled(r) /\ r.op = tasks[t].op
    BY <1>0, <2>1, <2>2 DEF Updated, Controlled, Shaped, TaskFields, Thens, Rets
  <2>4. Controlled(s) /\ s.op = tasks[t].op
    BY <1>0, <2>1, <2>2 DEF Controlled, Shaped, TaskFields, Rets
  <2>. HIDE DEF r, s
  <2> QED BY <1>0, <2>1, <2>2, <2>3, <2>4, GotoMoves, MovesTo
<1>23. CASE Verify(t)
  <2>. DEFINE row == WalletRow(tasks[t].arg)
              r == [tasks[t] EXCEPT !.row = row, !.then = "readd", !.pc = "create"]
  <2>1. tasks[t].pc = "verify" /\ UNCHANGED <<scene, dev>>
          /\ (Finish(t) \/ tasks' = [tasks EXCEPT ![t] = r])
    BY <1>23 DEF Verify, At, OnlyTasks
  <2>. HIDE DEF row
  <2>2. /\ tasks[t].op = "ADD_EXISTING" /\ MayBeAt(tasks[t].op, "create")
          /\ MayBeAt(tasks[t].op, "readd")
    BY <1>0, <2>1 DEF Controlled, MayBeAt, SyncLabels
  <2>3. Controlled(r) /\ r.op = tasks[t].op
    <3>1. Shaped(r, TaskFields) /\ r.op = tasks[t].op /\ r.pc = "create" /\ r.then = "readd"
            /\ r.arg = tasks[t].arg
          /\ r.next = tasks[t].next /\ r.phase = tasks[t].phase /\ r.ret = tasks[t].ret
      BY <1>0 DEF Controlled, Shaped, TaskFields
    <3>. HIDE DEF r
    <3> QED BY <1>0, <2>1, <2>2, <3>1 DEF Controlled, Thens
  <2>. HIDE DEF r
  <2> QED BY <1>0, <2>1, <2>3, FinishMoves, MovesTo
<1>24. CASE Readd(t)
  <2>1. (Goto(t, "done")) /\ tasks[t].pc = "readd" /\ UNCHANGED <<scene, dev>>
    BY <1>24 DEF Readd, At
  <2>2. MayBeAt(tasks[t].op, "done")
    BY <1>0, <2>1 DEF Controlled, MayBeAt, SyncLabels, ApiOps, SyncOps, Nexts, Rets, Phases
  <2> QED BY <1>0, <2>1, <2>2, GotoMoves
<1>25. CASE PatchInvite(t)
  <2>1. /\ tasks[t].pc = "note" /\ UNCHANGED <<scene, dev>>
        /\ \E bag : tasks' = [tasks EXCEPT ![t].bag = bag, ![t].pc = "add"]
    BY <1>25 DEF PatchInvite, At, OnlyTasks
  <2>2. MayBeAt(tasks[t].op, "add")
    BY <1>0, <2>1 DEF Controlled, MayBeAt, SyncLabels, SyncOps
  <2>3. ASSUME NEW bag, tasks' = [tasks EXCEPT ![t].bag = bag, ![t].pc = "add"] PROVE Moved(t)
    <3>. DEFINE r == [tasks[t] EXCEPT !.bag = bag, !.pc = "add"]
    <3>1. Continues(tasks[t], r)
      BY <1>0, <2>2 DEF Continues, Controlled, Shaped, TaskFields
    <3>2. tasks' = [tasks EXCEPT ![t] = r]
      BY <2>3
    <3>. HIDE DEF r
    <3> QED BY <1>0, <2>1, <3>1, <3>2, ContinuesMoves
  <2> QED BY <2>1, <2>3
<1>26. CASE LocalRow(t)
  <2>. DEFINE row == WalletRow(tasks[t].arg)
              r == [tasks[t] EXCEPT !.row = row, !.pc = "create"]
  <2>1. tasks[t].pc = "local" /\ UNCHANGED <<scene, dev>> /\ tasks' = [tasks EXCEPT ![t] = r]
    BY <1>26 DEF LocalRow, At, OnlyTasks
  <2>. HIDE DEF row
  <2>2. MayBeAt(tasks[t].op, "create")
    BY <1>0, <2>1 DEF Controlled, MayBeAt, SyncLabels
  <2>3. Continues(tasks[t], r)
    BY <1>0, <2>2 DEF Continues, Controlled, Shaped, TaskFields
  <2>. HIDE DEF r
  <2> QED BY <1>0, <2>1, <2>3, ContinuesMoves
<1> QED BY <1>1, <1>2, <1>3, <1>4, <1>5, <1>6, <1>7, <1>8, <1>9, <1>10, <1>11, <1>12, <1>13, <1>14,
  <1>15, <1>16, <1>17, <1>18, <1>19, <1>20, <1>21, <1>22, <1>23, <1>24, <1>25, <1>26 DEF SyncStep

\* A handler starts, at the label of its operation.
LEMMA HandlersStart ==
  ASSUME ControlKept, NEW t \in Tasks, Handler(t) \/ SyncHandler(t) PROVE ControlKept'
<1>1. CASE CreateOrConnect(t)
  BY <1>1, StartControlled DEF CreateOrConnect, MayBeAt, SyncLabels
<1>2. CASE Register(t) \/ LogIn(t) \/ ImportSeed(t)
  BY <1>2, StartControlled DEF Register, LogIn, ImportSeed, MayBeAt, SyncLabels, ApiOps
<1>3. CASE Unlock(t) \/ SetActive(t) \/ Rename(t) \/ Delete(t)
  BY <1>3, StartControlled DEF Unlock, SetActive, Rename, Delete, OnRow, MayBeAt, SyncLabels
<1>4. CASE Logout(t) \/ GetAccounts(t) \/ NextSeq(t)
  BY <1>4, StartControlled DEF Logout, GetAccounts, NextSeq, MayBeAt, SyncLabels
<1>5. CASE SetDeveloperMode(t)
  <2>1. (~dev) \in BOOLEAN
    OBVIOUS
  <2>. DEFINE mode == ~dev
  <2>2. mode \in BOOLEAN /\ Start(t, "SET_DEVELOPER_MODE", "health", mode)
    BY <1>5, <2>1 DEF SetDeveloperMode
  <2>. HIDE DEF mode
  <2>3. MayBeAt("SET_DEVELOPER_MODE", "health")
    BY DEF MayBeAt, SyncLabels
  <2> QED BY <2>2, <2>3, StartControlled
<1>6. CASE AddInvite(t)
  BY <1>6, StartControlled DEF AddInvite, MayBeAt, SyncLabels
<1>7. CASE DropInvite(t) \/ SetDraftMeta(t) \/ AddExisting(t) \/ CreateLocal(t)
  BY <1>7, StartControlled DEF DropInvite, SetDraftMeta, AddExisting, CreateLocal, MayBeAt, SyncLabels
<1>8. CASE EnsureRegistered(t)
  BY <1>8, StartControlled DEF EnsureRegistered, MayBeAt, SyncLabels
<1>9. CASE SyncLocal(t)
  <2>1. PICK activate : Start(t, "SYNC", "sync", activate)
    BY <1>9 DEF SyncLocal
  <2>2. MayBeAt("SYNC", "sync")
    BY DEF MayBeAt, SyncLabels, SyncOps
  <2> QED BY <2>1, <2>2, StartControlled
<1> QED BY <1>1, <1>2, <1>3, <1>4, <1>5, <1>6, <1>7, <1>8, <1>9 DEF Handler, SyncHandler

LEMMA ControlKeeps == ControlKept /\ [SyncNext]_syncVars => ControlKept'
<1>. SUFFICES ASSUME ControlKept, [SyncNext]_syncVars PROVE ControlKept'
  OBVIOUS
<1>1. CASE \E t \in Tasks : Handler(t) \/ SyncHandler(t)
  BY <1>1, HandlersStart
<1>2. CASE \E t \in Tasks : StoreStep(t) \/ SyncStep(t)
  BY <1>2, StoreMoves, SyncMoves, MovedKeeps
<1>3. CASE SwRestart
  BY <1>3, NoTaskControlled DEF SwRestart, ControlKept, Controlled, Alone
<1>4. CASE UNCHANGED syncVars
  BY <1>4 DEF syncVars, walletVars, ControlKept, Controlled, Alone
<1> QED BY <1>1, <1>2, <1>3, <1>4 DEF SyncNext

-----------------------------------------------------------------------------
(* The rows of the store. *)

\* A table of every deployment and network.
Tabled(f) == f = [e \in Envs |-> [n \in Nets |-> f[e][n]]]

RowFields == {"id", "mode", "addr", "cred", "data", "g"}
\* A row of a passkey with its key data or without, or of another signer.
GoodRow(r) == /\ Shaped(r, RowFields) /\ r.data \in {None, r.cred}
              /\ r.mode # "passkey" => r.cred = None
RowList(list) == IsList(list) /\ \A r \in RangeOf(list) : GoodRow(r) /\ r.id \in Nat
\* The active account of a list, and when it is one of it.
Points(list, act) == IF list = <<>> THEN act = None ELSE act \in IdsOf(list)
MayPoint == scene.busy = 1 \/ scene.ops \cap {"SET_ACTIVE_ACCOUNT", "SYNC"} = {}

\* Labels at which a handler holds a list it is about to write, and those at which it
\* holds anything that comes to be stored.
Writes == {"write", "rename", "patch", "delete", "activate"}
Holds  == Writes \cup {"create", "upsert", "read", "ensured"}

\* What a handler holds is fit to be stored, whatever the others do.
RowAt(r) ==
    /\ r.net \in Nets
    /\ r.pc = "create" => GoodRow(r.row) /\ r.row.id = None
    /\ r.pc \in {"upsert", "write"} => GoodRow(r.row) /\ r.row.id \in Nat \cup {None}
    /\ r.pc \in Writes => RowList(r.list) /\ (MayPoint => Points(r.list, r.act))
    /\ r.pc = "patch" => r.row.id \in IdsOf(r.list)
    /\ r.pc = "activate" /\ MayPoint => r.arg \in IdsOf(r.list)

\* What a handler that runs alone holds is what is stored.
AloneAt(r) ==
    /\ r.pc \in Writes => r.list = accounts[Scope][r.net] /\ r.act = active[Scope][r.net]
    /\ r.pc \in Writes \ {"patch"} => r.net = LiveNet
    /\ r.pc = "read" => r.arg \in IdsOf(Bucket)
    /\ r.pc = "ensured" => r.row.id \in IdsOf(Bucket)
    /\ r.op = "SYNC" => IsList(r.made) /\ RangeOf(r.made) \subseteq IdsOf(Bucket)

RowsKept ==
    /\ Tabled(accounts) /\ Tabled(active) /\ nextId \in Nat
    /\ \A e \in Envs, n \in Nets : /\ RowList(accounts[e][n])
                                   /\ MayPoint => Points(accounts[e][n], active[e][n])
    /\ \A t \in Tasks : RowAt(tasks[t])
    /\ scene.busy = 1 => \A t \in Tasks : tasks[t].pc # "idle" => AloneAt(tasks[t])

LEMMA WhereWeAre == Scope \in Envs /\ LiveNet \in Nets
BY DEF Scope, LiveNet, Envs, Nets

LEMMA NoTaskHolds == RowAt(NoTask)
BY DEF RowAt, NoTask, Writes, Nets

LEMMA RowsStart == SyncInit => RowsKept
<1>. SUFFICES ASSUME SyncInit PROVE RowsKept
  OBVIOUS
<1>1. Tabled(accounts) /\ Tabled(active) /\ nextId \in Nat
  BY DEF SyncInit, Init, Tabled
<1>2. \A e \in Envs, n \in Nets : accounts[e][n] = <<>> /\ active[e][n] = None
  BY DEF SyncInit, Init
<1>3. \A e \in Envs, n \in Nets : RowList(accounts[e][n]) /\ Points(accounts[e][n], active[e][n])
  BY <1>2, NoRows DEF RowList, Points
<1>4. \A t \in Tasks : RowAt(tasks[t]) /\ tasks[t].pc = "idle"
  BY NoTaskHolds, NoTaskControlled DEF SyncInit, Init
<1> QED BY <1>1, <1>3, <1>4 DEF RowsKept

LEMMA RowsJoin ==
  ASSUME nextId' \in Nat, (Tabled(accounts) /\ Tabled(active))',
         (\A e \in Envs, m \in Nets : /\ RowList(accounts[e][m])
                                      /\ MayPoint => Points(accounts[e][m], active[e][m]))',
         (\A u \in Tasks : RowAt(tasks[u]))',
         (scene.busy = 1 => \A u \in Tasks : tasks[u].pc # "idle" => AloneAt(tasks[u]))'
  PROVE  RowsKept'
BY DEF RowsKept

\* A handler that goes on, and the rows stay.
LEMMA RowsRest ==
  ASSUME ControlKept, RowsKept, NEW t \in Tasks, Moved(t), UNCHANGED <<accounts, active, nextId>>,
         RowAt(tasks'[t]),
         scene.busy = 1 /\ tasks'[t].pc # "idle" => AloneAt(tasks'[t]) /\ UNCHANGED dev
  PROVE  RowsKept'
<1>. DEFINE r == tasks'[t]
<1>1. /\ DOMAIN tasks = Tasks /\ tasks' = [tasks EXCEPT ![t] = r] /\ UNCHANGED scene
      /\ tasks[t].pc # "idle"
  BY DEF Moved, ControlKept
<1>2. RowAt(r) /\ (scene.busy = 1 /\ r.pc # "idle" => AloneAt(r) /\ UNCHANGED dev)
  OBVIOUS
<1>. HIDE DEF r
<1>3. \A u \in Tasks : RowAt(tasks'[u])
  BY <1>1, <1>2 DEF RowsKept
<1>4. (\A u \in Tasks : RowAt(tasks[u]))'
  BY <1>1, <1>3 DEF RowAt, MayPoint
<1>5. ASSUME scene.busy = 1, NEW u \in Tasks, tasks'[u].pc # "idle" PROVE AloneAt(tasks[u])'
  <2>1. u = t
    BY <1>1, <1>5 DEF ControlKept, Alone
  <2>2. AloneAt(r) /\ UNCHANGED dev /\ tasks'[u] = r
    BY <1>1, <1>2, <1>5, <2>1
  <2> QED BY <2>2 DEF AloneAt, Scope, LiveNet, Bucket
<1>6. UNCHANGED MayPoint
  BY <1>1 DEF MayPoint
<1> QED BY <1>1, <1>4, <1>5, <1>6 DEF RowsKept

\* A handler that holds nothing of it.
Quiet(T, r) == r.pc \notin Holds /\ r.net \in Nets /\ r.made = T.made

LEMMA RowsQuiet ==
  ASSUME ControlKept, RowsKept, NEW t \in Tasks, Moved(t), UNCHANGED <<accounts, active, nextId>>,
         tasks'[t] = NoTask \/ (Quiet(tasks[t], tasks'[t]) /\ UNCHANGED dev)
  PROVE  RowsKept'
<1>1. CASE tasks'[t] = NoTask
  <2>1. RowAt(tasks'[t]) /\ tasks'[t].pc = "idle"
    BY <1>1, NoTaskHolds, NoTaskControlled
  <2> QED BY <2>1, RowsRest
<1>2. CASE Quiet(tasks[t], tasks'[t]) /\ UNCHANGED dev /\ tasks'[t] # NoTask
  <2>. DEFINE r == tasks'[t]
  <2>1. r.op = tasks[t].op /\ Quiet(tasks[t], r) /\ tasks[t].pc # "idle" /\ UNCHANGED dev
    BY <1>2 DEF Moved
  <2>2. RowAt(r)
    BY <2>1 DEF Quiet, RowAt, Holds, Writes
  <2>3. scene.busy = 1 => AloneAt(r)
    <3>1. scene.busy = 1 => AloneAt(tasks[t])
      BY <2>1 DEF RowsKept
    <3>. HIDE DEF r
    <3> QED BY <2>1, <3>1 DEF Quiet, Holds, Writes, AloneAt
  <2> QED BY <2>1, <2>2, <2>3, RowsRest
<1> QED BY <1>1, <1>2

LEMMA GotoIs ==
  ASSUME ControlKept, NEW t \in Tasks, NEW label, Goto(t, label)
  PROVE  /\ tasks'[t].pc = label
         /\ \A f \in TaskFields \ {"pc"} : tasks'[t][f] = tasks[t][f]
BY DEF ControlKept, Controlled, Goto, Shaped, TaskFields

LEMMA FinishIs == ASSUME ControlKept, NEW t \in Tasks, Finish(t) PROVE tasks'[t] = NoTask
BY DEF ControlKept, Finish

LEMMA QuietGoto ==
  ASSUME ControlKept, RowsKept, NEW t \in Tasks, NEW label, Goto(t, label), label \notin Holds
  PROVE  Quiet(tasks[t], tasks'[t])
<1>1. tasks'[t].pc = label /\ tasks'[t].net = tasks[t].net /\ tasks'[t].made = tasks[t].made
  BY GotoIs DEF TaskFields
<1>2. tasks[t].net \in Nets
  BY DEF RowsKept, RowAt
<1> QED BY <1>1, <1>2 DEF Quiet

\* The labels at which a step of the store neither writes the rows nor takes hold of them.
LEMMA StoreQuiet ==
  ASSUME ControlKept, RowsKept, NEW t \in Tasks, Moved(t),
         \/ ReadBefore(t) \/ ApiFailed(t) \/ Unremove(t) \/ SaveSeed(t) \/ LoadSeed(t)
         \/ RegisterKey(t) \/ DeleteSeed(t) \/ DenyAddress(t) \/ DeleteDone(t) \/ MatchSetup(t)
         \/ LogoutSession(t) \/ ClearVault(t) \/ RepairRead(t) \/ NamingStep(t) \/ Done(t) \/ ApplyDeveloperMode(t)
  PROVE  RowsKept'
<1>0. /\ Shaped(tasks[t], TaskFields) /\ tasks[t].net \in Nets /\ DOMAIN tasks = Tasks
      /\ LiveNet \in Nets
  BY WhereWeAre DEF ControlKept, Controlled, RowsKept, RowAt
<1>1. CASE Finish(t) /\ UNCHANGED <<accounts, active, nextId>>
  BY <1>1, FinishIs, RowsQuiet
<1>2. ASSUME NEW label \in {"match", "done", "denylist", "cleared", "setup", "unvaultAll", "wipe"},
             Goto(t, label), UNCHANGED <<accounts, active, nextId, dev>>
      PROVE  RowsKept'
  <2>1. Quiet(tasks[t], tasks'[t])
    BY <1>2, QuietGoto DEF Holds, Writes
  <2> QED BY <1>2, <2>1, RowsQuiet
<1>3. CASE ApiFailed(t) \/ RegisterKey(t) \/ Done(t) \/ ApplyDeveloperMode(t)
  BY <1>1, <1>3 DEF ApiFailed, RegisterKey, Done, ApplyDeveloperMode, store
<1>4. CASE Unremove(t) \/ SaveSeed(t) \/ DeleteSeed(t) \/ DenyAddress(t)
  BY <1>2, <1>4 DEF Unremove, SaveSeed, DeleteSeed, DenyAddress
<1>5. CASE DeleteDone(t) \/ LogoutSession(t) \/ ClearVault(t)
  BY <1>2, <1>5 DEF DeleteDone, LogoutSession, ClearVault, store
<1>6. CASE LoadSeed(t)
  BY <1>1, <1>2, <1>6 DEF LoadSeed, store
<1>7. CASE ReadBefore(t)
  <2>. DEFINE r == [tasks[t] EXCEPT !.net = LiveNet, !.list = Bucket,
                                    !.act = active[Scope][LiveNet], !.pc = "api"]
  <2>1. tasks' = [tasks EXCEPT ![t] = r] /\ UNCHANGED <<accounts, active, nextId, dev>>
    BY <1>7 DEF ReadBefore, ReadBucket, store
  <2>2. Quiet(tasks[t], r)
    BY <1>0 DEF Quiet, Shaped, TaskFields, Holds, Writes
  <2>. HIDE DEF r
  <2> QED BY <1>0, <2>1, <2>2, RowsQuiet
<1>8. CASE MatchSetup(t)
  <2>. DEFINE label == IF tasks[t].op = "GET_ACCOUNTS" THEN "repair" ELSE "done"
              r == [tasks[t] EXCEPT !.pc = label, !.net = "testnet"]
  <2>1. tasks' = [tasks EXCEPT ![t] = r] /\ UNCHANGED <<accounts, active, nextId, dev>>
    BY <1>8 DEF MatchSetup
  <2>2. label \notin Holds
    BY DEF Holds, Writes
  <2>. HIDE DEF label
  <2>3. Quiet(tasks[t], r)
    BY <1>0, <2>2 DEF Quiet, Shaped, TaskFields, Nets
  <2>. HIDE DEF r
  <2> QED BY <1>0, <2>1, <2>3, RowsQuiet
<1>9. CASE RepairRead(t)
  <2>1. PICK mine : tasks' = [tasks EXCEPT ![t].pc = "repairNext", ![t].mine = mine]
    BY <1>9 DEF RepairRead
  <2>. DEFINE r == [tasks[t] EXCEPT !.pc = "repairNext", !.mine = mine]
  <2>2. tasks' = [tasks EXCEPT ![t] = r] /\ UNCHANGED <<accounts, active, nextId, dev>>
    BY <1>9, <2>1 DEF RepairRead, store
  <2>3. Quiet(tasks[t], r)
    BY <1>0 DEF Quiet, Shaped, TaskFields, Holds, Writes
  <2>. HIDE DEF r
  <2> QED BY <1>0, <2>2, <2>3, RowsQuiet
<1>10. CASE NamingStep(t)
  <2>1. /\ tasks' = [tasks EXCEPT ![t] = tasks'[t]] /\ UNCHANGED <<accounts, active, nextId, dev>>
        /\ Finish(t) \/ Quiet(tasks[t], tasks'[t])
    BY <1>0, <1>10, NamingIs DEF Quiet, Holds, Writes, NameLabels, store
  <2> QED BY <1>1, <2>1, RowsQuiet
<1> QED BY <1>3, <1>4, <1>5, <1>6, <1>7, <1>8, <1>9, <1>10

\* The same of the steps of a sync.
LEMMA SyncQuiet ==
  ASSUME ControlKept, RowsKept, NEW t \in Tasks, Moved(t),
         \/ StoreDraftMeta(t) \/ SyncRead(t) \/ SyncInvites(t) \/ SyncRemoved(t) \/ DropSession(t)
         \/ ListWallets(t) \/ InvitesRead(t) \/ ClearInvite(t) \/ NoteInvite(t) \/ InviteNext(t)
         \/ Preview(t) \/ Predict(t) \/ OwnDraft(t) \/ Deployed(t) \/ RegisterKnown(t)
         \/ ConfirmListed(t) \/ Readd(t) \/ PatchInvite(t)
  PROVE  RowsKept'
<1>0. /\ Shaped(tasks[t], TaskFields) /\ tasks[t].net \in Nets /\ DOMAIN tasks = Tasks
      /\ tasks[t].ret \notin Holds /\ tasks[t].next \notin Holds /\ tasks[t].phase \notin Holds
      /\ UNCHANGED <<accounts, active, nextId, dev>>
  <2>1. Controlled(tasks[t]) /\ tasks[t].net \in Nets /\ DOMAIN tasks = Tasks
    BY DEF ControlKept, RowsKept, RowAt
  <2>2. UNCHANGED <<accounts, active, nextId, dev>>
    BY DEF StoreDraftMeta, SyncRead, SyncInvites, SyncRemoved, DropSession, ListWallets, InvitesRead, ClearInvite,
           NoteInvite, InviteNext, Preview, Predict, OwnDraft, Deployed, RegisterKnown, ConfirmListed, Readd,
           PatchInvite, OnlyTasks, store
  <2> QED BY <2>1, <2>2 DEF Controlled, Rets, Nexts, Phases, Holds, Writes
<1>1. ASSUME NEW label, label \notin Holds, Goto(t, label) PROVE RowsKept'
  BY <1>0, <1>1, QuietGoto, RowsQuiet
\* The fields of a sync, at a label that holds no row.
<1>2. ASSUME NEW r, tasks' = [tasks EXCEPT ![t] = r], r.pc \notin Holds, r.net = tasks[t].net,
             r.made = tasks[t].made PROVE RowsKept'
  BY <1>0, <1>2, RowsQuiet DEF Quiet
<1>3. CASE StoreDraftMeta(t) \/ DropSession(t) \/ NoteInvite(t) \/ Readd(t)
  <2>1. \E label \in {"done", tasks[t].ret, tasks[t].next} : Goto(t, label)
    BY <1>3 DEF StoreDraftMeta, DropSession, NoteInvite, Readd
  <2> QED BY <1>0, <1>1, <2>1 DEF Holds, Writes
<1>4. CASE Deployed(t) \/ ConfirmListed(t)
  <2>1. \E label \in {"register", "clear", tasks[t].phase} : Goto(t, label)
    BY <1>4 DEF Deployed, ConfirmListed, GiveUp
  <2> QED BY <1>0, <1>1, <2>1 DEF Holds, Writes
<1>5. CASE SyncRead(t)
  <2>. DEFINE r == [tasks[t] EXCEPT !.mine = Bucket, !.pc = "syncInvites"]
  <2>1. tasks' = [tasks EXCEPT ![t] = r]
    BY <1>5 DEF SyncRead
  <2>2. r.pc = "syncInvites" /\ r.net = tasks[t].net /\ r.made = tasks[t].made
    BY <1>0 DEF Shaped, TaskFields
  <2>. HIDE DEF r
  <2> QED BY <1>2, <2>1, <2>2 DEF Holds, Writes
<1>6. CASE SyncInvites(t)
  <2>. DEFINE r == [tasks[t] EXCEPT !.inv = invites[Scope], !.pc = "syncRemoved"]
  <2>1. tasks' = [tasks EXCEPT ![t] = r]
    BY <1>6 DEF SyncInvites
  <2>2. r.pc = "syncRemoved" /\ r.net = tasks[t].net /\ r.made = tasks[t].made
    BY <1>0 DEF Shaped, TaskFields
  <2>. HIDE DEF r
  <2> QED BY <1>2, <2>1, <2>2 DEF Holds, Writes
<1>7. CASE SyncRemoved(t)
  <2>. DEFINE label == IF tasks[t].mine = <<>> THEN "dropSession"
                       ELSE IF LocalSigners(tasks[t].mine) = {} THEN tasks[t].ret ELSE "list"
              r == [tasks[t] EXCEPT !.draft = meta[Scope], !.gone = removed[Scope][LiveNet], !.pc = label]
  <2>1. tasks' = [tasks EXCEPT ![t] = r]
    BY <1>7 DEF SyncRemoved
  <2>2. label \notin Holds
    BY <1>0 DEF Holds, Writes
  <2>. HIDE DEF label
  <2>3. r.pc = label /\ r.net = tasks[t].net /\ r.made = tasks[t].made
    BY <1>0 DEF Shaped, TaskFields
  <2>. HIDE DEF r
  <2> QED BY <1>2, <2>1, <2>2, <2>3
<1>8. CASE ListWallets(t)
  <2>. DEFINE r == [tasks[t] EXCEPT !.todo = listed[Scope], !.pc = "wallets"]
              s == [tasks[t] EXCEPT !.todo = tasks[t].inv, !.phase = "invites", !.pc = "invites"]
  <2>1. tasks' = [tasks EXCEPT ![t] = r] \/ tasks' = [tasks EXCEPT ![t] = s]
    BY <1>8 DEF ListWallets
  <2>2. /\ r.pc = "wallets" /\ r.net = tasks[t].net /\ r.made = tasks[t].made
        /\ s.pc = "invites" /\ s.net = tasks[t].net /\ s.made = tasks[t].made
    BY <1>0 DEF Shaped, TaskFields
  <2>. HIDE DEF r, s
  <2> QED BY <1>2, <2>1, <2>2 DEF Holds, Writes
<1>9. CASE InvitesRead(t)
  <2>1. ASSUME NEW bag, NEW label \in {"cleared1", "noted"},
               tasks' = [tasks EXCEPT ![t].bag = bag, ![t].pc = label]
        PROVE  RowsKept'
    <3>. DEFINE r == [tasks[t] EXCEPT !.bag = bag, !.pc = label]
    <3>1. tasks' = [tasks EXCEPT ![t] = r]
      BY <2>1
    <3>2. r.pc = label /\ r.net = tasks[t].net /\ r.made = tasks[t].made
      BY <1>0 DEF Shaped, TaskFields
    <3>. HIDE DEF r
    <3> QED BY <1>2, <2>1, <3>1, <3>2 DEF Holds, Writes
  <2>2. \E bag : \E label \in {"cleared1", "noted"} :
            tasks' = [tasks EXCEPT ![t].bag = bag, ![t].pc = label]
    BY <1>9 DEF InvitesRead
  <2> QED BY <2>1, <2>2
<1>10. CASE ClearInvite(t)
  <2>. DEFINE label == IF tasks[t].op = "REMOVE_INVITE" THEN "done" ELSE tasks[t].phase
              left == Others(tasks[t].inv, TheInvite(t))
              r == [tasks[t] EXCEPT !.inv = left, !.hit = None, !.pc = label]
  <2>1. tasks' = [tasks EXCEPT ![t] = r]
    BY <1>10 DEF ClearInvite
  <2>2. label \notin Holds
    BY <1>0 DEF Holds, Writes
  <2>. HIDE DEF label, left
  <2>3. r.pc = label /\ r.net = tasks[t].net /\ r.made = tasks[t].made
    BY <1>0 DEF Shaped, TaskFields
  <2>. HIDE DEF r
  <2> QED BY <1>2, <2>1, <2>2, <2>3
<1>11. CASE InviteNext(t)
  <2>. DEFINE r == [tasks[t] EXCEPT !.hit = None, !.pc = "ownDraft"]
  <2>1. \/ tasks' = [tasks EXCEPT ![t] = r]
        \/ \E i : \E label \in {"known", "preview"} :
               tasks' = [tasks EXCEPT ![t].todo = @ \ {i}, ![t].hit = i, ![t].pc = label]
    BY <1>11 DEF InviteNext
  <2>2. CASE tasks' = [tasks EXCEPT ![t] = r]
    <3>1. r.pc = "ownDraft" /\ r.net = tasks[t].net /\ r.made = tasks[t].made
      BY <1>0 DEF Shaped, TaskFields
    <3>. HIDE DEF r
    <3> QED BY <1>2, <2>2, <3>1 DEF Holds, Writes
  <2>3. ASSUME NEW i, NEW label \in {"known", "preview"},
               tasks' = [tasks EXCEPT ![t].todo = @ \ {i}, ![t].hit = i, ![t].pc = label]
        PROVE  RowsKept'
    <3>. DEFINE s == [tasks[t] EXCEPT !.todo = @ \ {i}, !.hit = i, !.pc = label]
    <3>1. s.pc = label /\ s.net = tasks[t].net /\ s.made = tasks[t].made
      BY <1>0 DEF Shaped, TaskFields
    <3>2. tasks' = [tasks EXCEPT ![t] = s]
      BY <2>3
    <3>. HIDE DEF s
    <3> QED BY <1>2, <3>1, <3>2 DEF Holds, Writes
  <2>. HIDE DEF r
  <2>4. CASE \E i : \E label \in {"known", "preview"} :
               tasks' = [tasks EXCEPT ![t].todo = @ \ {i}, ![t].hit = i, ![t].pc = label]
    BY <2>3, <2>4
  <2> QED BY <2>1, <2>2, <2>4
<1>12. CASE Preview(t) \/ Predict(t)
  <2>1. ASSUME NEW hit, NEW next,
               tasks' = [tasks EXCEPT ![t].hit = hit, ![t].next = next, ![t].pc = "note"]
        PROVE  RowsKept'
    <3>. DEFINE s == [tasks[t] EXCEPT !.hit = hit, !.next = next, !.pc = "note"]
    <3>1. tasks' = [tasks EXCEPT ![t] = s]
      BY <2>1
    <3>2. s.pc = "note" /\ s.net = tasks[t].net /\ s.made = tasks[t].made
      BY <1>0 DEF Shaped, TaskFields
    <3>. HIDE DEF s
    <3> QED BY <1>2, <3>1, <3>2 DEF Holds, Writes
  <2>2. CASE GiveUp(t) \/ Goto(t, "draft")
    BY <1>0, <1>1, <2>2 DEF GiveUp, Holds, Writes
  <2>3. CASE Preview(t)
    <3>1. GiveUp(t) \/ \E hit : tasks' = [tasks EXCEPT ![t].hit = hit, ![t].next = "predict", ![t].pc = "note"]
      BY <2>3 DEF Preview
    <3> QED BY <2>1, <2>2, <3>1
  <2>4. CASE Predict(t)
    <3>1. \/ Goto(t, "draft")
          \/ \E hit : tasks' = [tasks EXCEPT ![t].hit = hit, ![t].next = "draft", ![t].pc = "note"]
      BY <2>4 DEF Predict
    <3> QED BY <2>1, <2>2, <3>1
  <2> QED BY <1>12, <2>3, <2>4
<1>13. CASE OwnDraft(t)
  <2>1. ASSUME NEW hit, tasks' = [tasks EXCEPT ![t].hit = hit, ![t].phase = "activateNew", ![t].pc = "draft"]
        PROVE  RowsKept'
    <3>. DEFINE s == [tasks[t] EXCEPT !.hit = hit, !.phase = "activateNew", !.pc = "draft"]
    <3>1. s.pc = "draft" /\ s.net = tasks[t].net /\ s.made = tasks[t].made
      BY <1>0 DEF Shaped, TaskFields
    <3>2. tasks' = [tasks EXCEPT ![t] = s]
      BY <2>1
    <3>. HIDE DEF s
    <3> QED BY <1>2, <3>1, <3>2 DEF Holds, Writes
  <2>2. CASE Goto(t, "activateNew")
    BY <1>1, <2>2 DEF Holds, Writes
  <2>3. Goto(t, "activateNew") \/ \E hit :
           tasks' = [tasks EXCEPT ![t].hit = hit, ![t].phase = "activateNew", ![t].pc = "draft"]
    BY <1>13 DEF OwnDraft
  <2> QED BY <2>1, <2>2, <2>3
<1>14. CASE RegisterKnown(t)
  <2>. DEFINE s == [tasks[t] EXCEPT !.next = "confirm", !.pc = "note"]
  <2>1. tasks' = [tasks EXCEPT ![t] = s] \/ \E label \in {"confirm", tasks[t].phase} : Goto(t, label)
    BY <1>14 DEF RegisterKnown, GiveUp
  <2>2. s.pc = "note" /\ s.net = tasks[t].net /\ s.made = tasks[t].made
    BY <1>0 DEF Shaped, TaskFields
  <2>. HIDE DEF s
  <2> QED BY <1>0, <1>1, <1>2, <2>1, <2>2 DEF Holds, Writes
<1>15. CASE PatchInvite(t)
  <2>1. PICK bag : tasks' = [tasks EXCEPT ![t].bag = bag, ![t].pc = "add"]
    BY <1>15 DEF PatchInvite
  <2>. DEFINE s == [tasks[t] EXCEPT !.bag = bag, !.pc = "add"]
  <2>2. s.pc = "add" /\ s.net = tasks[t].net /\ s.made = tasks[t].made
    BY <1>0 DEF Shaped, TaskFields
  <2>3. tasks' = [tasks EXCEPT ![t] = s]
    BY <2>1
  <2>. HIDE DEF s
  <2> QED BY <1>2, <2>2, <2>3 DEF Holds, Writes
<1> QED BY <1>3, <1>4, <1>5, <1>6, <1>7, <1>8, <1>9, <1>10, <1>11, <1>12, <1>13, <1>14, <1>15

\* What is stored of an answer is one credential with its key data, or without it.
LEMMA MergedIsGood ==
  ASSUME NEW r, GoodRow(r), NEW old,
         old # None => GoodRow(old) /\ old.id \in Nat /\ old.mode = r.mode
  PROVE  GoodRow(Merged(r, old)) /\ Merged(r, old).id \in Nat \cup {None}
<1>. DEFINE pair == PairOf(r, old)
            addr == AddrOf(r, old)
            id == IF old = None THEN None ELSE old.id
            m == [r EXCEPT !.id = id, !.addr = addr, !.cred = pair.cred, !.data = pair.data]
<1>1. Merged(r, old) = m
  BY DEF Merged
<1>2. id \in Nat \cup {None}
  OBVIOUS
<1>3. pair.data \in {None, pair.cred} /\ (r.mode = "passkey" \/ pair.cred = None)
  <2>1. CASE old = None
    BY <2>1 DEF PairOf, FieldsOf, Or, GoodRow
  <2>2. CASE old # None
    <3>1. r.data \in {None, r.cred} /\ old.data \in {None, old.cred}
          /\ (r.mode = "passkey" \/ r.cred = None)
      BY <2>2 DEF GoodRow
    <3>2. CASE Full(r) \/ r.mode # "passkey" \/ ~Full(old)
      <4>1. pair = [cred |-> Or(r.cred, old.cred), data |-> Or(r.data, old.data)]
        BY <2>2, <3>2 DEF PairOf, FieldsOf
      <4>2. pair.data \in {None, pair.cred}
        <5>1. CASE r.data # None
          BY <3>1, <4>1, <5>1 DEF Or
        <5>2. CASE r.data = None /\ r.cred = None
          BY <3>1, <4>1, <5>2 DEF Or
        <5>3. CASE r.data = None /\ r.cred # None /\ old.data = None
          BY <4>1, <5>3 DEF Or
        <5>4. ~(r.data = None /\ r.cred # None /\ old.data # None)
          BY <3>1, <3>2 DEF Full
        <5> QED BY <5>1, <5>2, <5>3, <5>4
      <4>5. r.mode = "passkey" \/ pair.cred = None
        <5>1. CASE r.cred = None
          <6>1. pair.cred = old.cred /\ old.mode = r.mode /\ (old.mode = "passkey" \/ old.cred = None)
            BY <2>2, <4>1, <5>1 DEF Or, GoodRow
          <6> QED BY <6>1
        <5> QED BY <3>1, <5>1
      <4>. HIDE DEF pair
      <4> QED BY <4>2, <4>5
    <3>3. CASE ~(Full(r) \/ r.mode # "passkey" \/ ~Full(old))
      <4>1. pair = [cred |-> old.cred, data |-> old.data]
        BY <2>2, <3>3 DEF PairOf
      <4> QED BY <3>1, <3>3, <4>1
    <3>. HIDE DEF pair
    <3> QED BY <3>2, <3>3
  <2>. HIDE DEF pair
  <2> QED BY <2>1, <2>2
<1>. HIDE DEF pair, addr, id
<1>4. GoodRow(m) /\ m.id = id
  BY <1>3 DEF GoodRow, Shaped, RowFields
<1>. HIDE DEF m
<1> QED BY <1>1, <1>2, <1>4

LEMMA NewRowIsGood ==
  ASSUME NEW mode, NEW addr, NEW cred, NEW data, NEW g, data \in {None, cred},
         mode = "passkey" \/ cred = None
  PROVE  GoodRow(NewRow(mode, addr, cred, data, g)) /\ NewRow(mode, addr, cred, data, g).id = None
BY DEF GoodRow, NewRow, Shaped, RowFields

LEMMA WalletRowIsGood == \A w : GoodRow(WalletRow(w)) /\ WalletRow(w).id = None
BY NewRowIsGood DEF WalletRow

\* A handler that is about to create a row.
LEMMA RowsCreate ==
  ASSUME ControlKept, RowsKept, NEW t \in Tasks, Moved(t),
         UNCHANGED <<accounts, active, nextId, dev>>,
         NEW r, tasks' = [tasks EXCEPT ![t] = r], r.pc = "create", r.net = tasks[t].net,
         r.made = tasks[t].made, GoodRow(r.row), r.row.id = None
  PROVE  RowsKept'
<1>1. tasks'[t] = r /\ r.op = tasks[t].op /\ tasks[t].pc # "idle"
  <2>1. tasks'[t] = r /\ NoTask.pc = "idle"
    BY NoTaskControlled DEF ControlKept
  <2> QED BY <2>1 DEF Moved
<1>2. RowAt(r)
  BY DEF RowAt, RowsKept, Writes
<1>3. scene.busy = 1 => AloneAt(r)
  BY <1>1 DEF RowsKept, AloneAt, Writes
<1> QED BY <1>1, <1>2, <1>3, RowsRest

LEMMA StoreHolds ==
  ASSUME ControlKept, RowsKept, NEW t \in Tasks, Moved(t),
         ApiAnswered(t) \/ CreateRead(t) \/ UpsertRead(t) \/ ReadRows(t) \/ PatchRead(t)
  PROVE  RowsKept'
<1>0. /\ Shaped(tasks[t], TaskFields) /\ RowAt(tasks[t]) /\ tasks[t].net \in Nets
      /\ DOMAIN tasks = Tasks /\ LiveNet \in Nets /\ tasks[t].pc # "idle"
      /\ scene.busy = 1 => AloneAt(tasks[t])
      /\ tasks[t].op \in scene.ops /\ MayBeAt(tasks[t].op, tasks[t].pc)
  BY WhereWeAre DEF ControlKept, Controlled, RowsKept, RowAt, Moved
<1>1. UNCHANGED <<accounts, active, nextId, dev>>
  BY DEF ApiAnswered, CreateRead, UpsertRead, ReadRows, PatchRead, store
<1>2. /\ RowList(Bucket) /\ (MayPoint => Points(Bucket, active[Scope][LiveNet]))
      /\ \A n \in Nets : RowList(accounts[Scope][n]) /\ (MayPoint => Points(accounts[Scope][n], active[Scope][n]))
  <2>1. \A e \in Envs, n \in Nets : RowList(accounts[e][n]) /\ (MayPoint => Points(accounts[e][n], active[e][n]))
    BY DEF RowsKept
  <2>2. Scope \in Envs /\ LiveNet \in Nets
    BY WhereWeAre
  <2> QED BY <2>1, <2>2 DEF Bucket
<1>3. CASE ApiAnswered(t)
  <2>1. ASSUME NEW mode, NEW addr, NEW cred, NEW data, NEW g, data \in {None, cred},
               mode = "passkey" \/ cred = None,
               NEW row, row = NewRow(mode, addr, cred, data, g), NEW r, tasks' = [tasks EXCEPT ![t] = r],
               r.row = row, r.pc = "create", r.net = tasks[t].net, r.made = tasks[t].made
        PROVE  RowsKept'
    <3>1. GoodRow(row) /\ row.id = None
      BY <2>1, NewRowIsGood
    <3> QED BY <1>1, <2>1, <3>1, RowsCreate
  <2>2. CASE tasks[t].op = "CREATE_OR_CONNECT_PASSKEY"
    <3>. DEFINE addr == Or(Kept(t), FactoryOf[tasks[t].arg])
                row == NewRow("passkey", addr, tasks[t].arg, tasks[t].arg, None)
                r == [tasks[t] EXCEPT !.pc = "create", !.row = row]
    <3>1. tasks' = [tasks EXCEPT ![t] = r]
      BY <1>3, <2>2 DEF ApiAnswered
    <3>. HIDE DEF addr
    <3>2. row = NewRow("passkey", addr, tasks[t].arg, tasks[t].arg, None)
      OBVIOUS
    <3>. HIDE DEF row
    <3>3. r.row = row /\ r.pc = "create" /\ r.net = tasks[t].net /\ r.made = tasks[t].made
      BY <1>0 DEF Shaped, TaskFields
    <3>. HIDE DEF r
    <3> QED BY <2>1, <3>1, <3>2, <3>3
  <2>3. CASE tasks[t].op \in {"PASSKEY_REG_FINISH", "PASSKEY_AUTH_FINISH"}
    <3>. DEFINE then == IF tasks[t].op = "PASSKEY_AUTH_FINISH" THEN "unremove" ELSE "done"
    <3>1. PICK data \in {tasks[t].arg, None} : tasks' = [tasks EXCEPT ![t].pc = "create",
                  ![t].row = NewRow("passkey", FactoryOf[tasks[t].arg], tasks[t].arg, data, None),
                  ![t].then = then]
      BY <1>3, <2>3 DEF ApiAnswered
    <3>. DEFINE row == NewRow("passkey", FactoryOf[tasks[t].arg], tasks[t].arg, data, None)
                r == [tasks[t] EXCEPT !.pc = "create", !.row = row, !.then = then]
    <3>2. tasks' = [tasks EXCEPT ![t] = r]
      BY <3>1
    <3>3. row = NewRow("passkey", FactoryOf[tasks[t].arg], tasks[t].arg, data, None)
      OBVIOUS
    <3>. HIDE DEF row, then
    <3>4. r.row = row /\ r.pc = "create" /\ r.net = tasks[t].net /\ r.made = tasks[t].made
      BY <1>0 DEF Shaped, TaskFields
    <3>. HIDE DEF r
    <3> QED BY <2>1, <3>2, <3>3, <3>4
  <2>4. CASE tasks[t].op = "IMPORT_MNEMONIC_ACCOUNT"
    <3>1. PICK remember \in BOOLEAN : tasks' = [tasks EXCEPT ![t].pc = "create",
                  ![t].row = NewRow("mnemonic", FactoryOf[tasks[t].arg], None, None, tasks[t].arg),
                  ![t].remember = remember, ![t].then = "seed"]
      BY <1>3, <2>4 DEF ApiAnswered
    <3>. DEFINE row == NewRow("mnemonic", FactoryOf[tasks[t].arg], None, None, tasks[t].arg)
                r == [tasks[t] EXCEPT !.pc = "create", !.row = row, !.remember = remember, !.then = "seed"]
    <3>2. tasks' = [tasks EXCEPT ![t] = r]
      BY <3>1
    <3>3. GoodRow(row) /\ row.id = None
      BY NewRowIsGood
    <3>. HIDE DEF row
    <3>4. r.row = row /\ r.pc = "create" /\ r.net = tasks[t].net /\ r.made = tasks[t].made
      BY <1>0 DEF Shaped, TaskFields
    <3>. HIDE DEF r
    <3>5. GoodRow(r.row) /\ r.row.id = None
      BY <3>3, <3>4
    <3> QED BY <1>1, <3>2, <3>4, <3>5, RowsCreate
  <2> QED BY <1>3, <2>2, <2>3, <2>4 DEF ApiAnswered
<1>4. CASE CreateRead(t)
  <2>. DEFINE old == Existing(Bucket, tasks[t].row)
              row == Merged(tasks[t].row, old)
              r == [tasks[t] EXCEPT !.row = row, !.pc = "upsert"]
  <2>1. tasks' = [tasks EXCEPT ![t] = r] /\ GoodRow(tasks[t].row)
    BY <1>0, <1>4 DEF CreateRead, RowAt, At
  <2>2. old = None \/ (old \in RangeOf(Bucket) /\ old.mode = tasks[t].row.mode)
    BY <1>2, ListDomain, FirstIsThere DEF Existing, RowList
  <2>3. old # None => GoodRow(old) /\ old.id \in Nat /\ old.mode = tasks[t].row.mode
    BY <1>2, <2>2 DEF RowList
  <2>. HIDE DEF old
  <2>4. GoodRow(row) /\ row.id \in Nat \cup {None}
    BY <2>1, <2>3, MergedIsGood
  <2>. HIDE DEF row
  <2>5. r.row = row /\ r.pc = "upsert" /\ r.net = tasks[t].net /\ r.made = tasks[t].made /\ r.op = tasks[t].op
    BY <1>0 DEF Shaped, TaskFields
  <2>6. tasks'[t] = r
    BY <1>0, <2>1
  <2>. HIDE DEF r
  <2>7. RowAt(r) /\ (scene.busy = 1 => AloneAt(r))
    BY <1>0, <2>4, <2>5 DEF RowAt, AloneAt, Writes
  <2> QED BY <1>1, <2>6, <2>7, RowsRest
<1>5. ASSUME NEW n \in Nets, NEW r, tasks' = [tasks EXCEPT ![t] = r], r.op = tasks[t].op, r.net = n,
             r.list = accounts[Scope][n], r.act = active[Scope][n], r.made = tasks[t].made,
             r.pc \in Writes, r.pc = "patch" \/ n = LiveNet,
             r.pc = "patch" => r.row.id \in IdsOf(r.list),
             r.pc = "write" => GoodRow(r.row) /\ r.row.id \in Nat \cup {None},
             r.pc = "activate" /\ MayPoint => r.arg \in IdsOf(r.list)
      PROVE  RowsKept'
  <2>1. tasks'[t] = r
    BY <1>0, <1>5
  <2>2. RowAt(r)
    BY <1>2, <1>5 DEF RowAt, Writes
  <2>3. scene.busy = 1 => AloneAt(r)
    BY <1>0, <1>5 DEF AloneAt, Writes
  <2> QED BY <1>1, <2>1, <2>2, <2>3, RowsRest
<1>6. CASE UpsertRead(t)
  <2>. DEFINE r == [tasks[t] EXCEPT !.net = LiveNet, !.list = Bucket, !.act = active[Scope][LiveNet],
                                    !.pc = "write"]
  <2>1. tasks' = [tasks EXCEPT ![t] = r] /\ GoodRow(tasks[t].row) /\ tasks[t].row.id \in Nat \cup {None}
    BY <1>0, <1>6 DEF UpsertRead, ReadBucket, RowAt, At
  <2>2. /\ r.op = tasks[t].op /\ r.net = LiveNet /\ r.list = Bucket /\ r.act = active[Scope][LiveNet]
        /\ r.made = tasks[t].made /\ r.pc = "write" /\ r.row = tasks[t].row
    BY <1>0 DEF Shaped, TaskFields
  <2>. HIDE DEF r
  <2> QED BY <1>0, <1>5, <2>1, <2>2 DEF Writes, Bucket
<1>7. CASE ReadRows(t)
  <2>. DEFINE label == CASE tasks[t].op = "DELETE_ACCOUNT" -> "delete"
                         [] tasks[t].op = "RENAME_ACCOUNT" -> "rename"
                         [] OTHER -> "activate"
              r == [tasks[t] EXCEPT !.net = LiveNet, !.list = Bucket, !.act = active[Scope][LiveNet],
                                    !.pc = label]
  <2>1. tasks' = [tasks EXCEPT ![t] = r] /\ tasks[t].pc = "read"
    BY <1>7 DEF ReadRows, ReadBucket, At
  <2>2. /\ label \in {"delete", "rename", "activate"}
        /\ label = "activate" => tasks[t].op \in {"SET_ACTIVE_ACCOUNT", "SYNC"}
    BY <1>0, <2>1 DEF MayBeAt
  <2>. HIDE DEF label
  <2>3. /\ r.op = tasks[t].op /\ r.net = LiveNet /\ r.list = Bucket /\ r.act = active[Scope][LiveNet]
        /\ r.made = tasks[t].made /\ r.pc = label /\ r.arg = tasks[t].arg
    BY <1>0 DEF Shaped, TaskFields
  <2>. HIDE DEF r
  <2>4. label = "activate" /\ MayPoint => tasks[t].arg \in IdsOf(Bucket)
    <3>1. label = "activate" /\ MayPoint => scene.busy = 1
      BY <1>0, <2>2 DEF MayPoint
    <3> QED BY <1>0, <2>1, <3>1 DEF AloneAt
  <2> QED BY <1>0, <1>5, <2>1, <2>2, <2>3, <2>4 DEF Writes, Bucket
<1>8. CASE PatchRead(t)
  <2>. DEFINE T == tasks[t]
              now == accounts[Scope][T.net]
              label == IF Patchable(now, T.mine[1]) THEN "patch" ELSE "repairNext"
              s == [T EXCEPT !.list = now, !.act = active[Scope][T.net], !.row = T.mine[1],
                             !.mine = Tail(@), !.pc = label]
              u == [T EXCEPT !.net = "mainnet", !.pc = "repair"]
  <2>1. T.pc = "repairNext"
        /\ (tasks' = [tasks EXCEPT ![t] = s] \/ tasks' = [tasks EXCEPT ![t] = u] \/ Goto(t, "done"))
    BY <1>8 DEF PatchRead, At, Goto
  <2>2. label = "patch" => T.mine[1].id \in IdsOf(now)
    BY DEF Patchable, IdsOf
  <2>3. label \in {"patch", "repairNext"}
    OBVIOUS
  <2>4. CASE Goto(t, "done")
    <3>1. Quiet(tasks[t], tasks'[t])
      BY <2>4, QuietGoto DEF Holds, Writes
    <3> QED BY <1>1, <3>1, RowsQuiet
  <2>5. CASE tasks' = [tasks EXCEPT ![t] = u]
    <3>1. Quiet(tasks[t], u)
      BY <1>0 DEF Quiet, Holds, Writes, Nets, Shaped, TaskFields
    <3>. HIDE DEF u
    <3> QED BY <1>0, <1>1, <2>5, <3>1, RowsQuiet
  <2>6. CASE tasks' = [tasks EXCEPT ![t] = s]
    <3>. HIDE DEF now, label
    <3>1. /\ s.op = T.op /\ s.net = T.net /\ s.list = now /\ s.act = active[Scope][T.net]
          /\ s.made = T.made /\ s.pc = label /\ s.row = T.mine[1]
      BY <1>0 DEF Shaped, TaskFields
    <3>2. s.list = accounts[Scope][T.net]
      BY <3>1 DEF now
    <3>. HIDE DEF s
    <3>3. CASE label = "patch"
      BY <1>0, <1>5, <2>2, <2>6, <3>1, <3>2, <3>3 DEF Writes
    <3>4. CASE label = "repairNext"
      BY <1>0, <1>1, <2>6, <3>1, <3>4, RowsQuiet DEF Quiet, Holds, Writes
    <3> QED BY <2>3, <3>3, <3>4
  <2>. HIDE DEF s, u
  <2> QED BY <2>1, <2>4, <2>5, <2>6
<1> QED BY <1>3, <1>4, <1>6, <1>7, <1>8

LEMMA SyncHolds ==
  ASSUME ControlKept, RowsKept, NEW t \in Tasks, Moved(t),
         \/ ImportNext(t) \/ EnsuredRow(t) \/ RegisterWallet(t) \/ ActivateNew(t) \/ ListOne(t)
         \/ LastResort(t) \/ Verify(t) \/ LocalRow(t)
  PROVE  RowsKept'
<1>0. /\ Shaped(tasks[t], TaskFields) /\ RowAt(tasks[t]) /\ tasks[t].net \in Nets
      /\ DOMAIN tasks = Tasks /\ LiveNet \in Nets /\ tasks[t].pc # "idle"
      /\ scene.busy = 1 => AloneAt(tasks[t])
      /\ tasks[t].op \in scene.ops /\ MayBeAt(tasks[t].op, tasks[t].pc)
      /\ tasks[t].ret \notin Holds /\ tasks[t].next \notin Holds /\ tasks[t].phase \notin Holds
  <2>1. Controlled(tasks[t]) /\ DOMAIN tasks = Tasks /\ tasks[t].pc # "idle"
    BY DEF ControlKept, Moved
  <2>2. RowAt(tasks[t]) /\ (scene.busy = 1 => AloneAt(tasks[t])) /\ tasks[t].net \in Nets
    BY <2>1 DEF RowsKept, RowAt
  <2>3. tasks[t].ret \notin Holds /\ tasks[t].next \notin Holds /\ tasks[t].phase \notin Holds
    BY <2>1 DEF Controlled, Rets, Nexts, Phases, Holds, Writes
  <2> QED BY <2>1, <2>2, <2>3, WhereWeAre DEF Controlled
<1>1. UNCHANGED <<accounts, active, nextId, dev>>
  BY DEF ImportNext, EnsuredRow, RegisterWallet, ActivateNew, ListOne, LastResort, Verify, LocalRow,
         OnlyTasks, store
<1>2. ASSUME NEW label, label \notin Holds, Goto(t, label) PROVE RowsKept'
  BY <1>1, <1>2, QuietGoto, RowsQuiet
<1>3. ASSUME NEW r, tasks' = [tasks EXCEPT ![t] = r], r.net = tasks[t].net, r.made = tasks[t].made,
             r.pc \notin Holds \/ (r.pc = "create" /\ \E w : r.row = WalletRow(w))
      PROVE  RowsKept'
  <2>1. CASE r.pc \notin Holds
    BY <1>0, <1>1, <1>3, <2>1, RowsQuiet DEF Quiet
  <2>2. CASE r.pc = "create" /\ \E w : r.row = WalletRow(w)
    <3>1. GoodRow(r.row) /\ r.row.id = None
      BY <2>2, WalletRowIsGood
    <3> QED BY <1>1, <1>3, <2>2, <3>1, RowsCreate
  <2> QED BY <1>3, <2>1, <2>2
\* Whatever is to be done about a wallet.
<1>4. ASSUME NEW w, NEW then \in {"wallets", "clear", "confirm"}, NEW after \in Ensured(t, w, then)
      PROVE  /\ Shaped(after, TaskFields) /\ after.net = tasks[t].net /\ after.made = tasks[t].made
             /\ after.pc \notin Holds \/ (after.pc = "create" /\ \E v : after.row = WalletRow(v))
  <2>. DEFINE as == [tasks[t] EXCEPT !.pc = then]
              row == WalletRow(w)
              created == [tasks[t] EXCEPT !.row = row, !.then = "ensured", !.next = then, !.pc = "create"]
  <2>1. after \in {as, created} /\ \E v : row = WalletRow(v)
    BY DEF Ensured
  <2>. HIDE DEF row
  <2>2. Shaped(as, TaskFields) /\ as.net = tasks[t].net /\ as.made = tasks[t].made /\ as.pc = then
    BY <1>0 DEF Shaped, TaskFields
  <2>3. /\ Shaped(created, TaskFields) /\ created.net = tasks[t].net /\ created.made = tasks[t].made
        /\ created.pc = "create" /\ created.row = row
    BY <1>0 DEF Shaped, TaskFields
  <2>4. then \notin Holds
    BY DEF Holds, Writes
  <2>. HIDE DEF as, created
  <2> QED BY <2>1, <2>2, <2>3, <2>4
<1>5. CASE ImportNext(t)
  <2>. DEFINE r == [tasks[t] EXCEPT !.todo = tasks[t].inv, !.phase = "invites", !.pc = "invites"]
  <2>0. tasks[t].pc = "wallets"
    BY <1>5 DEF ImportNext, At
  <2>1. CASE tasks' = [tasks EXCEPT ![t] = r]
    <3>1. r.pc = "invites" /\ r.net = tasks[t].net /\ r.made = tasks[t].made
      BY <1>0 DEF Shaped, TaskFields
    <3>. HIDE DEF r
    <3> QED BY <1>3, <2>1, <3>1 DEF Holds, Writes
  <2>2. ASSUME NEW w, tasks' = [tasks EXCEPT ![t].todo = @ \ {w}] PROVE RowsKept'
    <3>. DEFINE s == [tasks[t] EXCEPT !.todo = @ \ {w}]
    <3>1. s.pc = "wallets" /\ s.net = tasks[t].net /\ s.made = tasks[t].made
      BY <1>0, <2>0 DEF Shaped, TaskFields
    <3>2. tasks' = [tasks EXCEPT ![t] = s]
      BY <2>2
    <3>. HIDE DEF s
    <3> QED BY <1>3, <3>1, <3>2 DEF Holds, Writes
  <2>3. ASSUME NEW w, NEW hit, NEW then \in {"wallets", "clear"}, NEW after \in Ensured(t, w, then),
               tasks' = [tasks EXCEPT ![t] = [after EXCEPT !.hit = hit, !.todo = @ \ {w}]]
        PROVE  RowsKept'
    <3>. DEFINE s == [after EXCEPT !.hit = hit, !.todo = @ \ {w}]
    <3>1. /\ Shaped(after, TaskFields) /\ after.net = tasks[t].net /\ after.made = tasks[t].made
          /\ after.pc \notin Holds \/ (after.pc = "create" /\ \E v : after.row = WalletRow(v))
      BY <1>4
    <3>2. s.pc = after.pc /\ s.net = after.net /\ s.made = after.made /\ s.row = after.row
      BY <3>1 DEF Shaped, TaskFields
    <3>3. tasks' = [tasks EXCEPT ![t] = s]
      BY <2>3
    <3>. HIDE DEF s
    <3> QED BY <1>3, <3>1, <3>2, <3>3
  <2>4. CASE \E w, hit : \E then \in {"wallets", "clear"} : \E after \in Ensured(t, w, then) :
               tasks' = [tasks EXCEPT ![t] = [after EXCEPT !.hit = hit, !.todo = @ \ {w}]]
    BY <2>3, <2>4
  <2>5. CASE \E w : tasks' = [tasks EXCEPT ![t].todo = @ \ {w}]
    BY <2>2, <2>5
  <2>. HIDE DEF r
  <2>6. \/ tasks' = [tasks EXCEPT ![t] = r]
        \/ \E w : tasks' = [tasks EXCEPT ![t].todo = @ \ {w}]
        \/ \E w, hit : \E then \in {"wallets", "clear"} : \E after \in Ensured(t, w, then) :
               tasks' = [tasks EXCEPT ![t] = [after EXCEPT !.hit = hit, !.todo = @ \ {w}]]
    BY <1>5 DEF ImportNext, r
  <2> QED BY <2>1, <2>4, <2>5, <2>6
<1>6. CASE EnsuredRow(t)
  <2>. DEFINE fresh == MultisigRow(tasks[t].mine, tasks[t].row.addr) = None
              mine == IF fresh THEN Append(tasks[t].mine, tasks[t].row)
                      ELSE [i \in DOMAIN tasks[t].mine |->
                              IF tasks[t].mine[i].id = tasks[t].row.id THEN tasks[t].row
                              ELSE tasks[t].mine[i]]
              ids == IF fresh THEN Append(tasks[t].made, tasks[t].row.id) ELSE tasks[t].made
              r == [tasks[t] EXCEPT !.mine = mine, !.made = ids, !.pc = tasks[t].next]
  <2>1. tasks' = [tasks EXCEPT ![t] = r] /\ tasks[t].pc = "ensured"
    BY <1>6 DEF EnsuredRow, At
  <2>. HIDE DEF fresh
  <2>2. ASSUME scene.busy = 1, tasks[t].op = "SYNC"
        PROVE  IsList(ids) /\ RangeOf(ids) \subseteq IdsOf(Bucket)
    <3>1. IsList(tasks[t].made) /\ RangeOf(tasks[t].made) \subseteq IdsOf(Bucket) /\ tasks[t].row.id \in IdsOf(Bucket)
      BY <1>0, <2>1, <2>2 DEF AloneAt
    <3>2. /\ IsList(Append(tasks[t].made, tasks[t].row.id))
          /\ RangeOf(Append(tasks[t].made, tasks[t].row.id)) = RangeOf(tasks[t].made) \cup {tasks[t].row.id}
      BY <3>1, AppendedRows
    <3> QED BY <3>1, <3>2
  <2>. HIDE DEF mine, ids
  <2>3. r.op = tasks[t].op /\ r.pc = tasks[t].next /\ r.net = tasks[t].net /\ r.made = ids
    BY <1>0 DEF Shaped, TaskFields
  <2>4. tasks'[t] = r
    BY <1>0, <2>1
  <2>. HIDE DEF r
  <2>5. RowAt(r) /\ (scene.busy = 1 => AloneAt(r))
    BY <1>0, <2>2, <2>3 DEF RowAt, AloneAt, Holds, Writes
  <2> QED BY <1>1, <2>4, <2>5, RowsRest
<1>7. CASE RegisterWallet(t)
  <2>. DEFINE w == WalletOf[tasks[t].hit.token]
  <2>1. GiveUp(t) \/ \E after \in Ensured(t, w, "confirm") : tasks' = [tasks EXCEPT ![t] = after]
    BY <1>7 DEF RegisterWallet
  <2>. HIDE DEF w
  <2>2. ASSUME NEW after \in Ensured(t, w, "confirm"), tasks' = [tasks EXCEPT ![t] = after]
        PROVE  RowsKept'
    BY <1>3, <1>4, <2>2
  <2>3. CASE GiveUp(t)
    BY <1>0, <1>2, <2>3 DEF GiveUp
  <2> QED BY <2>1, <2>2, <2>3
<1>8. CASE ActivateNew(t)
  <2>. DEFINE first == tasks[t].op = "SYNC" /\ tasks[t].arg = TRUE /\ tasks[t].made # <<>>
              label == IF first THEN "read" ELSE tasks[t].ret
              arg == IF first THEN tasks[t].made[1] ELSE tasks[t].arg
              r == [tasks[t] EXCEPT !.pc = label, !.arg = arg]
  <2>1. tasks' = [tasks EXCEPT ![t] = r]
    BY <1>8 DEF ActivateNew
  <2>2. scene.busy = 1 /\ label = "read" => arg \in IdsOf(Bucket)
    <3>1. CASE scene.busy = 1 /\ first
      <4>1. IsList(tasks[t].made) /\ RangeOf(tasks[t].made) \subseteq IdsOf(Bucket) /\ tasks[t].made # <<>>
        BY <1>0, <3>1 DEF AloneAt
      <4>2. 1 \in DOMAIN tasks[t].made
        <5>1. RangeOf(tasks[t].made) # {}
          BY <4>1, NoRows
        <5> QED BY <4>1, <5>1, ListDomain DEF RangeOf
      <4> QED BY <3>1, <4>1, <4>2 DEF RangeOf
    <3>2. CASE ~first
      BY <1>0, <3>2 DEF Holds
    <3> QED BY <3>1, <3>2
  <2>3. label \notin Holds \/ label = "read"
    BY <1>0
  <2>. HIDE DEF label, arg
  <2>4. r.op = tasks[t].op /\ r.pc = label /\ r.net = tasks[t].net /\ r.made = tasks[t].made /\ r.arg = arg
    BY <1>0 DEF Shaped, TaskFields
  <2>5. tasks'[t] = r
    BY <1>0, <2>1
  <2>. HIDE DEF r
  <2>6. RowAt(r) /\ (scene.busy = 1 => AloneAt(r))
    BY <1>0, <2>2, <2>3, <2>4 DEF RowAt, AloneAt, Holds, Writes
  <2> QED BY <1>1, <2>5, <2>6, RowsRest
<1>9. ASSUME NEW w, NEW then, tasks' = [tasks EXCEPT ![t] = Updated(t, w, then)] PROVE RowsKept'
  <2>. DEFINE row == WalletRow(w)
              r == [tasks[t] EXCEPT !.row = row, !.then = then, !.ret = "end", !.pc = "create"]
  <2>1. tasks' = [tasks EXCEPT ![t] = r]
    BY <1>9 DEF Updated
  <2>2. \E v : row = WalletRow(v)
    OBVIOUS
  <2>. HIDE DEF row
  <2>3. r.pc = "create" /\ r.row = row /\ r.net = tasks[t].net /\ r.made = tasks[t].made
    BY <1>0 DEF Shaped, TaskFields
  <2>. HIDE DEF r
  <2> QED BY <1>3, <2>1, <2>2, <2>3
<1>10. CASE ListOne(t)
  <2>. DEFINE label == IF tasks[t].ret = "listOne" THEN "lastResort" ELSE "sync"
              s == [tasks[t] EXCEPT !.pc = label, !.ret = "listOne"]
  <2>1. \/ Goto(t, "done") \/ tasks' = [tasks EXCEPT ![t] = Updated(t, tasks[t].arg, "done")]
        \/ tasks' = [tasks EXCEPT ![t] = s]
    BY <1>10 DEF ListOne
  <2>2. label \notin Holds
    BY DEF Holds, Writes
  <2>. HIDE DEF label
  <2>3. s.pc = label /\ s.net = tasks[t].net /\ s.made = tasks[t].made
    BY <1>0 DEF Shaped, TaskFields
  <2>. HIDE DEF s
  <2>4. CASE Goto(t, "done")
    BY <1>2, <2>4 DEF Holds, Writes
  <2>5. CASE tasks' = [tasks EXCEPT ![t] = s]
    BY <1>3, <2>2, <2>3, <2>5
  <2> QED BY <1>9, <2>1, <2>4, <2>5
<1>11. CASE LastResort(t)
  <2>. DEFINE s == [tasks[t] EXCEPT !.pc = "listOne", !.ret = "end"]
  <2>1. \/ Goto(t, "done") \/ tasks' = [tasks EXCEPT ![t] = Updated(t, tasks[t].arg, "listOne")]
        \/ tasks' = [tasks EXCEPT ![t] = s]
    BY <1>11 DEF LastResort
  <2>2. s.pc = "listOne" /\ s.net = tasks[t].net /\ s.made = tasks[t].made
    BY <1>0 DEF Shaped, TaskFields
  <2>. HIDE DEF s
  <2>3. CASE Goto(t, "done")
    BY <1>2, <2>3 DEF Holds, Writes
  <2>4. CASE tasks' = [tasks EXCEPT ![t] = s]
    BY <1>3, <2>2, <2>4 DEF Holds, Writes
  <2> QED BY <1>9, <2>1, <2>3, <2>4
<1>12. CASE Verify(t)
  <2>. DEFINE row == WalletRow(tasks[t].arg)
              r == [tasks[t] EXCEPT !.row = row, !.then = "readd", !.pc = "create"]
  <2>1. Finish(t) \/ tasks' = [tasks EXCEPT ![t] = r]
    BY <1>12 DEF Verify
  <2>2. \E v : row = WalletRow(v)
    OBVIOUS
  <2>. HIDE DEF row
  <2>3. r.pc = "create" /\ r.row = row /\ r.net = tasks[t].net /\ r.made = tasks[t].made
    BY <1>0 DEF Shaped, TaskFields
  <2>. HIDE DEF r
  <2>4. CASE Finish(t)
    BY <1>1, <2>4, FinishIs, RowsQuiet
  <2>5. CASE tasks' = [tasks EXCEPT ![t] = r]
    BY <1>3, <2>2, <2>3, <2>5
  <2> QED BY <2>1, <2>4, <2>5
<1>13. CASE LocalRow(t)
  <2>. DEFINE row == WalletRow(tasks[t].arg)
              r == [tasks[t] EXCEPT !.row = row, !.pc = "create"]
  <2>1. tasks' = [tasks EXCEPT ![t] = r]
    BY <1>13 DEF LocalRow
  <2>2. \E v : row = WalletRow(v)
    OBVIOUS
  <2>. HIDE DEF row
  <2>3. r.pc = "create" /\ r.row = row /\ r.net = tasks[t].net /\ r.made = tasks[t].made
    BY <1>0 DEF Shaped, TaskFields
  <2>. HIDE DEF r
  <2> QED BY <1>3, <2>1, <2>2, <2>3
<1> QED BY <1>5, <1>6, <1>7, <1>8, <1>10, <1>11, <1>12, <1>13

\* A handler writes a list it has read, or one made from it.
LEMMA RowsWrite ==
  ASSUME ControlKept, RowsKept, NEW t \in Tasks, Moved(t), UNCHANGED dev,
         NEW n \in Nets, NEW list, NEW act, WriteBucket(n, list, act), RowList(list),
         MayPoint => Points(list, act), nextId' \in Nat,
         tasks'[t].pc \notin Holds \/ tasks'[t].pc = "ensured", tasks'[t].net \in Nets,
         scene.busy = 1 /\ tasks'[t].pc = "ensured" => n = LiveNet /\ tasks'[t].row.id \in IdsOf(list),
         scene.busy = 1 /\ tasks[t].op = "SYNC" =>
            /\ n = LiveNet /\ IdsOf(Bucket) \subseteq IdsOf(list) /\ tasks'[t].made = tasks[t].made
  PROVE  RowsKept'
<1>. DEFINE r == tasks'[t]
<1>0. /\ DOMAIN tasks = Tasks /\ tasks' = [tasks EXCEPT ![t] = r] /\ UNCHANGED scene
      /\ tasks[t].pc # "idle" /\ Scope \in Envs /\ UNCHANGED Scope /\ UNCHANGED LiveNet
      /\ LiveNet \in Nets /\ (r = NoTask \/ r.op = tasks[t].op)
  BY WhereWeAre DEF Moved, ControlKept, Scope, LiveNet
<1>1. /\ accounts' = [accounts EXCEPT ![Scope][n] = list] /\ active' = [active EXCEPT ![Scope][n] = act]
      /\ Tabled(accounts) /\ Tabled(active)
  BY DEF WriteBucket, RowsKept
<1>2. /\ Tabled(accounts)' /\ Tabled(active)'
      /\ \A e \in Envs, m \in Nets :
            /\ accounts'[e][m] = IF e = Scope /\ m = n THEN list ELSE accounts[e][m]
            /\ active'[e][m] = IF e = Scope /\ m = n THEN act ELSE active[e][m]
  <2>. DEFINE s == Scope
  <2>1. s \in Envs /\ Tabled(accounts) /\ Tabled(active)
    BY <1>0, <1>1
  <2>2. accounts' = [accounts EXCEPT ![s][n] = list] /\ active' = [active EXCEPT ![s][n] = act]
    BY <1>1
  <2>. HIDE DEF s
  <2>3. Tabled(accounts') /\ \A e \in Envs, m \in Nets :
            accounts'[e][m] = IF e = s /\ m = n THEN list ELSE accounts[e][m]
    BY <2>1, <2>2 DEF Tabled
  <2>4. Tabled(active') /\ \A e \in Envs, m \in Nets :
            active'[e][m] = IF e = s /\ m = n THEN act ELSE active[e][m]
    BY <2>1, <2>2 DEF Tabled
  <2> QED BY <2>3, <2>4 DEF s, Tabled
<1>. HIDE DEF r
<1>3. \A e \in Envs, m \in Nets : /\ RowList(accounts'[e][m])
                                  /\ MayPoint => Points(accounts'[e][m], active'[e][m])
  BY <1>2 DEF RowsKept
<1>4. UNCHANGED MayPoint
  BY <1>0 DEF MayPoint
<1>5. r.pc \notin Holds \/ r.pc = "ensured"
  BY DEF r
<1>6. RowAt(r)
  <2>1. r.net \in Nets
    BY DEF r
  <2> QED BY <1>5, <2>1 DEF RowAt, Holds, Writes
<1>7. (\A u \in Tasks : RowAt(tasks[u]))'
  <2>1. \A u \in Tasks : RowAt(tasks'[u])
    BY <1>0, <1>6 DEF RowsKept
  <2> QED BY <1>4, <2>1 DEF RowAt
<1>8. ASSUME scene.busy = 1, NEW u \in Tasks, tasks'[u].pc # "idle" PROVE AloneAt(tasks[u])'
  <2>1. u = t
    BY <1>0, <1>8 DEF ControlKept, Alone
  <2>2. tasks'[u] = r /\ r # NoTask
    BY <1>0, <1>8, <2>1, NoTaskControlled
  <2>3. AloneAt(tasks[t])
    BY <1>0, <1>8 DEF RowsKept
  <2>4. Bucket' = accounts'[Scope][LiveNet]
    BY <1>0 DEF Bucket
  <2>5. r.pc = "ensured" => r.row.id \in IdsOf(Bucket')
    <3>1. r.pc = "ensured" => n = LiveNet /\ r.row.id \in IdsOf(list)
      BY <1>8 DEF r
    <3> QED BY <1>0, <1>2, <2>4, <3>1
  <2>6. r.op = "SYNC" => IsList(r.made) /\ RangeOf(r.made) \subseteq IdsOf(Bucket')
    <3>1. r.op = "SYNC" => n = LiveNet /\ IdsOf(Bucket) \subseteq IdsOf(list) /\ r.made = tasks[t].made
      BY <1>0, <1>8, <2>2 DEF r
    <3>2. r.op = "SYNC" => IsList(tasks[t].made) /\ RangeOf(tasks[t].made) \subseteq IdsOf(Bucket)
      BY <1>0, <2>2, <2>3 DEF AloneAt
    <3> QED BY <1>0, <1>2, <2>4, <3>1, <3>2
  <2> QED BY <1>5, <2>2, <2>5, <2>6 DEF AloneAt, Holds, Writes
<1>9. nextId' \in Nat /\ (Tabled(accounts) /\ Tabled(active))'
  BY <1>2
<1>10. (\A e \in Envs, m \in Nets : /\ RowList(accounts[e][m])
                                    /\ MayPoint => Points(accounts[e][m], active[e][m]))'
  BY <1>3, <1>4
<1>11. (scene.busy = 1 => \A u \in Tasks : tasks[u].pc # "idle" => AloneAt(tasks[u]))'
  BY <1>0, <1>8
<1> QED BY <1>7, <1>9, <1>10, <1>11, RowsJoin

LEMMA StoreWrites ==
  ASSUME ControlKept, RowsKept, NEW t \in Tasks, Moved(t),
         \/ UpsertWrite(t) \/ WriteActive(t) \/ WriteLabel(t) \/ DeleteRow(t) \/ PatchWrite(t)
         \/ ClearSession(t)
  PROVE  RowsKept'
<1>0. /\ Shaped(tasks[t], TaskFields) /\ RowAt(tasks[t]) /\ tasks[t].net \in Nets
      /\ DOMAIN tasks = Tasks /\ tasks[t].pc # "idle"
      /\ scene.busy = 1 => AloneAt(tasks[t])
      /\ MayBeAt(tasks[t].op, tasks[t].pc) /\ tasks[t].then \in Thens
      /\ MayBeAt(tasks[t].op, tasks[t].then)
  BY DEF ControlKept, Controlled, RowsKept, RowAt, Moved
<1>1. nextId \in Nat
  BY DEF RowsKept
<1>2. UNCHANGED dev
  BY DEF UpsertWrite, WriteActive, WriteLabel, DeleteRow, PatchWrite, ClearSession
\* The list that a handler read, and its own write.
<1>3. tasks[t].pc \in Writes => RowList(tasks[t].list) /\ (MayPoint => Points(tasks[t].list, tasks[t].act))
  BY <1>0 DEF RowAt
<1>4. CASE UpsertWrite(t)
  <2>. DEFINE row == IF tasks[t].row.id = None THEN [tasks[t].row EXCEPT !.id = nextId] ELSE tasks[t].row
              list == Upserted(tasks[t].list, row)
              act == Or(tasks[t].act, row.id)
              r == [tasks[t] EXCEPT !.row = row, !.pc = tasks[t].then]
  <2>1. /\ tasks[t].pc = "write" /\ WriteBucket(tasks[t].net, list, act) /\ tasks' = [tasks EXCEPT ![t] = r]
    BY <1>4, Zenon DEF UpsertWrite, At
  <2>0. nextId' \in Nat
    BY <1>1, <1>4 DEF UpsertWrite
  <2>2. GoodRow(row) /\ row.id \in Nat
    <3>1. GoodRow(tasks[t].row) /\ tasks[t].row.id \in Nat \cup {None}
      BY <1>0, <2>1 DEF RowAt
    <3>2. CASE tasks[t].row.id = None
      BY <1>1, <3>1, <3>2 DEF GoodRow, Shaped, RowFields
    <3> QED BY <3>1, <3>2
  <2>. HIDE DEF row
  <2>3. IsList(tasks[t].list) /\ \A a \in RangeOf(tasks[t].list) : GoodRow(a) /\ a.id \in Nat
    BY <1>3, <2>1 DEF RowList, Writes
  <2>4. /\ IsList(list) /\ RangeOf(list) = {a \in RangeOf(tasks[t].list) : a.id # row.id} \cup {row}
        /\ IdsOf(list) = IdsOf(tasks[t].list) \cup {row.id} /\ list # <<>>
    BY <2>3, UpsertedRows
  <2>. HIDE DEF list
  <2>5. RowList(list)
    BY <2>2, <2>3, <2>4 DEF RowList
  <2>6. MayPoint => Points(list, act)
    <3>1. MayPoint => Points(tasks[t].list, tasks[t].act)
      BY <1>3, <2>1 DEF Writes
    <3> QED BY <2>4, <3>1 DEF Points, Or
  <2>7. /\ tasks'[t].pc = tasks[t].then /\ tasks'[t].net = tasks[t].net /\ tasks'[t].made = tasks[t].made
        /\ tasks'[t].row = row
    BY <1>0, <2>1 DEF Shaped, TaskFields
  <2>8. tasks[t].then \notin Holds \/ tasks[t].then = "ensured"
    BY <1>0 DEF Thens, Holds, Writes
  <2>9. scene.busy = 1 => tasks[t].net = LiveNet /\ IdsOf(Bucket) \subseteq IdsOf(list)
    BY <1>0, <2>1, <2>4 DEF AloneAt, Writes, Bucket
  <2>10. row.id \in IdsOf(list)
    BY <2>4
  <2>. HIDE DEF act, r
  <2> QED BY <1>0, <1>2, <2>0, <2>1, <2>5, <2>6, <2>7, <2>8, <2>9, <2>10, RowsWrite
<1>5. CASE WriteActive(t)
  <2>1. /\ tasks[t].pc = "activate" /\ WriteBucket(tasks[t].net, tasks[t].list, tasks[t].arg)
        /\ Goto(t, "done") /\ UNCHANGED nextId
    BY <1>5 DEF WriteActive, At
  <2>2. RowList(tasks[t].list) /\ (MayPoint => Points(tasks[t].list, tasks[t].arg))
    <3>1. MayPoint => tasks[t].arg \in IdsOf(tasks[t].list)
      BY <1>0, <2>1 DEF RowAt
    <3>2. MayPoint => tasks[t].list # <<>>
      BY <3>1, NoRows DEF IdsOf
    <3> QED BY <1>3, <2>1, <3>1, <3>2 DEF Points, Writes
  <2>3. tasks'[t].pc = "done" /\ tasks'[t].net = tasks[t].net /\ tasks'[t].made = tasks[t].made
    BY <2>1, GotoIs DEF TaskFields
  <2>4. scene.busy = 1 => tasks[t].net = LiveNet /\ tasks[t].list = Bucket
    BY <1>0, <2>1 DEF AloneAt, Writes, Bucket
  <2> QED BY <1>0, <1>1, <1>2, <2>1, <2>2, <2>3, <2>4, RowsWrite DEF Holds, Writes
<1>6. CASE WriteLabel(t)
  <2>1. /\ tasks[t].pc = "rename" /\ WriteBucket(tasks[t].net, tasks[t].list, tasks[t].act)
        /\ Goto(t, "done") /\ UNCHANGED nextId
    BY <1>6 DEF WriteLabel, At
  <2>2. RowList(tasks[t].list) /\ (MayPoint => Points(tasks[t].list, tasks[t].act))
    BY <1>3, <2>1 DEF Writes
  <2>3. tasks'[t].pc = "done" /\ tasks'[t].net = tasks[t].net
    BY <2>1, GotoIs DEF TaskFields
  <2>4. tasks[t].op # "SYNC"
    BY <1>0, <2>1 DEF MayBeAt
  <2> QED BY <1>0, <1>1, <1>2, <2>1, <2>2, <2>3, <2>4, RowsWrite DEF Holds, Writes
<1>7. CASE DeleteRow(t)
  <2>. DEFINE left == Without(tasks[t].list, tasks[t].arg)
              act == ActiveAfter(tasks[t].act, tasks[t].arg, left)
              gone == WithId(tasks[t].list, tasks[t].arg)
              r == [tasks[t] EXCEPT !.row = gone, !.list = left, !.pc = "unvault"]
  <2>1. /\ tasks[t].pc = "delete" /\ UNCHANGED nextId
        /\ \/ Goto(t, "cleared") /\ UNCHANGED <<accounts, active>>
           \/ WriteBucket(tasks[t].net, left, act) /\ tasks' = [tasks EXCEPT ![t] = r]
    BY <1>7 DEF DeleteRow, At, Goto
  <2>2. CASE Goto(t, "cleared") /\ UNCHANGED <<accounts, active>>
    <3>1. Quiet(tasks[t], tasks'[t])
      BY <2>2, QuietGoto DEF Holds, Writes
    <3> QED BY <1>2, <2>1, <2>2, <3>1, RowsQuiet
  <2>3. CASE WriteBucket(tasks[t].net, left, act) /\ tasks' = [tasks EXCEPT ![t] = r]
    <3>1. /\ IsList(tasks[t].list) /\ \A a \in RangeOf(tasks[t].list) : GoodRow(a) /\ a.id \in Nat
          /\ MayPoint => Points(tasks[t].list, tasks[t].act)
      BY <1>3, <2>1 DEF RowList, Writes
    <3>2. /\ IsList(left) /\ RangeOf(left) = {a \in RangeOf(tasks[t].list) : a.id # tasks[t].arg}
          /\ IdsOf(left) = IdsOf(tasks[t].list) \ {tasks[t].arg}
      BY <3>1, WithoutRows
    <3>. HIDE DEF left, gone
    <3>3. RowList(left)
      BY <3>1, <3>2 DEF RowList
    <3>4. IF left = <<>> THEN FirstId(left) = None ELSE FirstId(left) \in IdsOf(left)
      BY <3>2, FirstIdIsThere
    <3>5. None \notin IdsOf(tasks[t].list)
      BY <3>1, WalletAssumption DEF IdsOf
    <3>6. left = <<>> => IdsOf(left) = {}
      BY NoRows DEF IdsOf
    <3>7. MayPoint => Points(left, act)
      <4>. SUFFICES ASSUME MayPoint PROVE Points(left, act)
        OBVIOUS
      <4>1. CASE tasks[t].act \in {tasks[t].arg, None}
        BY <3>4, <4>1 DEF Points, ActiveAfter
      <4>2. CASE tasks[t].act \notin {tasks[t].arg, None}
        <5>1. tasks[t].act \in IdsOf(tasks[t].list)
          BY <3>1, <4>2 DEF Points
        <5>2. tasks[t].act \in IdsOf(left) /\ act = tasks[t].act
          BY <3>2, <4>2, <5>1 DEF ActiveAfter
        <5> QED BY <3>6, <5>2 DEF Points
      <4> QED BY <4>1, <4>2
    <3>8. tasks'[t].pc = "unvault" /\ tasks'[t].net = tasks[t].net
      BY <1>0, <2>3 DEF Shaped, TaskFields
    <3>9. tasks[t].op # "SYNC"
      BY <1>0, <2>1 DEF MayBeAt
    <3>. HIDE DEF act, r
    <3> QED BY <1>0, <1>1, <1>2, <2>1, <2>3, <3>3, <3>7, <3>8, <3>9, RowsWrite DEF Holds, Writes
  <2>. HIDE DEF r
  <2> QED BY <2>1, <2>2, <2>3
<1>8. CASE PatchWrite(t)
  <2>. DEFINE old == WithId(tasks[t].list, tasks[t].row.id)
              fixed == [old EXCEPT !.addr = tasks[t].row.addr]
              list == Upserted(tasks[t].list, fixed)
  <2>1. /\ tasks[t].pc = "patch" /\ WriteBucket(tasks[t].net, list, tasks[t].act)
        /\ Goto(t, "repairNext") /\ UNCHANGED nextId
    BY <1>8 DEF PatchWrite, At
  <2>2. /\ IsList(tasks[t].list) /\ \A a \in RangeOf(tasks[t].list) : GoodRow(a) /\ a.id \in Nat
        /\ MayPoint => Points(tasks[t].list, tasks[t].act)
        /\ tasks[t].row.id \in IdsOf(tasks[t].list)
    BY <1>0, <1>3, <2>1 DEF RowList, Writes, RowAt
  <2>3. old \in RangeOf(tasks[t].list) /\ old.id = tasks[t].row.id
    BY <2>2, ListDomain, FirstIsThere DEF WithId, IdsOf
  <2>. HIDE DEF old
  <2>4. GoodRow(fixed) /\ fixed.id \in Nat
    BY <2>2, <2>3 DEF GoodRow, Shaped, RowFields
  <2>. HIDE DEF fixed
  <2>5. /\ IsList(list) /\ RangeOf(list) = {a \in RangeOf(tasks[t].list) : a.id # fixed.id} \cup {fixed}
        /\ IdsOf(list) = IdsOf(tasks[t].list) \cup {fixed.id} /\ list # <<>>
    BY <2>2, UpsertedRows
  <2>. HIDE DEF list
  <2>6. RowList(list)
    BY <2>2, <2>4, <2>5 DEF RowList
  <2>7. MayPoint => Points(list, tasks[t].act)
    <3>1. tasks[t].list # <<>>
      BY <2>2, NoRows DEF IdsOf
    <3> QED BY <2>2, <2>5, <3>1 DEF Points
  <2>8. tasks'[t].pc = "repairNext" /\ tasks'[t].net = tasks[t].net
    BY <2>1, GotoIs DEF TaskFields
  <2>9. tasks[t].op # "SYNC"
    BY <1>0, <2>1 DEF MayBeAt
  <2> QED BY <1>0, <1>1, <1>2, <2>1, <2>6, <2>7, <2>8, <2>9, RowsWrite DEF Holds, Writes
<1>9. CASE ClearSession(t)
  <2>. DEFINE s == Scope
              none == [n \in Nets |-> <<>>]
              idle == [n \in Nets |-> None]
  <2>1. /\ tasks[t].pc = "wipe" /\ UNCHANGED nextId /\ Goto(t, "done")
        /\ accounts' = [accounts EXCEPT ![s] = none] /\ active' = [active EXCEPT ![s] = idle]
    BY <1>9 DEF ClearSession, At
  <2>2. s \in Envs /\ tasks[t].op = "LOGOUT"
    BY <1>0, <2>1, WhereWeAre DEF MayBeAt
  <2>3. /\ Tabled(accounts') /\ Tabled(active')
        /\ \A e \in Envs, m \in Nets :
             /\ accounts'[e][m] = IF e = s THEN <<>> ELSE accounts[e][m]
             /\ active'[e][m] = IF e = s THEN None ELSE active[e][m]
    <3>1. Tabled(accounts) /\ Tabled(active)
      BY DEF RowsKept
    <3>. HIDE DEF s
    <3> QED BY <2>1, <2>2, <3>1 DEF Tabled
  <2>4. RowList(<<>>) /\ Points(<<>>, None)
    BY NoRows DEF RowList, Points
  <2>5. \A e \in Envs, m \in Nets : /\ RowList(accounts'[e][m])
                                    /\ MayPoint => Points(accounts'[e][m], active'[e][m])
    BY <2>3, <2>4 DEF RowsKept
  <2>. DEFINE r == tasks'[t]
  <2>6. /\ r.pc = "done" /\ r.net = tasks[t].net /\ r.op = "LOGOUT" /\ tasks' = [tasks EXCEPT ![t] = r]
        /\ UNCHANGED scene
    BY <2>1, <2>2, GotoIs DEF TaskFields, Moved
  <2>. HIDE DEF r, s, none, idle
  <2>7. UNCHANGED MayPoint
    BY <2>6 DEF MayPoint
  <2>8. (\A u \in Tasks : RowAt(tasks[u]))'
    <3>1. \A u \in Tasks : RowAt(tasks'[u])
      BY <1>0, <2>6 DEF RowsKept, RowAt, Writes
    <3> QED BY <2>7, <3>1 DEF RowAt
  <2>9. ASSUME scene.busy = 1, NEW u \in Tasks, tasks'[u].pc # "idle" PROVE AloneAt(tasks[u])'
    <3>1. u = t /\ tasks'[u] = r
      BY <1>0, <2>6, <2>9 DEF ControlKept, Alone
    <3> QED BY <2>6, <3>1 DEF AloneAt, Writes
  <2>10. (\A e \in Envs, m \in Nets : /\ RowList(accounts[e][m])
                                      /\ MayPoint => Points(accounts[e][m], active[e][m]))'
    BY <2>5, <2>7
  <2>11. (scene.busy = 1 => \A u \in Tasks : tasks[u].pc # "idle" => AloneAt(tasks[u]))'
    BY <2>6, <2>9
  <2>12. nextId' \in Nat /\ (Tabled(accounts) /\ Tabled(active))'
    BY <1>1, <2>1, <2>3
  <2> QED BY <2>8, <2>10, <2>11, <2>12, RowsJoin
<1> QED BY <1>4, <1>5, <1>6, <1>7, <1>8, <1>9

\* A handler that starts holds nothing, or an account that is stored.
LEMMA RowsStarted ==
  ASSUME ControlKept, ControlKept', RowsKept, NEW t \in Tasks, NEW op, NEW label, NEW arg,
         Start(t, op, label, arg), label # "idle",
         label \notin Holds \/ (label = "read" /\ arg \in IdsOf(Bucket))
  PROVE  RowsKept'
<1>. DEFINE r == [NoTask EXCEPT !.op = op, !.pc = label, !.arg = arg]
<1>1. /\ tasks' = [tasks EXCEPT ![t] = r] /\ UNCHANGED <<scene, dev, accounts, active, nextId>>
      /\ DOMAIN tasks = Tasks
  BY DEF Start, store, ControlKept
<1>2. Shaped(NoTask, TaskFields) /\ NoTask.net = "mainnet" /\ NoTask.made = <<>>
  BY DEF Shaped, TaskFields, NoTask
<1>3. r.pc = label /\ r.arg = arg /\ r.net = "mainnet" /\ r.made = <<>>
  <2>. HIDE DEF NoTask
  <2> QED BY <1>2 DEF Shaped, TaskFields
<1>. HIDE DEF r
<1>4. RowAt(r)
  BY <1>3 DEF RowAt, Holds, Writes, Nets
<1>5. AloneAt(r)
  BY <1>3, NoRows DEF AloneAt, Holds, Writes
<1>6. (\A u \in Tasks : RowAt(tasks[u]))'
  <2>1. \A u \in Tasks : RowAt(tasks'[u])
    BY <1>1, <1>4 DEF RowsKept
  <2> QED BY <1>1, <2>1 DEF RowAt, MayPoint
<1>7. ASSUME scene.busy = 1, NEW u \in Tasks, tasks'[u].pc # "idle" PROVE AloneAt(tasks[u])'
  <2>1. u = t
    BY <1>1, <1>3, <1>7 DEF ControlKept, Alone
  <2>2. AloneAt(r) /\ tasks'[u] = r /\ UNCHANGED dev
    BY <1>1, <1>5, <2>1
  <2> QED BY <1>1, <2>2 DEF AloneAt, Scope, LiveNet, Bucket
<1>8. UNCHANGED MayPoint
  BY <1>1 DEF MayPoint
<1> QED BY <1>1, <1>6, <1>7, <1>8 DEF RowsKept

LEMMA RowsHandled ==
  ASSUME ControlKept, ControlKept', RowsKept, NEW t \in Tasks, Handler(t) \/ SyncHandler(t)
  PROVE  RowsKept'
<1>1. ASSUME NEW op, NEW arg,
             NEW label \in {"before", "api", "unlock", "logout", "setup", "health", "peek", "add",
                            "clear", "draftMeta", "sync", "listOne", "verify", "local"},
             Start(t, op, label, arg)
      PROVE  RowsKept'
  BY <1>1, RowsStarted DEF Holds, Writes
<1>2. ASSUME NEW op, NEW arg \in IdsOf(Bucket), Start(t, op, "read", arg) PROVE RowsKept'
  BY <1>2, RowsStarted
<1>3. CASE CreateOrConnect(t) \/ Register(t) \/ LogIn(t) \/ ImportSeed(t) \/ Unlock(t)
  BY <1>1, <1>3 DEF CreateOrConnect, Register, LogIn, ImportSeed, Unlock, OnRow
<1>4. CASE SetActive(t) \/ Rename(t) \/ Delete(t)
  BY <1>2, <1>4 DEF SetActive, Rename, Delete, OnRow
<1>5. CASE Logout(t) \/ GetAccounts(t) \/ NextSeq(t)
  BY <1>1, <1>5 DEF Logout, GetAccounts, NextSeq
<1>6. CASE SetDeveloperMode(t)
  <2>. DEFINE mode == ~dev
  <2>1. Start(t, "SET_DEVELOPER_MODE", "health", mode)
    BY <1>6 DEF SetDeveloperMode
  <2>. HIDE DEF mode
  <2> QED BY <1>1, <2>1
<1>7. CASE AddInvite(t)
  BY <1>1, <1>7 DEF AddInvite
<1>8. CASE DropInvite(t) \/ SetDraftMeta(t) \/ EnsureRegistered(t) \/ AddExisting(t) \/ CreateLocal(t)
  BY <1>1, <1>8 DEF DropInvite, SetDraftMeta, EnsureRegistered, AddExisting, CreateLocal
<1>9. CASE SyncLocal(t)
  <2>1. PICK activate : Start(t, "SYNC", "sync", activate)
    BY <1>9 DEF SyncLocal
  <2> QED BY <1>1, <2>1
<1> QED BY <1>3, <1>4, <1>5, <1>6, <1>7, <1>8, <1>9 DEF Handler, SyncHandler

LEMMA RowsKeep == ControlKept /\ RowsKept /\ [SyncNext]_syncVars => RowsKept'
<1>. SUFFICES ASSUME ControlKept, RowsKept, [SyncNext]_syncVars PROVE RowsKept'
  OBVIOUS
<1>0. ControlKept'
  BY ControlKeeps
<1>1. CASE \E t \in Tasks : Handler(t) \/ SyncHandler(t)
  BY <1>0, <1>1, RowsHandled
<1>2. ASSUME NEW t \in Tasks, StoreStep(t) PROVE RowsKept'
  <2>1. Moved(t)
    BY <1>2, StoreMoves
  <2> QED BY <1>2, <2>1, StoreQuiet, StoreHolds, StoreWrites DEF StoreStep
<1>3. ASSUME NEW t \in Tasks, SyncStep(t) PROVE RowsKept'
  <2>1. Moved(t)
    BY <1>3, SyncMoves
  <2> QED BY <1>3, <2>1, SyncQuiet, SyncHolds DEF SyncStep
<1>4. CASE SwRestart
  <2>1. /\ tasks' = [t \in Tasks |-> NoTask] /\ UNCHANGED <<scene, accounts, active, nextId>>
    BY <1>4 DEF SwRestart, store
  <2>2. (\A t \in Tasks : RowAt(tasks[t]))'
    <3>1. \A t \in Tasks : tasks'[t] = NoTask
      BY <2>1
    <3>2. RowAt(NoTask)'
      BY NoTaskHolds, PTL
    <3> QED BY <3>1, <3>2
  <2>3. \A t \in Tasks : tasks'[t].pc = "idle"
    BY <2>1, NoTaskControlled
  <2>4. UNCHANGED MayPoint
    BY <2>1 DEF MayPoint
  <2> QED BY <2>1, <2>2, <2>3, <2>4 DEF RowsKept
<1>5. CASE UNCHANGED syncVars
  BY <1>5 DEF syncVars, walletVars, store, RowsKept, RowAt, AloneAt, MayPoint, Scope, LiveNet, Bucket
<1> QED BY <1>1, <1>2, <1>3, <1>4, <1>5 DEF SyncNext

\* At every moment, in every bucket: the key data of a row is of its credential, and
\* the active account is one of the rows.
THEOREM RowsStayConsistent == UseSpec => []RowsAreConsistent
<1>1. ControlKept /\ RowsKept => RowsAreConsistent
  <2>. SUFFICES ASSUME RowsKept PROVE RowsAreConsistent
    OBVIOUS
  <2>1. PairConsistent
    BY DEF PairConsistent, AllRows, RowsKept, RowList, GoodRow
  <2>2. ActiveIsStored
    BY DEF ActiveIsStored, RowsKept, MayPoint, Points
  <2> QED BY <2>1, <2>2 DEF RowsAreConsistent
<1>2. SyncInit => ControlKept /\ RowsKept
  BY ControlStarts, RowsStart
<1>3. ControlKept /\ RowsKept /\ [SyncNext]_syncVars => (ControlKept /\ RowsKept)'
  BY ControlKeeps, RowsKeep
<1> QED BY <1>1, <1>2, <1>3, StoreOnly, PTL DEF UseSpec, UseInit
=============================================================================
