-------------------------- MODULE WalletAddresses ---------------------------
(***************************************************************************)
(* The addresses of the stored accounts, while one handler runs at a time: *)
(* a wallet that was removed, and the address of a passkey account that    *)
(* was funded.                                                             *)
(***************************************************************************)
EXTENDS WalletProofs

-----------------------------------------------------------------------------
(* The addresses of the accounts, while one handler runs at a time. *)

\* The address of a signer's own account is not one of a wallet.
Apart(a) == a.mode # "multisig" => a.addr \in Contracts \ Wallets
\* The rows of a list are told apart by their ids.
OneRow(list) == \A a, b \in RangeOf(list) : a.id = b.id => a = b

\* What is stored: an address that was displaced stands for a funded one.
StoredTruth ==
    /\ displaced = [c \in Contracts |-> displaced[c]]
    /\ \A c \in Contracts : displaced[c] \in (Contracts \ Wallets) \cup {None}
    /\ \A e \in Envs, n \in Nets : /\ OneRow(accounts[e][n])
                                   /\ \A a \in RangeOf(accounts[e][n]) : Apart(a) /\ a.id < nextId

\* The labels at which a row is created, those of an import once a sync has copied the
\* removed wallets, and all at which it has copied the accounts.
Creates == {"create", "upsert", "write"}
Imports == {"list", "wallets", "ensured", "invites", "preview", "predict", "ownDraft", "draft",
            "register", "known", "confirm", "activateNew", "note", "add", "noted", "clear", "cleared1"}
Copies  == Imports \cup {"syncInvites", "syncRemoved"}

\* A handler that asks the API about a signer.
SignerAt(r) ==
    r.pc \in {"before", "api"} =>
       /\ r.arg \in Signers /\ (r.op = "CREATE_OR_CONNECT_PASSKEY" => r.arg \in Creds)
       /\ IsList(r.list) /\ \A a \in RangeOf(r.list) : Apart(a)
\* The row it creates: of a signer, or of a wallet that a sync may store; an account that
\* is stored already keeps its address, unless it is one of a seed.
MadeAt(r) ==
    r.pc \in Creates =>
       /\ Apart(r.row)
       /\ r.op \in ApiOps => r.row.mode # "multisig"
       /\ r.op \in SyncOps => /\ r.row.mode = "multisig"
                              /\ r.row.addr \in Addrs(Bucket) \/ r.row.addr \notin removed[Scope][LiveNet]
       /\ r.pc # "create" /\ r.row.id # None =>
             \E a \in RangeOf(Bucket) : /\ a.id = r.row.id /\ a.mode = r.row.mode
                                        /\ r.row.mode # "mnemonic" => a.addr = r.row.addr
\* What a sync has copied is what is stored.
CopyAt(r) ==
    r.op \in SyncOps =>
       /\ r.pc \in Copies \/ (r.pc \in Creates /\ r.then = "ensured") =>
             IsList(r.mine) /\ \A a \in RangeOf(r.mine) : a.mode = "multisig" => a.addr \in Addrs(Bucket)
       /\ r.pc \in Imports \/ (r.pc \in Creates /\ r.then = "ensured") => r.gone = removed[Scope][LiveNet]
       /\ r.pc = "ensured" => r.row.addr \in Addrs(Bucket)
\* The rows that are to be repaired, and what becomes of their addresses.
ToFix(r) == RangeOf(r.mine) \cup {m \in {r.row} : r.pc = "patch"}
FixAt(r) ==
    r.pc \in {"repairNext", "patch"} =>
       /\ IsList(r.mine)
       /\ \A m \in ToFix(r) : m.addr \in Contracts \ Wallets
       /\ \A m, k \in ToFix(r) : m.id = k.id => m.addr = k.addr
       /\ \A m \in ToFix(r), a \in RangeOf(accounts[Scope][r.net]) :
             a.id = m.id => a.addr = m.addr \/ (a.mode = "passkey" /\ m.addr = displaced[a.addr])
       /\ r.pc = "patch" => \E a \in RangeOf(r.list) : a.id = r.row.id /\ a.addr # r.row.addr

TruthAt(r) == SignerAt(r) /\ MadeAt(r) /\ CopyAt(r) /\ FixAt(r)
TruthKept ==
    scene.busy = 1 => StoredTruth /\ \A t \in Tasks : tasks[t].pc # "idle" => TruthAt(tasks[t])

TruthLabels == {"before", "api", "repairNext", "patch"} \cup Creates \cup Copies

LEMMA TruthStarts == SyncInit => TruthKept
<1>. SUFFICES ASSUME SyncInit PROVE TruthKept
  OBVIOUS
<1>1. /\ displaced = [c \in Contracts |-> None] /\ \A t \in Tasks : tasks[t].pc = "idle"
      /\ \A e \in Envs, n \in Nets : accounts[e][n] = <<>>
  BY NoTaskControlled DEF SyncInit, Init
<1>2. StoredTruth
  BY <1>1, NoRows DEF StoredTruth, OneRow
<1> QED BY <1>1, <1>2 DEF TruthKept

\* The handler that runs is the only one.
LEMMA TruthJoins ==
  ASSUME ControlKept, ControlKept', NEW t \in Tasks, tasks' = [tasks EXCEPT ![t] = tasks'[t]],
         tasks[t].pc # "idle" \/ tasks'[t].pc # "idle", UNCHANGED scene, scene.busy = 1,
         StoredTruth', tasks'[t].pc # "idle" => TruthAt(tasks[t])'
  PROVE  TruthKept'
<1>1. \A u \in Tasks : u # t => tasks'[u].pc = "idle"
  <2>. DEFINE r == tasks'[t]
  <2>1. tasks' = [tasks EXCEPT ![t] = r] /\ DOMAIN tasks = Tasks
    BY DEF ControlKept
  <2>. HIDE DEF r
  <2>2. \A u \in Tasks : u # t => tasks'[u] = tasks[u]
    BY <2>1
  <2> QED BY <2>2 DEF ControlKept, Alone
<1>2. ASSUME NEW u \in Tasks, tasks'[u].pc # "idle" PROVE TruthAt(tasks[u])'
  BY <1>1, <1>2
<1> QED BY <1>2 DEF TruthKept

\* A step that leaves the rows, and takes hold of none.
LEMMA TruthQuiet ==
  ASSUME ControlKept, ControlKept', TruthKept, scene.busy = 1, NEW t \in Tasks, Moved(t),
         UNCHANGED <<accounts, displaced, nextId>>, tasks'[t].pc \notin TruthLabels
  PROVE  TruthKept'
<1>1. StoredTruth'
  BY DEF TruthKept, StoredTruth
<1>2. TruthAt(tasks[t])'
  BY DEF TruthAt, SignerAt, MadeAt, CopyAt, FixAt, TruthLabels, Creates, Copies, Imports
<1> QED BY <1>1, <1>2, TruthJoins DEF Moved

\* The row that createAccount makes of one: of the same mode, and of a row that is stored
\* it keeps the id and, unless it is of a seed, the address.
LEMMA MergedTruth ==
  ASSUME NEW list, RowList(list), \A a \in RangeOf(list) : Apart(a),
         NEW r, GoodRow(r), Apart(r)
  PROVE  LET m == Merged(r, Existing(list, r))
         IN  /\ m.mode = r.mode /\ Apart(m) /\ (r.mode = "multisig" => m.addr = r.addr)
             /\ m.id # None => \E a \in RangeOf(list) :
                    a.id = m.id /\ a.mode = m.mode /\ (m.mode # "mnemonic" => a.addr = m.addr)
<1>. DEFINE Match(a) == /\ a.mode = r.mode
                        /\ \/ a.addr = r.addr
                           \/ r.mode = "passkey"  /\ r.cred # None /\ a.cred = r.cred
                           \/ r.mode = "mnemonic" /\ r.g # None /\ a.g = r.g
            alike == {a \in RangeOf(list) : Match(a)}
            old == Existing(list, r)
            addr == AddrOf(r, old)
            pair == PairOf(r, old)
            id == IF old = None THEN None ELSE old.id
            m == [r EXCEPT !.id = id, !.addr = addr, !.cred = pair.cred, !.data = pair.data]
<1>1. Merged(r, old) = m
  BY DEF Merged
<1>2. old = FirstOf(list, alike) /\ DOMAIN list \subseteq Nat
  BY ListDomain DEF Existing, RowList
<1>3. old = None \/ old \in alike
  <2>. HIDE DEF alike, old
  <2> QED BY <1>2, FirstIsThere
<1>4. old # None => /\ old \in RangeOf(list) /\ old.mode = r.mode /\ Apart(old)
                    /\ r.mode \notin {"passkey", "mnemonic"} => old.addr = r.addr
  BY <1>3
<1>. HIDE DEF alike, old, pair
<1>5. addr = IF old # None /\ r.mode = "passkey" THEN old.addr ELSE r.addr
  BY DEF AddrOf
<1>. HIDE DEF addr, id
<1>6. m.mode = r.mode /\ m.addr = addr /\ m.id = id
  BY DEF GoodRow, Shaped, RowFields
<1>. HIDE DEF m
<1>7. Apart(m) /\ (r.mode = "multisig" => m.addr = r.addr)
  BY <1>4, <1>5, <1>6 DEF Apart
<1>8. ASSUME m.id # None
      PROVE  \E a \in RangeOf(list) :
                a.id = m.id /\ a.mode = m.mode /\ (m.mode # "mnemonic" => a.addr = m.addr)
  BY <1>4, <1>5, <1>6, <1>8 DEF id
<1> QED BY <1>1, <1>6, <1>7, <1>8 DEF old

\* The steps of the store that neither write the rows nor take hold of one.
LEMMA QuietTruth ==
  ASSUME ControlKept, ControlKept', TruthKept, scene.busy = 1, NEW t \in Tasks, Moved(t),
         \/ ApiFailed(t) \/ Unremove(t) \/ SaveSeed(t) \/ LoadSeed(t) \/ RegisterKey(t) \/ ReadRows(t)
         \/ DeleteSeed(t) \/ DenyAddress(t) \/ DeleteDone(t) \/ MatchSetup(t) \/ LogoutSession(t)
         \/ ClearVault(t) \/ NamingStep(t) \/ Done(t) \/ ApplyDeveloperMode(t)
  PROVE  TruthKept'
<1>0. DOMAIN tasks = Tasks /\ Shaped(tasks[t], TaskFields)
  BY DEF ControlKept, Controlled
<1>1. ASSUME NEW label, Goto(t, label), label \notin TruthLabels PROVE tasks'[t].pc \notin TruthLabels
  BY <1>1, GotoIs
<1>2. ASSUME Finish(t) PROVE tasks'[t].pc \notin TruthLabels
  BY <1>2, FinishIs, NoTaskControlled DEF TruthLabels, Creates, Copies, Imports
<1>3. CASE ApiFailed(t) \/ RegisterKey(t) \/ Done(t) \/ ApplyDeveloperMode(t)
  <2>1. Finish(t) /\ UNCHANGED <<accounts, displaced, nextId>>
    BY <1>3 DEF ApiFailed, RegisterKey, Done, ApplyDeveloperMode, store
  <2> QED BY <1>2, <2>1, TruthQuiet
<1>4. CASE Unremove(t) \/ SaveSeed(t) \/ DeleteSeed(t) \/ DenyAddress(t) \/ DeleteDone(t) \/ LogoutSession(t)
           \/ ClearVault(t)
  <2>1. UNCHANGED <<accounts, displaced, nextId>>
    BY <1>4 DEF Unremove, SaveSeed, DeleteSeed, DenyAddress, DeleteDone, LogoutSession, ClearVault,
                store
  <2>2. \E label \in {"done", "denylist", "cleared", "setup", "unvaultAll", "wipe"} : Goto(t, label)
    BY <1>4 DEF Unremove, SaveSeed, DeleteSeed, DenyAddress, DeleteDone, LogoutSession, ClearVault
  <2>3. tasks'[t].pc \notin TruthLabels
    BY <1>1, <2>2 DEF TruthLabels, Creates, Copies, Imports
  <2> QED BY <2>1, <2>3, TruthQuiet
<1>5. CASE LoadSeed(t)
  <2>1. UNCHANGED <<accounts, displaced, nextId>>
    BY <1>5 DEF LoadSeed, store
  <2>2. Finish(t) \/ Goto(t, "match")
    BY <1>5 DEF LoadSeed
  <2>3. tasks'[t].pc \notin TruthLabels
    BY <1>1, <1>2, <2>2 DEF TruthLabels, Creates, Copies, Imports
  <2> QED BY <2>1, <2>3, TruthQuiet
<1>6. CASE ReadRows(t) \/ MatchSetup(t)
  <2>1. UNCHANGED <<accounts, displaced, nextId>>
    BY <1>6 DEF ReadRows, MatchSetup, store
  <2>2. tasks'[t].pc \in {"delete", "rename", "activate", "repair", "done"}
    <3>1. CASE ReadRows(t)
      BY <1>0, <3>1 DEF ReadRows, ReadBucket
    <3>2. CASE MatchSetup(t)
      BY <1>0, <3>2 DEF MatchSetup
    <3> QED BY <1>6, <3>1, <3>2
  <2>3. tasks'[t].pc \notin TruthLabels
    BY <2>2 DEF TruthLabels, Creates, Copies, Imports
  <2> QED BY <2>1, <2>3, TruthQuiet
<1>7. CASE NamingStep(t)
  <2>1. UNCHANGED <<accounts, displaced, nextId>> /\ (Finish(t) \/ tasks'[t].pc \in NameLabels \cup {"done"})
    BY <1>7, NamingIs DEF store
  <2>2. tasks'[t].pc \notin TruthLabels
    BY <1>2, <2>1 DEF TruthLabels, Creates, Copies, Imports, NameLabels
  <2> QED BY <2>1, <2>2, TruthQuiet
<1> QED BY <1>3, <1>4, <1>5, <1>6, <1>7

\* What is known of the handler that takes a step.
LEMMA TruthOf ==
  ASSUME ControlKept, RowsKept, TruthKept, scene.busy = 1, NEW t \in Tasks, Moved(t)
  PROVE  /\ StoredTruth /\ TruthAt(tasks[t]) /\ AloneAt(tasks[t]) /\ RowAt(tasks[t])
         /\ DOMAIN tasks = Tasks /\ Shaped(tasks[t], TaskFields) /\ tasks[t].pc # "idle"
         /\ Scope \in Envs /\ LiveNet \in Nets /\ tasks[t].net \in Nets
         /\ RowList(Bucket) /\ OneRow(Bucket) /\ \A a \in RangeOf(Bucket) : Apart(a) /\ a.id < nextId
<1>1. Scope \in Envs /\ LiveNet \in Nets
  BY WhereWeAre
<1> QED BY <1>1 DEF TruthKept, StoredTruth, RowsKept, RowAt, ControlKept, Controlled, Moved, Bucket

\* The steps of a handler that creates a row, up to the write.
LEMMA CreatesTruth ==
  ASSUME ControlKept, ControlKept', RowsKept, TruthKept, scene.busy = 1, NEW t \in Tasks, Moved(t),
         ReadBefore(t) \/ ApiAnswered(t) \/ CreateRead(t) \/ UpsertRead(t)
  PROVE  TruthKept'
<1>0. /\ StoredTruth /\ TruthAt(tasks[t]) /\ DOMAIN tasks = Tasks /\ Shaped(tasks[t], TaskFields)
      /\ RowList(Bucket) /\ \A a \in RangeOf(Bucket) : Apart(a)
      /\ tasks[t].pc # "idle" /\ UNCHANGED scene /\ tasks' = [tasks EXCEPT ![t] = tasks'[t]]
      /\ Controlled(tasks[t]) /\ RowAt(tasks[t])
  BY TruthOf DEF Moved, ControlKept
<1>1. UNCHANGED <<accounts, removed, nextId, dev, Scope, LiveNet, Bucket>>
  <2>1. UNCHANGED <<accounts, removed, nextId, dev>>
    BY DEF ReadBefore, ApiAnswered, CreateRead, UpsertRead, store
  <2> QED BY <2>1 DEF Scope, LiveNet, Bucket
<1>2. CASE ReadBefore(t)
  <2>. DEFINE r == [tasks[t] EXCEPT !.net = LiveNet, !.list = Bucket,
                                    !.act = active[Scope][LiveNet], !.pc = "api"]
  <2>1. tasks' = [tasks EXCEPT ![t] = r] /\ tasks[t].pc = "before" /\ UNCHANGED displaced
    BY <1>2 DEF ReadBefore, ReadBucket, At
  <2>2. r.pc = "api" /\ r.arg = tasks[t].arg /\ r.op = tasks[t].op /\ r.list = Bucket
    BY <1>0 DEF Shaped, TaskFields
  <2>3. tasks'[t] = r
    BY <1>0, <2>1
  <2>. HIDE DEF r
  <2>4. SignerAt(r)
    BY <1>0, <2>1, <2>2 DEF TruthAt, SignerAt, RowList
  <2>5. TruthAt(tasks[t])'
    BY <2>2, <2>3, <2>4 DEF TruthAt, SignerAt, MadeAt, CopyAt, FixAt, Creates, Copies, Imports
  <2>6. StoredTruth'
    BY <1>0, <1>1, <2>1 DEF StoredTruth
  <2> QED BY <1>0, <2>5, <2>6, TruthJoins
\* With what createAccount is asked to create.
<1>3. ASSUME NEW row, NEW r, tasks'[t] = r, r.pc = "create", r.row = row, r.op = tasks[t].op,
             row.mode # "multisig", row.addr \in Contracts \ Wallets, tasks[t].op \in ApiOps, StoredTruth'
      PROVE  TruthKept'
  <2>1. r.op \notin SyncOps
    BY <1>3 DEF ApiOps, SyncOps
  <2>2. TruthAt(tasks[t])'
    BY <1>3, <2>1 DEF TruthAt, SignerAt, MadeAt, CopyAt, FixAt, Apart
  <2> QED BY <1>0, <1>3, <2>2, TruthJoins
<1>4. CASE ApiAnswered(t)
  <2>1. /\ tasks[t].pc = "api" /\ tasks[t].arg \in Signers /\ IsList(tasks[t].list)
        /\ \A a \in RangeOf(tasks[t].list) : Apart(a)
        /\ FactoryOf[tasks[t].arg] \in Contracts \ Wallets
    <3>1. tasks[t].pc = "api"
      BY <1>4 DEF ApiAnswered, At
    <3> QED BY <1>0, <3>1, WalletAssumption, SyncAssumption DEF TruthAt, SignerAt
  <2>2. CASE tasks[t].op = "CREATE_OR_CONNECT_PASSKEY"
    <3>. DEFINE c == tasks[t].arg
                Match(a) == a.mode = "passkey" /\ (a.cred = c \/ a.addr = Hinted[c])
                mine == {a \in RangeOf(tasks[t].list) : Match(a)}
                old == FirstOf(tasks[t].list, mine)
                kept == Kept(t)
                row == NewRow("passkey", Or(kept, FactoryOf[c]), c, c, None)
                r == [tasks[t] EXCEPT !.pc = "create", !.row = row]
    <3>1. kept = IF old = None THEN Hinted[c] ELSE old.addr
      BY DEF Kept
    <3>2. old = None \/ old \in mine
      <4>1. DOMAIN tasks[t].list \subseteq Nat
        BY <2>1, ListDomain
      <4>. HIDE DEF mine
      <4> QED BY <4>1, FirstIsThere
    <3>3. old # None => old.addr \in Contracts \ Wallets
      BY <2>1, <3>2 DEF Apart
    <3>4. Hinted[c] \in (Contracts \ Wallets) \cup {None}
      BY <1>0, <2>1, <2>2, WalletAssumption, SyncAssumption DEF TruthAt, SignerAt
    <3>. HIDE DEF old, mine
    <3>5. kept \in (Contracts \ Wallets) \cup {None}
      BY <3>1, <3>3, <3>4
    <3>6. /\ displaced' = IF kept \in {None, FactoryOf[c]} THEN displaced
                          ELSE [displaced EXCEPT ![FactoryOf[c]] = kept]
          /\ tasks' = [tasks EXCEPT ![t].pc = "create", ![t].row = row]
      BY <1>4, <2>2 DEF ApiAnswered
    <3>. HIDE DEF kept
    <3>7. StoredTruth'
      <4>1. displaced' = [d \in Contracts |-> displaced'[d]]
            /\ \A d \in Contracts : displaced'[d] \in (Contracts \ Wallets) \cup {None}
        BY <1>0, <2>1, <3>5, <3>6 DEF StoredTruth
      <4> QED BY <1>0, <1>1, <4>1 DEF StoredTruth
    <3>8. row.mode = "passkey" /\ row.addr = Or(kept, FactoryOf[c])
      BY DEF NewRow
    <3>9. row.addr \in Contracts \ Wallets
      BY <2>1, <3>5, <3>8 DEF Or
    <3>. HIDE DEF row
    <3>10. tasks'[t] = r /\ r.pc = "create" /\ r.row = row /\ r.op = tasks[t].op
      BY <1>0, <3>6 DEF Shaped, TaskFields
    <3>. HIDE DEF r
    <3> QED BY <1>3, <2>2, <3>7, <3>8, <3>9, <3>10 DEF ApiOps
  <2>3. CASE tasks[t].op \in {"PASSKEY_REG_FINISH", "PASSKEY_AUTH_FINISH"}
    <3>1. PICK data \in {tasks[t].arg, None} : tasks' = [tasks EXCEPT ![t].pc = "create",
                    ![t].row = NewRow("passkey", FactoryOf[tasks[t].arg], tasks[t].arg, data, None),
                    ![t].then = IF tasks[t].op = "PASSKEY_AUTH_FINISH" THEN "unremove" ELSE "done"]
      BY <1>4, <2>3 DEF ApiAnswered
    <3>. DEFINE row == NewRow("passkey", FactoryOf[tasks[t].arg], tasks[t].arg, data, None)
                then == IF tasks[t].op = "PASSKEY_AUTH_FINISH" THEN "unremove" ELSE "done"
                r == [tasks[t] EXCEPT !.pc = "create", !.row = row, !.then = then]
    <3>2. row.mode = "passkey" /\ row.addr = FactoryOf[tasks[t].arg]
      BY DEF NewRow
    <3>3. UNCHANGED displaced
      BY <1>4, <2>3 DEF ApiAnswered
    <3>4. StoredTruth'
      BY <1>0, <1>1, <3>3 DEF StoredTruth
    <3>. HIDE DEF row, then
    <3>5. tasks'[t] = r /\ r.pc = "create" /\ r.row = row /\ r.op = tasks[t].op
      BY <1>0, <3>1 DEF Shaped, TaskFields, row, then
    <3>. HIDE DEF r
    <3> QED BY <1>3, <2>1, <2>3, <3>2, <3>4, <3>5 DEF ApiOps
  <2>4. CASE tasks[t].op = "IMPORT_MNEMONIC_ACCOUNT"
    <3>1. PICK remember \in BOOLEAN : tasks' = [tasks EXCEPT ![t].pc = "create",
                    ![t].row = NewRow("mnemonic", FactoryOf[tasks[t].arg], None, None, tasks[t].arg),
                    ![t].remember = remember, ![t].then = "seed"]
      BY <1>4, <2>4 DEF ApiAnswered
    <3>. DEFINE row == NewRow("mnemonic", FactoryOf[tasks[t].arg], None, None, tasks[t].arg)
                r == [tasks[t] EXCEPT !.pc = "create", !.row = row, !.remember = remember, !.then = "seed"]
    <3>2. row.mode = "mnemonic" /\ row.addr = FactoryOf[tasks[t].arg]
      BY DEF NewRow
    <3>3. UNCHANGED displaced
      BY <1>4, <2>4 DEF ApiAnswered
    <3>4. StoredTruth'
      BY <1>0, <1>1, <3>3 DEF StoredTruth
    <3>5. tasks' = [tasks EXCEPT ![t] = r]
      BY <3>1
    <3>. HIDE DEF row
    <3>6. tasks'[t] = r /\ r.pc = "create" /\ r.row = row /\ r.op = tasks[t].op
      BY <1>0, <3>5 DEF Shaped, TaskFields
    <3>. HIDE DEF r
    <3> QED BY <1>3, <2>1, <2>4, <3>2, <3>4, <3>6 DEF ApiOps
  <2> QED BY <1>4, <2>2, <2>3, <2>4 DEF ApiAnswered
<1>5. CASE CreateRead(t)
  <2>. DEFINE old == tasks[t].row
              row == Merged(old, Existing(Bucket, old))
              r == [tasks[t] EXCEPT !.row = row, !.pc = "upsert"]
  <2>1. tasks' = [tasks EXCEPT ![t] = r] /\ tasks[t].pc = "create" /\ UNCHANGED displaced
    BY <1>5 DEF CreateRead, At
  <2>2. GoodRow(old) /\ Apart(old) /\ MadeAt(tasks[t]) /\ CopyAt(tasks[t])
    BY <1>0, <2>1 DEF RowAt, TruthAt, MadeAt, Creates
  <2>3. /\ row.mode = old.mode /\ Apart(row) /\ (old.mode = "multisig" => row.addr = old.addr)
        /\ row.id # None => \E a \in RangeOf(Bucket) :
              a.id = row.id /\ a.mode = row.mode /\ (row.mode # "mnemonic" => a.addr = row.addr)
    <3>. HIDE DEF old
    <3> QED BY <1>0, <2>2, MergedTruth
  <2>. HIDE DEF row
  <2>4. /\ tasks'[t] = r /\ r.pc = "upsert" /\ r.row = row /\ r.op = tasks[t].op /\ r.then = tasks[t].then
        /\ r.mine = tasks[t].mine /\ r.gone = tasks[t].gone
    BY <1>0, <2>1 DEF Shaped, TaskFields
  <2>. HIDE DEF r
  <2>5. MadeAt(r) /\ CopyAt(r)
    BY <2>1, <2>2, <2>3, <2>4 DEF MadeAt, CopyAt, Creates, Copies, Imports
  <2>6. TruthAt(r)
    BY <2>4, <2>5 DEF TruthAt, SignerAt, FixAt
  <2>7. TruthAt(tasks[t])'
    BY <1>1, <2>1, <2>4, <2>6 DEF TruthAt, SignerAt, MadeAt, CopyAt, FixAt
  <2>8. StoredTruth'
    BY <1>0, <1>1, <2>1 DEF StoredTruth
  <2> QED BY <1>0, <2>7, <2>8, TruthJoins
<1>6. CASE UpsertRead(t)
  <2>. DEFINE r == [tasks[t] EXCEPT !.net = LiveNet, !.list = Bucket,
                                    !.act = active[Scope][LiveNet], !.pc = "write"]
  <2>1. tasks' = [tasks EXCEPT ![t] = r] /\ tasks[t].pc = "upsert" /\ UNCHANGED displaced
    BY <1>6 DEF UpsertRead, ReadBucket, At
  <2>2. /\ tasks'[t] = r /\ r.pc = "write" /\ r.row = tasks[t].row /\ r.op = tasks[t].op
        /\ r.then = tasks[t].then /\ r.mine = tasks[t].mine /\ r.gone = tasks[t].gone
    BY <1>0, <2>1 DEF Shaped, TaskFields
  <2>. HIDE DEF r
  <2>3. MadeAt(r) /\ CopyAt(r)
    BY <1>0, <2>1, <2>2 DEF TruthAt, MadeAt, CopyAt, Creates, Copies, Imports
  <2>4. TruthAt(r)
    BY <2>2, <2>3 DEF TruthAt, SignerAt, FixAt
  <2>5. TruthAt(tasks[t])'
    BY <1>1, <2>1, <2>2, <2>4 DEF TruthAt, SignerAt, MadeAt, CopyAt, FixAt
  <2>6. StoredTruth'
    BY <1>0, <1>1, <2>1 DEF StoredTruth
  <2> QED BY <1>0, <2>5, <2>6, TruthJoins
<1> QED BY <1>2, <1>4, <1>5, <1>6

\* What a handler writes: rows that keep to the rule, of which none moves but back to the
\* funded address, and no wallet that was removed, unless the user asked for it.
Writing(t, n, list) ==
    /\ accounts' = [accounts EXCEPT ![Scope][n] = list]
    /\ UNCHANGED <<displaced, removed, dev>>
    /\ nextId' \in Nat /\ nextId <= nextId'
    /\ OneRow(list) /\ \A a \in RangeOf(list) : Apart(a) /\ a.id < nextId'
    /\ \A a \in RangeOf(accounts[Scope][n]), b \in RangeOf(list) :
          a.id = b.id /\ a.mode = "passkey" /\ a.addr # b.addr => b.addr = displaced[a.addr]
    /\ \A w \in Wallets \cap Addrs(list) :
          \/ w \in Addrs(accounts[Scope][n])
          \/ w \notin removed[Scope][n]
          \/ tasks[t].op \in {"ADD_EXISTING", "CREATE_LOCAL"}

\* Rows of the list that was read.
LEMMA WritingSome ==
  ASSUME ControlKept, RowsKept, TruthKept, scene.busy = 1, NEW t \in Tasks, Moved(t), NEW n \in Nets,
         NEW list, RangeOf(list) \subseteq RangeOf(accounts[Scope][n]),
         accounts' = [accounts EXCEPT ![Scope][n] = list], UNCHANGED <<displaced, removed, dev, nextId>>
  PROVE  Writing(t, n, list)
<1>1. StoredTruth /\ Scope \in Envs /\ nextId \in Nat
  BY TruthOf DEF RowsKept
<1>2. OneRow(accounts[Scope][n]) /\ \A a \in RangeOf(accounts[Scope][n]) : Apart(a) /\ a.id < nextId
  BY <1>1 DEF StoredTruth
<1>3. OneRow(list) /\ \A a \in RangeOf(list) : Apart(a) /\ a.id < nextId'
  BY <1>2 DEF OneRow
<1>4. \A a \in RangeOf(accounts[Scope][n]), b \in RangeOf(list) : a.id = b.id => a.addr = b.addr
  BY <1>2 DEF OneRow
<1>5. Addrs(list) \subseteq Addrs(accounts[Scope][n])
  BY DEF Addrs
<1> QED BY <1>1, <1>3, <1>4, <1>5 DEF Writing

\* The row that createAccount made.
LEMMA WritingMade ==
  ASSUME ControlKept, RowsKept, TruthKept, scene.busy = 1, NEW t \in Tasks, Moved(t), UpsertWrite(t)
  PROVE  \E list, row : /\ Writing(t, LiveNet, list) /\ tasks' = [tasks EXCEPT ![t].row = row, ![t].pc = tasks[t].then]
                        /\ row.addr = tasks[t].row.addr
                        /\ row.mode # "mnemonic" => Addrs(Bucket) \subseteq Addrs(list)
                        /\ row.addr \in Addrs(list) /\ row.mode = tasks[t].row.mode
<1>. DEFINE T == tasks[t]
            row == IF T.row.id = None THEN [T.row EXCEPT !.id = nextId] ELSE T.row
            list == Upserted(T.list, row)
<1>0. /\ StoredTruth /\ TruthAt(T) /\ AloneAt(T) /\ RowAt(T) /\ T.pc = "write"
      /\ RowList(Bucket) /\ OneRow(Bucket) /\ \A a \in RangeOf(Bucket) : Apart(a) /\ a.id < nextId
      /\ Scope \in Envs /\ LiveNet \in Nets /\ nextId \in Nat
  BY TruthOf DEF UpsertWrite, At, RowsKept
<1>1. T.list = Bucket /\ T.net = LiveNet
  BY <1>0 DEF AloneAt, Writes, Bucket
<1>2. /\ accounts' = [accounts EXCEPT ![Scope][T.net] = list]
      /\ tasks' = [tasks EXCEPT ![t].row = row, ![t].pc = T.then]
      /\ nextId' = IF T.row.id = None THEN nextId + 1 ELSE nextId
      /\ UNCHANGED <<displaced, removed, dev>>
  BY Zenon DEF UpsertWrite, WriteBucket
<1>3. GoodRow(T.row) /\ T.row.id \in Nat \cup {None} /\ MadeAt(T)
  BY <1>0 DEF RowAt, TruthAt
<1>4. row.mode = T.row.mode /\ row.addr = T.row.addr /\ row.id = IF T.row.id = None THEN nextId ELSE T.row.id
  BY <1>3 DEF GoodRow, Shaped, RowFields
<1>5. IsList(Bucket) /\ \A a \in RangeOf(Bucket) : a.id \in Nat
  BY <1>0 DEF RowList
<1>. HIDE DEF row
<1>6. RangeOf(list) = {a \in RangeOf(Bucket) : a.id # row.id} \cup {row}
  BY <1>1, <1>5, UpsertedRows
<1>. HIDE DEF list
<1>7. /\ Apart(row)
      /\ T.op \in ApiOps => row.mode # "multisig"
      /\ T.op \in SyncOps => row.addr \in Addrs(Bucket) \/ row.addr \notin removed[Scope][LiveNet]
  BY <1>0, <1>3, <1>4 DEF MadeAt, Creates, Apart
<1>8. \A a \in RangeOf(Bucket) : a.id = row.id =>
         a.mode = row.mode /\ (row.mode # "mnemonic" => a.addr = row.addr)
  <2>1. CASE T.row.id = None
    BY <1>0, <1>4, <1>5, <2>1
  <2>2. CASE T.row.id # None
    <3>1. PICK b \in RangeOf(Bucket) : b.id = row.id /\ b.mode = row.mode /\ (row.mode # "mnemonic" => b.addr = row.addr)
      BY <1>0, <1>3, <1>4, <2>2 DEF MadeAt, Creates
    <3> QED BY <1>0, <3>1 DEF OneRow
  <2> QED BY <2>1, <2>2
<1>9. nextId' \in Nat /\ nextId <= nextId' /\ row.id < nextId'
  <2>1. CASE T.row.id = None
    BY <1>0, <1>2, <1>4, <2>1
  <2>2. CASE T.row.id # None
    <3>1. PICK b \in RangeOf(Bucket) : b.id = T.row.id
      BY <1>0, <1>3, <2>2 DEF MadeAt, Creates
    <3> QED BY <1>0, <1>2, <1>4, <2>2, <3>1
  <2> QED BY <2>1, <2>2
<1>10. OneRow(list)
  BY <1>0, <1>6 DEF OneRow
<1>11. \A a \in RangeOf(list) : Apart(a) /\ a.id < nextId'
  <2>1. \A a \in RangeOf(Bucket) : Apart(a) /\ a.id < nextId'
    BY <1>0, <1>5, <1>9
  <2> QED BY <1>6, <1>7, <1>9, <2>1
<1>12. \A a \in RangeOf(Bucket), b \in RangeOf(list) : a.id = b.id /\ a.mode = "passkey" => a.addr = b.addr
  BY <1>0, <1>6, <1>8 DEF OneRow
<1>13. row.mode # "mnemonic" => Addrs(Bucket) \subseteq Addrs(list)
  BY <1>6, <1>8 DEF Addrs
<1>14. row.addr \in Addrs(list) /\ Addrs(list) \subseteq Addrs(Bucket) \cup {row.addr}
  BY <1>6 DEF Addrs
<1>15. T.op \in ApiOps \cup SyncOps \cup {"ADD_EXISTING", "CREATE_LOCAL"}
  BY <1>0 DEF ControlKept, Controlled, MayBeAt
<1>16. \A w \in Wallets \cap Addrs(list) : \/ w \in Addrs(Bucket) \/ w \notin removed[Scope][LiveNet]
                                          \/ T.op \in {"ADD_EXISTING", "CREATE_LOCAL"}
  BY <1>7, <1>14, <1>15 DEF Apart
<1>17. Writing(t, LiveNet, list)
  BY <1>1, <1>2, <1>9, <1>10, <1>11, <1>12, <1>16 DEF Writing, Bucket
<1> QED BY <1>2, <1>4, <1>13, <1>14, <1>17

\* The funded address of a row.
LEMMA WritingFixed ==
  ASSUME ControlKept, RowsKept, TruthKept, scene.busy = 1, NEW t \in Tasks, Moved(t), PatchWrite(t)
  PROVE  \E list : /\ Writing(t, tasks[t].net, list)
                   /\ RangeOf(list) \subseteq RangeOf(accounts[Scope][tasks[t].net]) \cup
                         {a \in RangeOf(list) : a.id = tasks[t].row.id /\ a.addr = tasks[t].row.addr}
<1>. DEFINE T == tasks[t]
            old == WithId(T.list, T.row.id)
            fixed == [old EXCEPT !.addr = T.row.addr]
            list == Upserted(T.list, fixed)
<1>0. /\ StoredTruth /\ TruthAt(T) /\ AloneAt(T) /\ RowAt(T) /\ T.pc = "patch"
      /\ Scope \in Envs /\ T.net \in Nets /\ nextId \in Nat
  BY TruthOf DEF PatchWrite, At, RowsKept
<1>1. T.list = accounts[Scope][T.net] /\ RowList(T.list) /\ T.row.id \in IdsOf(T.list)
  BY <1>0 DEF AloneAt, RowAt, Writes
<1>2. /\ accounts' = [accounts EXCEPT ![Scope][T.net] = list]
      /\ UNCHANGED <<displaced, removed, dev, nextId>>
  BY DEF PatchWrite, WriteBucket
<1>3. OneRow(T.list) /\ \A a \in RangeOf(T.list) : Apart(a) /\ a.id < nextId
  BY <1>0, <1>1 DEF StoredTruth
<1>4. old \in RangeOf(T.list) /\ old.id = T.row.id
  BY <1>1, ListDomain, FirstIsThere DEF WithId, IdsOf, RowList
<1>. HIDE DEF old
<1>5. fixed.id = T.row.id /\ fixed.addr = T.row.addr /\ fixed.mode = old.mode
  BY <1>1, <1>4 DEF RowList, GoodRow, Shaped, RowFields
<1>. HIDE DEF fixed
<1>6. RangeOf(list) = {a \in RangeOf(T.list) : a.id # fixed.id} \cup {fixed}
  BY <1>1, UpsertedRows DEF RowList
<1>. HIDE DEF list
<1>7. /\ T.row.addr \in Contracts \ Wallets
      /\ \A a \in RangeOf(T.list) : a.id = T.row.id =>
            a.addr = T.row.addr \/ (a.mode = "passkey" /\ T.row.addr = displaced[a.addr])
  <2>1. T.row \in ToFix(T)
    BY <1>0 DEF ToFix
  <2> QED BY <1>0, <1>1, <2>1 DEF TruthAt, FixAt
<1>8. OneRow(list) /\ \A a \in RangeOf(list) : Apart(a) /\ a.id < nextId'
  <2>1. fixed.id < nextId'
    BY <1>2, <1>3, <1>4, <1>5
  <2> QED BY <1>2, <1>3, <1>5, <1>6, <1>7, <2>1 DEF OneRow, Apart
<1>9. \A a \in RangeOf(T.list), b \in RangeOf(list) :
         a.id = b.id /\ a.mode = "passkey" /\ a.addr # b.addr => b.addr = displaced[a.addr]
  BY <1>3, <1>5, <1>6, <1>7 DEF OneRow
<1>10. \A w \in Wallets \cap Addrs(list) : w \in Addrs(T.list)
  BY <1>5, <1>6, <1>7 DEF Addrs
<1>11. Writing(t, T.net, list)
  BY <1>0, <1>1, <1>2, <1>8, <1>9, <1>10 DEF Writing
<1>12. RangeOf(list) \subseteq RangeOf(T.list) \cup {a \in RangeOf(list) : a.id = T.row.id /\ a.addr = T.row.addr}
  BY <1>5, <1>6
<1> QED BY <1>1, <1>11, <1>12

\* The active account, a label, or one row less.
LEMMA WritingRest ==
  ASSUME ControlKept, RowsKept, TruthKept, scene.busy = 1, NEW t \in Tasks, Moved(t),
         WriteActive(t) \/ WriteLabel(t) \/ DeleteRow(t)
  PROVE  /\ \E list : Writing(t, LiveNet, list)
         /\ tasks'[t].pc \in {"done", "cleared", "unvault"}
<1>0. /\ StoredTruth /\ AloneAt(tasks[t]) /\ RowAt(tasks[t]) /\ Scope \in Envs /\ LiveNet \in Nets
      /\ tasks[t].pc \in {"activate", "rename", "delete"}
  BY TruthOf DEF WriteActive, WriteLabel, DeleteRow, At
<1>1. tasks[t].list = Bucket /\ tasks[t].net = LiveNet /\ Bucket = accounts[Scope][LiveNet] /\ IsList(Bucket)
  BY <1>0 DEF AloneAt, RowAt, RowList, Writes, Bucket
<1>2. UNCHANGED <<displaced, removed, dev, nextId>>
  BY DEF WriteActive, WriteLabel, DeleteRow
<1>3. CASE WriteActive(t) \/ WriteLabel(t)
  <2>1. accounts' = [accounts EXCEPT ![Scope][LiveNet] = Bucket] /\ Goto(t, "done")
    BY <1>1, <1>3 DEF WriteActive, WriteLabel, WriteBucket
  <2>2. Writing(t, LiveNet, Bucket)
    BY <1>0, <1>1, <1>2, <2>1, WritingSome
  <2> QED BY <2>1, <2>2, GotoIs
<1>4. CASE DeleteRow(t)
  <2>. DEFINE left == Without(Bucket, tasks[t].arg)
  <2>1. UNCHANGED accounts \/ accounts' = [accounts EXCEPT ![Scope][LiveNet] = left]
    BY <1>1, <1>4 DEF DeleteRow, WriteBucket
  <2>2. RangeOf(left) \subseteq RangeOf(Bucket)
    BY <1>1, WithoutRows
  <2>. HIDE DEF left
  <2>3. CASE accounts' = [accounts EXCEPT ![Scope][LiveNet] = left]
    BY <1>0, <1>1, <1>2, <1>4, <2>2, <2>3, WritingSome, NextLabel
  <2>4. CASE UNCHANGED accounts
    <3>1. accounts' = [accounts EXCEPT ![Scope][LiveNet] = Bucket]
      <4>1. accounts = [accounts EXCEPT ![Scope][LiveNet] = accounts[Scope][LiveNet]]
        BY <1>0 DEF RowsKept, Tabled
      <4> QED BY <1>1, <2>4, <4>1
    <3> QED BY <1>0, <1>1, <1>2, <1>4, <3>1, WritingSome, NextLabel
  <2> QED BY <2>1, <2>3, <2>4
<1> QED BY <1>3, <1>4

\* After a write.
LEMMA WritingKeeps ==
  ASSUME ControlKept, ControlKept', RowsKept, TruthKept, scene.busy = 1, NEW t \in Tasks, Moved(t),
         NEW n \in Nets, NEW list, Writing(t, n, list)
  PROVE  /\ (tasks'[t].pc # "idle" => TruthAt(tasks[t])') => TruthKept'
         /\ UNCHANGED <<Scope, LiveNet>> /\ accounts'[Scope][n] = list
<1>1. StoredTruth /\ Scope \in Envs
  BY TruthOf
<1>2. PICK s \in Envs : s = Scope
  BY <1>1
<1>3. /\ accounts' = [accounts EXCEPT ![s][n] = list] /\ UNCHANGED displaced
      /\ nextId' \in Nat /\ nextId <= nextId'
      /\ OneRow(list) /\ \A a \in RangeOf(list) : Apart(a) /\ a.id < nextId'
  BY <1>2 DEF Writing
<1>4. \A d \in Envs, m \in Nets : accounts'[d][m] = IF d = s /\ m = n THEN list ELSE accounts[d][m]
  BY <1>3 DEF RowsKept, Tabled
<1>5. StoredTruth'
  <2>1. \A d \in Envs, m \in Nets : \A a \in RangeOf(accounts[d][m]) : a.id \in Nat /\ a.id < nextId
    BY <1>1 DEF RowsKept, RowList, StoredTruth
  <2>2. \A d \in Envs, m \in Nets : \A a \in RangeOf(accounts[d][m]) : a.id < nextId'
    BY <1>3, <2>1 DEF RowsKept
  <2>3. \A d \in Envs, m \in Nets : /\ OneRow(accounts'[d][m])
                                    /\ \A a \in RangeOf(accounts'[d][m]) : Apart(a) /\ a.id < nextId'
    BY <1>1, <1>3, <1>4, <2>2 DEF StoredTruth
  <2> QED BY <1>1, <1>3, <2>3 DEF StoredTruth
<1>6. accounts'[Scope][n] = list
  BY <1>2, <1>4
<1>7. UNCHANGED <<Scope, LiveNet>>
  BY DEF Writing, Scope, LiveNet
<1>8. tasks' = [tasks EXCEPT ![t] = tasks'[t]] /\ tasks[t].pc # "idle" /\ UNCHANGED scene
  BY DEF Moved
<1> QED BY <1>5, <1>6, <1>7, <1>8, TruthJoins

LEMMA WritesTruth ==
  ASSUME ControlKept, ControlKept', RowsKept, TruthKept, scene.busy = 1, NEW t \in Tasks, Moved(t),
         \/ UpsertWrite(t) \/ WriteActive(t) \/ WriteLabel(t) \/ DeleteRow(t) \/ PatchWrite(t)
         \/ ClearSession(t)
  PROVE  TruthKept'
<1>. DEFINE T == tasks[t]
<1>0. /\ StoredTruth /\ TruthAt(T) /\ AloneAt(T) /\ RowAt(T) /\ Scope \in Envs /\ LiveNet \in Nets
      /\ T.net \in Nets /\ DOMAIN tasks = Tasks /\ Shaped(T, TaskFields) /\ Controlled(T)
      /\ T.pc # "idle" /\ tasks' = [tasks EXCEPT ![t] = tasks'[t]] /\ UNCHANGED scene
  BY TruthOf DEF Moved, ControlKept
<1>1. CASE UpsertWrite(t)
  <2>1. PICK list, row : /\ Writing(t, LiveNet, list)
                         /\ tasks' = [tasks EXCEPT ![t].row = row, ![t].pc = T.then]
                         /\ row.addr = T.row.addr
                         /\ row.mode # "mnemonic" => Addrs(Bucket) \subseteq Addrs(list)
                         /\ row.addr \in Addrs(list) /\ row.mode = T.row.mode
    BY <1>1, WritingMade
  <2>. DEFINE r == [T EXCEPT !.row = row, !.pc = T.then]
  <2>2. tasks'[t] = r
    BY <1>0, <2>1
  <2>3. /\ r.pc = T.then /\ r.row = row /\ r.op = T.op /\ r.mine = T.mine /\ r.gone = T.gone
    BY <1>0 DEF Shaped, TaskFields
  <2>. HIDE DEF r
  <2>4. /\ (tasks'[t].pc # "idle" => TruthAt(tasks[t])') => TruthKept'
        /\ UNCHANGED <<Scope, LiveNet>> /\ accounts'[Scope][LiveNet] = list /\ UNCHANGED removed
    <3>1. UNCHANGED removed
      BY <2>1 DEF Writing
    <3> QED BY <1>0, <2>1, <3>1, WritingKeeps
  <2>5. Bucket' = list
    BY <2>4 DEF Bucket
  <2>6. CASE r.pc # "ensured"
    <3>1. r.pc \notin TruthLabels
      BY <1>0, <2>3, <2>6 DEF Controlled, Thens, TruthLabels, Creates, Copies, Imports
    <3>2. TruthAt(tasks[t])'
      BY <2>2, <3>1 DEF TruthAt, SignerAt, MadeAt, CopyAt, FixAt, TruthLabels, Creates, Copies, Imports
    <3> QED BY <2>4, <3>2
  <2>7. CASE r.pc = "ensured"
    <3>1. T.op \in SyncOps /\ T.pc = "write" /\ T.then = "ensured"
      BY <1>0, <1>1, <2>3, <2>7 DEF Controlled, MayBeAt, SyncLabels, UpsertWrite, At
    <3>2. /\ row.mode = "multisig" /\ IsList(T.mine) /\ T.gone = removed[Scope][LiveNet]
          /\ \A a \in RangeOf(T.mine) : a.mode = "multisig" => a.addr \in Addrs(Bucket)
      BY <1>0, <2>1, <3>1 DEF TruthAt, MadeAt, CopyAt, Creates
    <3>3. (\A a \in RangeOf(r.mine) : a.mode = "multisig" => a.addr \in Addrs(Bucket'))
      BY <2>1, <2>3, <2>5, <3>2
    <3>4. r.row.addr \in Addrs(Bucket') /\ r.gone = removed'[Scope'][LiveNet'] /\ IsList(r.mine)
      BY <2>1, <2>3, <2>4, <2>5, <3>2
    <3>5. CopyAt(tasks[t])'
      BY <2>2, <2>7, <3>3, <3>4 DEF CopyAt, Creates, Copies, Imports
    <3>6. TruthAt(tasks[t])'
      BY <2>2, <2>7, <3>5 DEF TruthAt, SignerAt, MadeAt, FixAt, Creates
    <3> QED BY <2>4, <3>6
  <2> QED BY <2>6, <2>7
<1>2. CASE WriteActive(t) \/ WriteLabel(t) \/ DeleteRow(t)
  <2>1. (\E list : Writing(t, LiveNet, list)) /\ tasks'[t].pc \in {"done", "cleared", "unvault"}
    BY <1>2, WritingRest
  <2>2. TruthAt(tasks[t])'
    BY <2>1 DEF TruthAt, SignerAt, MadeAt, CopyAt, FixAt, Creates, Copies, Imports
  <2> QED BY <1>0, <2>1, <2>2, WritingKeeps
<1>3. CASE PatchWrite(t)
  <2>1. PICK list : /\ Writing(t, T.net, list)
                    /\ RangeOf(list) \subseteq RangeOf(accounts[Scope][T.net]) \cup
                          {a \in RangeOf(list) : a.id = T.row.id /\ a.addr = T.row.addr}
    BY <1>3, WritingFixed
  <2>. DEFINE r == tasks'[t]
  <2>2. r.pc = "repairNext" /\ r.mine = T.mine /\ r.net = T.net /\ T.pc = "patch"
    BY <1>3, GotoIs DEF PatchWrite, At, TaskFields
  <2>3. /\ (r.pc # "idle" => TruthAt(tasks[t])') => TruthKept'
        /\ UNCHANGED <<Scope, LiveNet>> /\ accounts'[Scope][T.net] = list /\ UNCHANGED displaced
    <3>1. UNCHANGED displaced
      BY <2>1 DEF Writing
    <3> QED BY <1>0, <2>1, <3>1, WritingKeeps
  <2>. HIDE DEF r
  <2>4. ToFix(T) = RangeOf(T.mine) \cup {T.row} /\ ToFix(r) = RangeOf(T.mine)
    BY <2>2 DEF ToFix
  <2>5. /\ IsList(r.mine) /\ \A m \in ToFix(r) : m.addr \in Contracts \ Wallets
        /\ \A m, k \in ToFix(r) : m.id = k.id => m.addr = k.addr
    BY <1>0, <2>2, <2>4 DEF TruthAt, FixAt
  <2>6. \A m \in ToFix(r), a \in RangeOf(list) :
           a.id = m.id => a.addr = m.addr \/ (a.mode = "passkey" /\ m.addr = displaced[a.addr])
    BY <1>0, <2>1, <2>2, <2>4 DEF TruthAt, FixAt
  <2>7. FixAt(tasks[t])'
    BY <2>2, <2>3, <2>5, <2>6 DEF FixAt, r, ToFix
  <2>8. TruthAt(tasks[t])'
    BY <2>2, <2>7 DEF TruthAt, SignerAt, MadeAt, CopyAt, Creates, Copies, Imports, r
  <2> QED BY <2>3, <2>8
<1>4. CASE ClearSession(t)
  <2>. DEFINE none == [n \in Nets |-> <<>>]
              s == Scope
  <2>1. /\ accounts' = [accounts EXCEPT ![s] = none] /\ Goto(t, "done")
        /\ UNCHANGED <<displaced, nextId, dev>>
    BY <1>4 DEF ClearSession
  <2>. HIDE DEF s
  <2>2. \A e \in Envs, n \in Nets : accounts'[e][n] = IF e = s THEN <<>> ELSE accounts[e][n]
    BY <1>0, <2>1 DEF RowsKept, Tabled, s
  <2>3. StoredTruth'
    BY <1>0, <2>1, <2>2, NoRows DEF StoredTruth, OneRow
  <2>4. tasks'[t].pc = "done"
    BY <2>1, GotoIs
  <2>5. TruthAt(tasks[t])'
    BY <2>4 DEF TruthAt, SignerAt, MadeAt, CopyAt, FixAt, Creates, Copies, Imports
  <2> QED BY <1>0, <2>3, <2>5, TruthJoins
<1> QED BY <1>1, <1>2, <1>3, <1>4

\* The rows to repair, and the next of them.
LEMMA RepairsTruth ==
  ASSUME ControlKept, ControlKept', RowsKept, TruthKept, scene.busy = 1, NEW t \in Tasks, Moved(t),
         RepairRead(t) \/ PatchRead(t)
  PROVE  TruthKept'
<1>. DEFINE T == tasks[t]
            n == T.net
            now == accounts[Scope][n]
<1>0. /\ StoredTruth /\ TruthAt(T) /\ Scope \in Envs /\ LiveNet \in Nets
      /\ n \in Nets /\ DOMAIN tasks = Tasks /\ Shaped(T, TaskFields)
      /\ T.pc # "idle" /\ tasks' = [tasks EXCEPT ![t] = tasks'[t]] /\ UNCHANGED scene
  BY TruthOf DEF Moved, ControlKept
<1>1. UNCHANGED <<accounts, displaced, nextId, dev>>
  BY DEF RepairRead, PatchRead, store
<1>2. StoredTruth' /\ UNCHANGED <<Scope, LiveNet>>
  BY <1>0, <1>1 DEF StoredTruth, Scope, LiveNet
<1>3. /\ OneRow(now) /\ RowList(now) /\ \A a \in RangeOf(now) : Apart(a)
      /\ \A c \in Contracts : displaced[c] \in (Contracts \ Wallets) \cup {None}
  BY <1>0 DEF StoredTruth, RowsKept
<1>. HIDE DEF n, now
\* With the rows that are left to repair.
<1>4. ASSUME NEW r, tasks'[t] = r, r.pc \in {"repairNext", "patch"}, r.net = n, IsList(r.mine),
             \A m \in ToFix(r) : m.addr \in Contracts \ Wallets,
             \A m, k \in ToFix(r) : m.id = k.id => m.addr = k.addr,
             \A m \in ToFix(r), a \in RangeOf(now) :
                a.id = m.id => a.addr = m.addr \/ (a.mode = "passkey" /\ m.addr = displaced[a.addr]),
             r.pc = "patch" => \E a \in RangeOf(r.list) : a.id = r.row.id /\ a.addr # r.row.addr
      PROVE  TruthKept'
  <2>1. now = accounts'[Scope'][r.net]
    BY <1>1, <1>2, <1>4 DEF now
  <2>2. \A m \in ToFix(r), a \in RangeOf(accounts'[Scope'][r.net]) :
           a.id = m.id => a.addr = m.addr \/ (a.mode = "passkey" /\ m.addr = displaced'[a.addr])
    BY <1>1, <1>4, <2>1
  <2>3. FixAt(tasks[t])'
    BY <1>4, <2>2 DEF FixAt, ToFix
  <2>4. TruthAt(tasks[t])'
    BY <1>4, <2>3 DEF TruthAt, SignerAt, MadeAt, CopyAt, Creates, Copies, Imports
  <2> QED BY <1>0, <1>2, <2>4, TruthJoins
<1>5. CASE RepairRead(t)
  <2>. DEFINE those == {a \in RangeOf(now) : Displaced(a)}
              bad == Those(now, those)
              mine == [i \in DOMAIN bad |-> [bad[i] EXCEPT !.addr = displaced[@]]]
              r == [T EXCEPT !.pc = "repairNext", !.mine = mine]
  <2>1. tasks' = [tasks EXCEPT ![t] = r]
    BY <1>5, Zenon DEF RepairRead, now, n
  <2>2. IsList(bad) /\ RangeOf(bad) = RangeOf(now) \cap those
    BY <1>3, ThoseRows DEF RowList
  <2>3. \A a \in RangeOf(bad) : a \in RangeOf(now) /\ a.mode = "passkey" /\ displaced[a.addr] # None
    <3>. HIDE DEF bad
    <3> QED BY <2>2 DEF Displaced
  <2>. HIDE DEF bad
  <2>4. \A m \in RangeOf(mine) : \E a \in RangeOf(bad) : m.id = a.id /\ m.addr = displaced[a.addr]
    <3>1. ASSUME NEW i \in DOMAIN bad
          PROVE  mine[i].id = bad[i].id /\ mine[i].addr = displaced[bad[i].addr] /\ bad[i] \in RangeOf(bad)
      <4>1. bad[i] \in RangeOf(bad)
        BY DEF RangeOf
      <4>2. GoodRow(bad[i])
        BY <1>3, <2>3, <4>1 DEF RowList
      <4> QED BY <4>1, <4>2 DEF GoodRow, Shaped, RowFields
    <3>2. DOMAIN mine = DOMAIN bad
      OBVIOUS
    <3>. HIDE DEF mine
    <3> QED BY <3>1, <3>2 DEF RangeOf
  <2>5. IsList(mine)
    <3>1. Len(bad) \in Nat /\ DOMAIN bad = 1..Len(bad)
      BY <2>2, ListDomain
    <3>2. mine \in [1..Len(bad) -> RangeOf(mine)]
      BY <3>1 DEF RangeOf
    <3>. HIDE DEF mine
    <3> QED BY <3>1, <3>2, SeqDef DEF IsList
  <2>. HIDE DEF mine
  <2>6. r.pc = "repairNext" /\ r.mine = mine /\ r.net = n
    BY <1>0 DEF Shaped, TaskFields, n
  <2>7. tasks'[t] = r
    BY <1>0, <2>1
  <2>. HIDE DEF r
  <2>8. ToFix(r) = RangeOf(mine)
    BY <2>6 DEF ToFix
  <2>9. \A m \in RangeOf(mine) : m.addr \in Contracts \ Wallets
    BY <1>3, <2>3, <2>4 DEF Apart
  <2>10. \A m, k \in RangeOf(mine) : m.id = k.id => m.addr = k.addr
    BY <1>3, <2>3, <2>4 DEF OneRow
  <2>11. \A m \in RangeOf(mine), a \in RangeOf(now) :
            a.id = m.id => a.mode = "passkey" /\ m.addr = displaced[a.addr]
    BY <1>3, <2>3, <2>4 DEF OneRow
  <2> QED BY <1>4, <2>5, <2>6, <2>7, <2>8, <2>9, <2>10, <2>11
<1>6. CASE PatchRead(t) /\ T.mine # <<>>
  <2>. DEFINE act == active[Scope][T.net]
              first == T.mine[1]
              rest == Tail(T.mine)
              pc == IF Patchable(now, first) THEN "patch" ELSE "repairNext"
              r == [T EXCEPT !.list = now, !.act = act, !.row = first, !.mine = rest, !.pc = pc]
  <2>1. tasks' = [tasks EXCEPT ![t] = r] /\ T.pc = "repairNext"
    BY <1>6 DEF PatchRead, At, now, n
  <2>. HIDE DEF act, pc
  <2>2. r.pc = pc /\ r.mine = rest /\ r.net = n /\ r.list = now /\ r.row = first
    BY <1>0 DEF Shaped, TaskFields, n
  <2>3. tasks'[t] = r
    BY <1>0, <2>1
  <2>4. /\ IsList(T.mine) /\ ToFix(T) = RangeOf(T.mine)
        /\ \A m \in RangeOf(T.mine) : m.addr \in Contracts \ Wallets
        /\ \A m, k \in RangeOf(T.mine) : m.id = k.id => m.addr = k.addr
        /\ \A m \in RangeOf(T.mine), a \in RangeOf(now) :
             a.id = m.id => a.addr = m.addr \/ (a.mode = "passkey" /\ m.addr = displaced[a.addr])
    <3>1. ToFix(T) = RangeOf(T.mine) /\ FixAt(T)
      BY <1>0, <2>1 DEF ToFix, TruthAt
    <3> QED BY <2>1, <3>1 DEF FixAt, now, n
  <2>5. IsList(rest) /\ first \in RangeOf(T.mine) /\ RangeOf(rest) \subseteq RangeOf(T.mine)
    <3>1. T.mine \in Seq(RangeOf(T.mine))
      BY <2>4 DEF IsList
    <3>2. Head(T.mine) = first
      OBVIOUS
    <3>3. rest \in Seq(RangeOf(T.mine)) /\ Head(T.mine) \in RangeOf(T.mine)
      <4>. DEFINE S == RangeOf(T.mine)
                  s == T.mine
      <4>1. s \in Seq(S) /\ s # <<>>
        BY <1>6, <3>1
      <4>. HIDE DEF S, s
      <4>2. Head(s) \in S /\ Tail(s) \in Seq(S)
        BY <4>1, HeadTailProperties
      <4> QED BY <4>2 DEF S, s
    <3>. HIDE DEF rest, first
    <3> QED BY <3>2, <3>3, ListOfMore
  <2>. HIDE DEF r, rest, first
  <2>6. ToFix(r) \subseteq RangeOf(T.mine)
    BY <2>2, <2>5 DEF ToFix
  <2>7. r.pc = "patch" => \E a \in RangeOf(r.list) : a.id = r.row.id /\ a.addr # r.row.addr
    BY <2>2 DEF pc, Patchable
  <2>8. r.pc \in {"repairNext", "patch"}
    BY <2>2 DEF pc
  <2>9. /\ \A m \in ToFix(r) : m.addr \in Contracts \ Wallets
        /\ \A m, k \in ToFix(r) : m.id = k.id => m.addr = k.addr
        /\ \A m \in ToFix(r), a \in RangeOf(now) :
             a.id = m.id => a.addr = m.addr \/ (a.mode = "passkey" /\ m.addr = displaced[a.addr])
    BY <2>4, <2>6
  <2> QED BY <1>4, <2>2, <2>3, <2>5, <2>7, <2>8, <2>9
<1>7. CASE PatchRead(t) /\ T.mine = <<>>
  <2>1. tasks'[t].pc \in {"repair", "done"}
    BY <1>0, <1>7 DEF PatchRead, Shaped, TaskFields
  <2>2. TruthAt(tasks[t])'
    BY <2>1 DEF TruthAt, SignerAt, MadeAt, CopyAt, FixAt, Creates, Copies, Imports
  <2> QED BY <1>0, <1>2, <2>2, TruthJoins
<1> QED BY <1>5, <1>6, <1>7

\* A handler that starts has read nothing, and is about one signer if it asks the API.
LEMMA TruthStarted ==
  ASSUME ControlKept, ControlKept', TruthKept, NEW t \in Tasks, NEW op, NEW label \in FirstLabels, NEW arg,
         Start(t, op, label, arg), label \in {"add", "clear"} => op \notin SyncOps,
         label \in {"before", "api"} => arg \in Signers /\ (op = "CREATE_OR_CONNECT_PASSKEY" => arg \in Creds)
  PROVE  TruthKept'
<1>. DEFINE r == [NoTask EXCEPT !.op = op, !.pc = label, !.arg = arg]
<1>1. /\ tasks' = [tasks EXCEPT ![t] = r] /\ UNCHANGED <<scene, dev, accounts, displaced, nextId>>
      /\ DOMAIN tasks = Tasks
  BY DEF Start, store, ControlKept
<1>2. Shaped(NoTask, TaskFields) /\ NoTask.list = <<>>
  BY DEF Shaped, TaskFields, NoTask
<1>3. r.op = op /\ r.pc = label /\ r.arg = arg /\ r.list = <<>>
  <2>. HIDE DEF NoTask
  <2> QED BY <1>2 DEF Shaped, TaskFields
<1>4. tasks'[t] = r
  BY <1>1
<1>. HIDE DEF r
<1>5. SUFFICES ASSUME scene.busy = 1 PROVE TruthKept'
  BY <1>1 DEF TruthKept
<1>6. SignerAt(r)
  BY <1>3, NoRows DEF SignerAt
<1>7. TruthAt(tasks[t])'
  BY <1>3, <1>4, <1>6 DEF TruthAt, SignerAt, MadeAt, CopyAt, FixAt, Creates, Copies, Imports, FirstLabels
<1>8. StoredTruth'
  BY <1>1, <1>5 DEF TruthKept, StoredTruth
<1>9. tasks'[t].pc # "idle" /\ tasks' = [tasks EXCEPT ![t] = tasks'[t]]
  BY <1>1, <1>3, <1>4 DEF FirstLabels
<1> QED BY <1>1, <1>5, <1>7, <1>8, <1>9, TruthJoins

LEMMA TruthHandled ==
  ASSUME ControlKept, ControlKept', TruthKept, NEW t \in Tasks, Handler(t) \/ SyncHandler(t)
  PROVE  TruthKept'
<1>1. CASE CreateOrConnect(t) \/ Register(t) \/ LogIn(t) \/ ImportSeed(t)
  <2>1. \E op, arg : \E label \in {"before", "api"} :
           /\ Start(t, op, label, arg) /\ arg \in Signers
           /\ op = "CREATE_OR_CONNECT_PASSKEY" => arg \in Creds
    BY <1>1 DEF CreateOrConnect, Register, LogIn, ImportSeed, Signers
  <2> QED BY <2>1, TruthStarted DEF FirstLabels
<1>2. CASE AddInvite(t) \/ DropInvite(t)
  <2>1. \E arg : \E label \in {"add", "clear"}, op \in {"ADD_INVITE", "REMOVE_INVITE"} : Start(t, op, label, arg)
    BY <1>2 DEF AddInvite, DropInvite
  <2> QED BY <2>1, TruthStarted DEF FirstLabels, SyncOps
<1>3. ASSUME NEW op, NEW arg, NEW label \in FirstLabels \ {"before", "api", "add", "clear"},
             Start(t, op, label, arg)
      PROVE  TruthKept'
  BY <1>3, TruthStarted
<1>4. CASE Unlock(t) \/ SetActive(t) \/ Rename(t) \/ Delete(t)
  <2>1. \E op, arg : \E label \in {"unlock", "read"} : Start(t, op, label, arg)
    BY <1>4 DEF Unlock, SetActive, Rename, Delete, OnRow
  <2> QED BY <1>3, <2>1 DEF FirstLabels
<1>5. CASE Logout(t) \/ GetAccounts(t) \/ NextSeq(t)
  <2>1. \E op, arg : \E label \in {"logout", "setup", "peek"} : Start(t, op, label, arg)
    BY <1>5 DEF Logout, GetAccounts, NextSeq
  <2> QED BY <1>3, <2>1 DEF FirstLabels
<1>6. CASE SetDeveloperMode(t)
  <2>. DEFINE mode == ~dev
  <2>1. Start(t, "SET_DEVELOPER_MODE", "health", mode)
    BY <1>6 DEF SetDeveloperMode
  <2>. HIDE DEF mode
  <2> QED BY <1>3, <2>1 DEF FirstLabels
<1>7. CASE SetDraftMeta(t) \/ EnsureRegistered(t) \/ AddExisting(t) \/ CreateLocal(t)
  <2>1. \E op, arg : \E label \in {"draftMeta", "listOne", "verify", "local"} : Start(t, op, label, arg)
    BY <1>7 DEF SetDraftMeta, EnsureRegistered, AddExisting, CreateLocal
  <2> QED BY <1>3, <2>1 DEF FirstLabels
<1>8. CASE SyncLocal(t)
  <2>1. PICK activate : Start(t, "SYNC", "sync", activate)
    BY <1>8 DEF SyncLocal
  <2> QED BY <1>3, <2>1 DEF FirstLabels
<1> QED BY <1>1, <1>2, <1>4, <1>5, <1>6, <1>7, <1>8 DEF Handler, SyncHandler

\* A step of a sync that keeps its copies.
LEMMA CopiesStay ==
  ASSUME ControlKept, ControlKept', RowsKept, TruthKept, scene.busy = 1, NEW t \in Tasks, Moved(t),
         UNCHANGED <<accounts, displaced, nextId, removed, dev>>,
         tasks'[t].mine = tasks[t].mine, tasks'[t].gone = tasks[t].gone,
         \/ tasks[t].pc \in Imports /\ tasks'[t].pc \in (Imports \ {"ensured"}) \cup {"done"}
         \/ tasks[t].pc = "syncInvites" /\ tasks'[t].pc = "syncRemoved"
  PROVE  TruthKept'
<1>. DEFINE T == tasks[t]
            r == tasks'[t]
<1>1. StoredTruth /\ TruthAt(T) /\ tasks' = [tasks EXCEPT ![t] = r] /\ UNCHANGED scene /\ T.pc # "idle"
  BY TruthOf DEF Moved
<1>2. UNCHANGED <<Scope, LiveNet, Bucket>> /\ StoredTruth'
  BY <1>1 DEF Scope, LiveNet, Bucket, StoredTruth
<1>3. r.pc # "idle" /\ r.op = T.op
  BY NoTaskControlled DEF Moved, Imports
<1>4. CopyAt(r)
  BY <1>1, <1>3 DEF TruthAt, CopyAt, Copies, Creates, Imports
<1>5. CopyAt(tasks[t])'
  BY <1>2, <1>4 DEF CopyAt
<1>6. TruthAt(tasks[t])'
  BY <1>5 DEF TruthAt, SignerAt, MadeAt, FixAt, Creates, Imports
<1> QED BY <1>1, <1>2, <1>6, TruthJoins

\* The labels of a sync at which it holds no row, and its end.
Calm == {"list", "wallets", "invites", "preview", "predict", "ownDraft", "draft", "register", "known",
         "confirm", "activateNew", "note", "add", "noted", "clear", "cleared1", "done"}

LEMMA SyncStays ==
  ASSUME ControlKept, ControlKept', RowsKept, TruthKept, scene.busy = 1, NEW t \in Tasks, Moved(t),
         \/ SyncInvites(t) \/ ListWallets(t) \/ InvitesRead(t) \/ ClearInvite(t) \/ NoteInvite(t)
         \/ PatchInvite(t) \/ InviteNext(t) \/ Preview(t) \/ Predict(t) \/ OwnDraft(t) \/ Deployed(t)
         \/ RegisterKnown(t) \/ ConfirmListed(t)
  PROVE  TruthKept'
<1>0. /\ Shaped(tasks[t], TaskFields) /\ DOMAIN tasks = Tasks
      /\ tasks[t].next \in Calm /\ tasks[t].phase \in Calm
      /\ UNCHANGED <<accounts, displaced, nextId, removed, dev>>
  <2>1. Controlled(tasks[t]) /\ DOMAIN tasks = Tasks
    BY DEF ControlKept
  <2>2. OnlyTasks => UNCHANGED <<accounts, displaced, nextId, removed, dev>>
    BY DEF OnlyTasks, store
  <2>3. CASE SyncInvites(t) \/ ListWallets(t) \/ InvitesRead(t) \/ PatchInvite(t) \/ InviteNext(t)
             \/ Preview(t) \/ Predict(t) \/ OwnDraft(t) \/ Deployed(t) \/ ConfirmListed(t)
    BY <2>1, <2>2, <2>3 DEF SyncInvites, ListWallets, InvitesRead, PatchInvite, InviteNext, Preview, Predict,
                            OwnDraft, Deployed, ConfirmListed, Controlled, Nexts, Phases, Calm
  <2>4. CASE ClearInvite(t) \/ NoteInvite(t) \/ RegisterKnown(t)
    BY <2>1, <2>4 DEF ClearInvite, NoteInvite, RegisterKnown, store, Controlled, Nexts, Phases, Calm
  <2> QED BY <2>3, <2>4
<1>1. CASE SyncInvites(t)
  <2>. DEFINE r == [tasks[t] EXCEPT !.inv = invites[Scope], !.pc = "syncRemoved"]
  <2>1. tasks' = [tasks EXCEPT ![t] = r] /\ tasks[t].pc = "syncInvites"
    BY <1>1 DEF SyncInvites, At
  <2>2. r.pc = "syncRemoved" /\ r.mine = tasks[t].mine /\ r.gone = tasks[t].gone
    BY <1>0 DEF Shaped, TaskFields
  <2>3. tasks'[t] = r
    BY <1>0, <2>1
  <2>. HIDE DEF r
  <2> QED BY <1>0, <2>1, <2>2, <2>3, CopiesStay
<1>. SUFFICES ASSUME ~SyncInvites(t) PROVE TruthKept'
  BY <1>1
<1>2. tasks[t].pc \in Imports
  <2>1. CASE ListWallets(t) \/ InvitesRead(t) \/ ClearInvite(t) \/ NoteInvite(t) \/ PatchInvite(t) \/ InviteNext(t)
    BY <2>1 DEF ListWallets, InvitesRead, ClearInvite, NoteInvite, PatchInvite, InviteNext, At, Imports
  <2>2. CASE Preview(t) \/ Predict(t) \/ OwnDraft(t) \/ Deployed(t) \/ RegisterKnown(t) \/ ConfirmListed(t)
    BY <2>2 DEF Preview, Predict, OwnDraft, Deployed, RegisterKnown, ConfirmListed, At, Imports
  <2> QED BY <2>1, <2>2
<1>3. ASSUME NEW r, tasks' = [tasks EXCEPT ![t] = r], r.pc \in Calm, r.mine = tasks[t].mine,
             r.gone = tasks[t].gone PROVE TruthKept'
  <2>1. tasks'[t] = r
    BY <1>0, <1>3
  <2>2. r.pc \in (Imports \ {"ensured"}) \cup {"done"}
    BY <1>3 DEF Imports, Calm
  <2> QED BY <1>0, <1>2, <1>3, <2>1, <2>2, CopiesStay
<1>4. ASSUME NEW label, label \in Calm, Goto(t, label) PROVE TruthKept'
  <2>1. tasks' = [tasks EXCEPT ![t] = tasks'[t]]
    BY DEF Moved
  <2> QED BY <1>3, <1>4, <2>1, GotoIs DEF TaskFields
<1>5. CASE NoteInvite(t)
  BY <1>0, <1>4, <1>5 DEF NoteInvite
<1>6. CASE Deployed(t) \/ ConfirmListed(t)
  <2>1. \E label \in {"register", "clear", tasks[t].phase} : Goto(t, label)
    BY <1>6 DEF Deployed, ConfirmListed, GiveUp
  <2> QED BY <1>0, <1>4, <2>1 DEF Calm
<1>7. CASE ListWallets(t)
  <2>. DEFINE r == [tasks[t] EXCEPT !.todo = listed[Scope], !.pc = "wallets"]
              s == [tasks[t] EXCEPT !.todo = tasks[t].inv, !.phase = "invites", !.pc = "invites"]
  <2>1. tasks' = [tasks EXCEPT ![t] = r] \/ tasks' = [tasks EXCEPT ![t] = s]
    BY <1>7 DEF ListWallets
  <2>2. /\ r.pc = "wallets" /\ r.mine = tasks[t].mine /\ r.gone = tasks[t].gone
        /\ s.pc = "invites" /\ s.mine = tasks[t].mine /\ s.gone = tasks[t].gone
    BY <1>0 DEF Shaped, TaskFields
  <2>. HIDE DEF r, s
  <2> QED BY <1>3, <2>1, <2>2 DEF Calm
<1>8. CASE InvitesRead(t)
  <2>1. ASSUME NEW bag, NEW label \in {"cleared1", "noted"},
               tasks' = [tasks EXCEPT ![t].bag = bag, ![t].pc = label]
        PROVE  TruthKept'
    <3>. DEFINE r == [tasks[t] EXCEPT !.bag = bag, !.pc = label]
    <3>1. tasks' = [tasks EXCEPT ![t] = r]
      BY <2>1
    <3>2. r.pc = label /\ r.mine = tasks[t].mine /\ r.gone = tasks[t].gone
      BY <1>0 DEF Shaped, TaskFields
    <3>. HIDE DEF r
    <3> QED BY <1>3, <2>1, <3>1, <3>2 DEF Calm
  <2>2. \E bag : \E label \in {"cleared1", "noted"} :
            tasks' = [tasks EXCEPT ![t].bag = bag, ![t].pc = label]
    BY <1>8 DEF InvitesRead
  <2> QED BY <2>1, <2>2
<1>9. CASE ClearInvite(t)
  <2>. DEFINE label == IF tasks[t].op = "REMOVE_INVITE" THEN "done" ELSE tasks[t].phase
              left == Others(tasks[t].inv, TheInvite(t))
              r == [tasks[t] EXCEPT !.inv = left, !.hit = None, !.pc = label]
  <2>1. tasks' = [tasks EXCEPT ![t] = r]
    BY <1>9 DEF ClearInvite
  <2>2. label \in Calm
    BY <1>0 DEF Calm
  <2>. HIDE DEF label, left
  <2>3. r.pc = label /\ r.mine = tasks[t].mine /\ r.gone = tasks[t].gone
    BY <1>0 DEF Shaped, TaskFields
  <2>. HIDE DEF r
  <2> QED BY <1>3, <2>1, <2>2, <2>3
<1>10. CASE InviteNext(t)
  <2>. DEFINE r == [tasks[t] EXCEPT !.hit = None, !.pc = "ownDraft"]
  <2>1. \/ tasks' = [tasks EXCEPT ![t] = r]
        \/ \E i : \E label \in {"known", "preview"} :
               tasks' = [tasks EXCEPT ![t].todo = @ \ {i}, ![t].hit = i, ![t].pc = label]
    BY <1>10 DEF InviteNext
  <2>2. CASE tasks' = [tasks EXCEPT ![t] = r]
    <3>1. r.pc = "ownDraft" /\ r.mine = tasks[t].mine /\ r.gone = tasks[t].gone
      BY <1>0 DEF Shaped, TaskFields
    <3>. HIDE DEF r
    <3> QED BY <1>3, <2>2, <3>1 DEF Calm
  <2>3. ASSUME NEW i, NEW label \in {"known", "preview"},
               tasks' = [tasks EXCEPT ![t].todo = @ \ {i}, ![t].hit = i, ![t].pc = label]
        PROVE  TruthKept'
    <3>. DEFINE s == [tasks[t] EXCEPT !.todo = @ \ {i}, !.hit = i, !.pc = label]
    <3>1. s.pc = label /\ s.mine = tasks[t].mine /\ s.gone = tasks[t].gone
      BY <1>0 DEF Shaped, TaskFields
    <3>2. tasks' = [tasks EXCEPT ![t] = s]
      BY <2>3
    <3>. HIDE DEF s
    <3> QED BY <1>3, <3>1, <3>2 DEF Calm
  <2>. HIDE DEF r
  <2>4. CASE \E i : \E label \in {"known", "preview"} :
               tasks' = [tasks EXCEPT ![t].todo = @ \ {i}, ![t].hit = i, ![t].pc = label]
    BY <2>3, <2>4
  <2> QED BY <2>1, <2>2, <2>4
<1>11. CASE Preview(t) \/ Predict(t)
  <2>1. ASSUME NEW hit, NEW next,
               tasks' = [tasks EXCEPT ![t].hit = hit, ![t].next = next, ![t].pc = "note"]
        PROVE  TruthKept'
    <3>. DEFINE s == [tasks[t] EXCEPT !.hit = hit, !.next = next, !.pc = "note"]
    <3>1. tasks' = [tasks EXCEPT ![t] = s]
      BY <2>1
    <3>2. s.pc = "note" /\ s.mine = tasks[t].mine /\ s.gone = tasks[t].gone
      BY <1>0 DEF Shaped, TaskFields
    <3>. HIDE DEF s
    <3> QED BY <1>3, <3>1, <3>2 DEF Calm
  <2>2. CASE GiveUp(t) \/ Goto(t, "draft")
    BY <1>0, <1>4, <2>2 DEF GiveUp, Calm
  <2>3. CASE Preview(t)
    <3>1. GiveUp(t) \/ \E hit : tasks' = [tasks EXCEPT ![t].hit = hit, ![t].next = "predict", ![t].pc = "note"]
      BY <2>3 DEF Preview
    <3> QED BY <2>1, <2>2, <3>1
  <2>4. CASE Predict(t)
    <3>1. \/ Goto(t, "draft")
          \/ \E hit : tasks' = [tasks EXCEPT ![t].hit = hit, ![t].next = "draft", ![t].pc = "note"]
      BY <2>4 DEF Predict
    <3> QED BY <2>1, <2>2, <3>1
  <2> QED BY <1>11, <2>3, <2>4
<1>12. CASE OwnDraft(t)
  <2>1. ASSUME NEW hit, tasks' = [tasks EXCEPT ![t].hit = hit, ![t].phase = "activateNew", ![t].pc = "draft"]
        PROVE  TruthKept'
    <3>. DEFINE s == [tasks[t] EXCEPT !.hit = hit, !.phase = "activateNew", !.pc = "draft"]
    <3>1. s.pc = "draft" /\ s.mine = tasks[t].mine /\ s.gone = tasks[t].gone
      BY <1>0 DEF Shaped, TaskFields
    <3>2. tasks' = [tasks EXCEPT ![t] = s]
      BY <2>1
    <3>. HIDE DEF s
    <3> QED BY <1>3, <3>1, <3>2 DEF Calm
  <2>2. CASE Goto(t, "activateNew")
    BY <1>4, <2>2 DEF Calm
  <2>3. Goto(t, "activateNew") \/ \E hit :
           tasks' = [tasks EXCEPT ![t].hit = hit, ![t].phase = "activateNew", ![t].pc = "draft"]
    BY <1>12 DEF OwnDraft
  <2> QED BY <2>1, <2>2, <2>3
<1>13. CASE RegisterKnown(t)
  <2>. DEFINE s == [tasks[t] EXCEPT !.next = "confirm", !.pc = "note"]
  <2>1. tasks' = [tasks EXCEPT ![t] = s] \/ \E label \in {"confirm", tasks[t].phase} : Goto(t, label)
    BY <1>13 DEF RegisterKnown, GiveUp
  <2>2. s.pc = "note" /\ s.mine = tasks[t].mine /\ s.gone = tasks[t].gone
    BY <1>0 DEF Shaped, TaskFields
  <2>. HIDE DEF s
  <2> QED BY <1>0, <1>4, <1>3, <2>1, <2>2 DEF Calm
<1>14. CASE PatchInvite(t)
  <2>1. PICK bag : tasks' = [tasks EXCEPT ![t].bag = bag, ![t].pc = "add"]
    BY <1>14 DEF PatchInvite
  <2>. DEFINE s == [tasks[t] EXCEPT !.bag = bag, !.pc = "add"]
  <2>2. s.pc = "add" /\ s.mine = tasks[t].mine /\ s.gone = tasks[t].gone
    BY <1>0 DEF Shaped, TaskFields
  <2>3. tasks' = [tasks EXCEPT ![t] = s]
    BY <2>1
  <2>. HIDE DEF s
  <2> QED BY <1>3, <2>2, <2>3 DEF Calm
<1> QED BY <1>5, <1>6, <1>7, <1>8, <1>9, <1>10, <1>11, <1>12, <1>13, <1>14

\* The steps of a sync, and of an explicit add, that end it.
LEMMA SyncEnds ==
  ASSUME ControlKept, ControlKept', RowsKept, TruthKept, scene.busy = 1, NEW t \in Tasks, Moved(t),
         StoreDraftMeta(t) \/ DropSession(t) \/ ActivateNew(t) \/ Readd(t)
  PROVE  TruthKept'
<1>0. DOMAIN tasks = Tasks /\ Shaped(tasks[t], TaskFields) /\ tasks[t].ret \in Rets
  BY DEF ControlKept, Controlled
<1>1. UNCHANGED <<accounts, displaced, nextId>>
  BY DEF StoreDraftMeta, DropSession, ActivateNew, Readd, OnlyTasks, store
<1>2. tasks'[t].pc \in Rets \cup {"read"}
  <2>1. CASE ActivateNew(t)
    BY <1>0, <2>1 DEF ActivateNew
  <2>2. ASSUME NEW label, Goto(t, label) PROVE tasks'[t].pc = label
    BY <2>2, GotoIs
  <2>3. CASE StoreDraftMeta(t) \/ DropSession(t) \/ Readd(t)
    BY <1>0, <2>2, <2>3 DEF StoreDraftMeta, DropSession, Readd, Rets
  <2> QED BY <2>1, <2>3
<1> QED BY <1>1, <1>2, TruthQuiet DEF Rets, TruthLabels, Creates, Copies, Imports

\* A step of a sync that leaves what is stored, and copies it as it is.
LEMMA CopyTruth ==
  ASSUME ControlKept, ControlKept', RowsKept, TruthKept, scene.busy = 1, NEW t \in Tasks, Moved(t),
         UNCHANGED <<accounts, displaced, nextId, removed, dev>>,
         tasks'[t].pc \notin {"before", "api", "repairNext", "patch"},
         MadeAt(tasks'[t]), CopyAt(tasks'[t])
  PROVE  TruthKept'
<1>. DEFINE r == tasks'[t]
<1>1. StoredTruth /\ tasks' = [tasks EXCEPT ![t] = r] /\ UNCHANGED scene /\ tasks[t].pc # "idle"
  BY TruthOf DEF Moved
<1>2. UNCHANGED <<Scope, LiveNet, Bucket>> /\ StoredTruth'
  BY <1>1 DEF Scope, LiveNet, Bucket, StoredTruth
<1>3. MadeAt(tasks[t])'
  BY <1>2 DEF MadeAt
<1>4. CopyAt(tasks[t])'
  BY <1>2 DEF CopyAt
<1>5. TruthAt(tasks[t])'
  BY <1>3, <1>4 DEF TruthAt, SignerAt, FixAt
<1> QED BY <1>1, <1>2, <1>5, TruthJoins

\* A wallet that is found in a list has a row there.
LEMMA FoundHere ==
  ASSUME NEW list, IsList(list), NEW w, MultisigRow(list, w) # None
  PROVE  \E a \in RangeOf(list) : a.mode = "multisig" /\ a.addr = w
<1>. DEFINE those == {a \in RangeOf(list) : a.mode = "multisig" /\ a.addr = w}
<1>1. MultisigRow(list, w) = FirstOf(list, those) /\ DOMAIN list \subseteq Nat
  BY ListDomain DEF MultisigRow
<1>2. FirstOf(list, those) \in those
  <2>. HIDE DEF those
  <2> QED BY <1>1, FirstIsThere
<1> QED BY <1>2

LEMMA WalletRowIs == \A w : WalletRow(w).mode = "multisig" /\ WalletRow(w).addr = w /\ WalletRow(w).id = None
BY DEF WalletRow, NewRow

\* A sync copies the accounts, and follows the row that was stored.
LEMMA CopiesTruth ==
  ASSUME ControlKept, ControlKept', RowsKept, TruthKept, scene.busy = 1, NEW t \in Tasks, Moved(t),
         SyncRead(t) \/ SyncRemoved(t) \/ EnsuredRow(t)
  PROVE  TruthKept'
<1>. DEFINE T == tasks[t]
<1>0. /\ TruthAt(T) /\ DOMAIN tasks = Tasks /\ Shaped(T, TaskFields) /\ RowList(Bucket)
      /\ UNCHANGED <<accounts, displaced, nextId, removed, dev>>
      /\ MayBeAt(T.op, T.pc) /\ T.ret \in Rets /\ T.next \in Nexts
  <2>1. Controlled(T) /\ T.pc # "idle"
    BY DEF ControlKept, Moved
  <2> QED BY <2>1, TruthOf DEF SyncRead, SyncRemoved, EnsuredRow, OnlyTasks, store, Controlled
<1>1. CASE SyncRead(t)
  <2>. DEFINE list == Bucket
              r == [T EXCEPT !.mine = list, !.pc = "syncInvites"]
  <2>1. tasks'[t] = r
    BY <1>0, <1>1 DEF SyncRead
  <2>2. IsList(list) /\ \A a \in RangeOf(list) : a.addr \in Addrs(Bucket)
    BY <1>0 DEF RowList, Addrs
  <2>. HIDE DEF list
  <2>3. r.pc = "syncInvites" /\ r.mine = list
    BY <1>0 DEF Shaped, TaskFields
  <2>. HIDE DEF r
  <2>4. MadeAt(r) /\ CopyAt(r)
    BY <2>2, <2>3 DEF MadeAt, CopyAt, Creates, Copies, Imports
  <2> QED BY <1>0, <2>1, <2>3, <2>4, CopyTruth
<1>2. CASE SyncRemoved(t)
  <2>. DEFINE label == IF T.mine = <<>> THEN "dropSession" ELSE IF LocalSigners(T.mine) = {} THEN T.ret ELSE "list"
              draft == meta[Scope]
              gone == removed[Scope][LiveNet]
              r == [T EXCEPT !.draft = draft, !.gone = gone, !.pc = label]
  <2>1. tasks'[t] = r /\ T.pc = "syncRemoved"
    BY <1>0, <1>2 DEF SyncRemoved, At
  <2>2. label \in Rets \cup {"dropSession", "list"}
    BY <1>0
  <2>3. gone = removed[Scope][LiveNet]
    OBVIOUS
  <2>. HIDE DEF label, draft, gone
  <2>4. r.pc = label /\ r.mine = T.mine /\ r.gone = gone /\ r.op = T.op
    BY <1>0 DEF Shaped, TaskFields
  <2>. HIDE DEF r
  <2>5. T.op \in SyncOps => IsList(T.mine) /\ \A a \in RangeOf(T.mine) : a.mode = "multisig" => a.addr \in Addrs(Bucket)
    BY <1>0, <2>1 DEF TruthAt, CopyAt, Copies
  <2>6. MadeAt(r) /\ CopyAt(r)
    BY <2>2, <2>3, <2>4, <2>5 DEF MadeAt, CopyAt, Creates, Copies, Imports, Rets
  <2> QED BY <1>0, <2>1, <2>2, <2>4, <2>6, CopyTruth DEF Rets
<1>3. CASE EnsuredRow(t)
  <2>. DEFINE new == MultisigRow(T.mine, T.row.addr) = None
              other == [i \in DOMAIN T.mine |-> IF T.mine[i].id = T.row.id THEN T.row ELSE T.mine[i]]
              mine == IF new THEN Append(T.mine, T.row) ELSE other
              made == IF new THEN Append(T.made, T.row.id) ELSE T.made
              r == [T EXCEPT !.mine = mine, !.made = made, !.pc = T.next]
  <2>1. tasks'[t] = r /\ T.pc = "ensured"
    BY <1>0, <1>3 DEF EnsuredRow, At
  <2>2. /\ T.op \in SyncOps /\ IsList(T.mine) /\ T.gone = removed[Scope][LiveNet] /\ T.row.addr \in Addrs(Bucket)
        /\ \A a \in RangeOf(T.mine) : a.mode = "multisig" => a.addr \in Addrs(Bucket)
    BY <1>0, <2>1 DEF TruthAt, CopyAt, Copies, Imports, MayBeAt, SyncLabels
  <2>. HIDE DEF new
  <2>3. IsList(other) /\ RangeOf(other) \subseteq RangeOf(T.mine) \cup {T.row}
    <3>1. Len(T.mine) \in Nat /\ DOMAIN T.mine = 1..Len(T.mine)
      BY <2>2, ListDomain
    <3>2. other \in [1..Len(T.mine) -> RangeOf(other)]
      BY <3>1 DEF RangeOf
    <3>3. RangeOf(other) \subseteq RangeOf(T.mine) \cup {T.row}
      BY DEF RangeOf
    <3>. HIDE DEF other
    <3> QED BY <3>1, <3>2, <3>3, SeqDef DEF IsList
  <2>4. IsList(mine) /\ RangeOf(mine) \subseteq RangeOf(T.mine) \cup {T.row}
    <3>1. IsList(Append(T.mine, T.row)) /\ RangeOf(Append(T.mine, T.row)) = RangeOf(T.mine) \cup {T.row}
      BY <2>2, AppendedRows
    <3>. HIDE DEF other
    <3> QED BY <2>3, <3>1
  <2>. HIDE DEF other, mine, made
  <2>5. \A a \in RangeOf(mine) : a.mode = "multisig" => a.addr \in Addrs(Bucket)
    BY <2>2, <2>4
  <2>6. r.pc = T.next /\ r.mine = mine /\ r.gone = T.gone /\ r.op = T.op
    BY <1>0 DEF Shaped, TaskFields
  <2>. HIDE DEF r
  <2>7. MadeAt(r) /\ CopyAt(r)
    BY <1>0, <2>2, <2>4, <2>5, <2>6 DEF MadeAt, CopyAt, Creates, Nexts
  <2> QED BY <1>0, <2>1, <2>6, <2>7, CopyTruth DEF Nexts
<1> QED BY <1>1, <1>2, <1>3

\* What a sync does about a wallet: one that was removed is not created.
LEMMA ImportsTruth ==
  ASSUME ControlKept, ControlKept', RowsKept, TruthKept, scene.busy = 1, NEW t \in Tasks, Moved(t),
         ImportNext(t) \/ RegisterWallet(t)
  PROVE  TruthKept'
<1>. DEFINE T == tasks[t]
<1>0. /\ TruthAt(T) /\ DOMAIN tasks = Tasks /\ Shaped(T, TaskFields) /\ T.pc \in {"wallets", "register"}
      /\ UNCHANGED <<accounts, displaced, nextId, removed, dev>>
      /\ T.op \in SyncOps /\ T.phase \in Phases
  <2>1. Controlled(T) /\ T.pc # "idle"
    BY DEF ControlKept, Moved
  <2>2. T.pc \in {"wallets", "register"} /\ UNCHANGED <<accounts, displaced, nextId, removed, dev>>
    BY DEF ImportNext, RegisterWallet, At, OnlyTasks, store
  <2> QED BY <2>1, <2>2, TruthOf DEF Controlled, MayBeAt, SyncLabels
<1>1. /\ IsList(T.mine) /\ T.gone = removed[Scope][LiveNet]
      /\ \A a \in RangeOf(T.mine) : a.mode = "multisig" => a.addr \in Addrs(Bucket)
  BY <1>0 DEF TruthAt, CopyAt, Copies, Imports
\* With its copies, and the row of a wallet that is stored or was not removed.
<1>2. ASSUME NEW r, tasks' = [tasks EXCEPT ![t] = r], r.mine = T.mine, r.gone = T.gone, r.op = T.op,
             \/ r.pc \in Imports \ {"ensured"}
             \/ r.pc = "create" /\ \E w : /\ r.row = WalletRow(w)
                                          /\ MultisigRow(T.mine, w) # None \/ w \notin T.gone
      PROVE  TruthKept'
  <2>1. tasks'[t] = r
    BY <1>0, <1>2
  <2>2. r.pc = "create" => r.row.mode = "multisig" /\ (r.row.addr \in Addrs(Bucket) \/ r.row.addr \notin removed[Scope][LiveNet])
    <3>1. ASSUME NEW w, r.row = WalletRow(w), MultisigRow(T.mine, w) # None \/ w \notin T.gone
          PROVE  r.row.mode = "multisig" /\ (r.row.addr \in Addrs(Bucket) \/ r.row.addr \notin removed[Scope][LiveNet])
      <4>1. MultisigRow(T.mine, w) # None => w \in Addrs(Bucket)
        BY <1>1, FoundHere
      <4> QED BY <1>1, <3>1, <4>1, WalletRowIs
    <3> QED BY <1>2, <3>1 DEF Imports
  <2>3. MadeAt(r)
    BY <1>0, <1>2, <2>2 DEF MadeAt, Creates, Imports, Apart, SyncOps, ApiOps
  <2>4. CopyAt(r)
    BY <1>1, <1>2 DEF CopyAt, Creates, Copies, Imports
  <2> QED BY <1>0, <1>2, <2>1, <2>3, <2>4, CopyTruth DEF Imports
<1>3. ASSUME NEW w, NEW then \in {"wallets", "clear", "confirm"}, NEW after \in Ensured(t, w, then)
      PROVE  /\ Shaped(after, TaskFields) /\ after.mine = T.mine /\ after.gone = T.gone /\ after.op = T.op
             /\ \/ after.pc \in Imports \ {"ensured"}
                \/ after.pc = "create" /\ \E v : /\ after.row = WalletRow(v)
                                                 /\ MultisigRow(T.mine, v) # None \/ v \notin T.gone
  <2>. DEFINE as == [T EXCEPT !.pc = then]
              row == WalletRow(w)
              created == [T EXCEPT !.row = row, !.then = "ensured", !.next = then, !.pc = "create"]
  <2>1. after = as \/ (after = created /\ row = WalletRow(w) /\ (MultisigRow(T.mine, w) # None \/ w \notin T.gone))
    BY DEF Ensured
  <2>. HIDE DEF row
  <2>2. Shaped(as, TaskFields) /\ as.mine = T.mine /\ as.gone = T.gone /\ as.op = T.op /\ as.pc = then
    BY <1>0 DEF Shaped, TaskFields
  <2>3. /\ Shaped(created, TaskFields) /\ created.mine = T.mine /\ created.gone = T.gone /\ created.op = T.op
        /\ created.pc = "create" /\ created.row = row
    BY <1>0 DEF Shaped, TaskFields
  <2>4. then \in Imports \ {"ensured"}
    BY DEF Imports
  <2>. HIDE DEF as, created
  <2> QED BY <2>1, <2>2, <2>3, <2>4
<1>4. CASE ImportNext(t)
  <2>. DEFINE r == [T EXCEPT !.todo = T.inv, !.phase = "invites", !.pc = "invites"]
  <2>0. T.pc = "wallets"
    BY <1>4 DEF ImportNext, At
  <2>1. CASE tasks' = [tasks EXCEPT ![t] = r]
    <3>1. r.pc = "invites" /\ r.mine = T.mine /\ r.gone = T.gone /\ r.op = T.op
      BY <1>0 DEF Shaped, TaskFields
    <3>. HIDE DEF r
    <3> QED BY <1>2, <2>1, <3>1 DEF Imports
  <2>2. ASSUME NEW w, tasks' = [tasks EXCEPT ![t].todo = @ \ {w}] PROVE TruthKept'
    <3>. DEFINE s == [T EXCEPT !.todo = @ \ {w}]
    <3>1. s.pc = "wallets" /\ s.mine = T.mine /\ s.gone = T.gone /\ s.op = T.op
      BY <1>0, <2>0 DEF Shaped, TaskFields
    <3>2. tasks' = [tasks EXCEPT ![t] = s]
      BY <2>2
    <3>. HIDE DEF s
    <3> QED BY <1>2, <3>1, <3>2 DEF Imports
  <2>3. ASSUME NEW w, NEW hit, NEW then \in {"wallets", "clear"}, NEW after \in Ensured(t, w, then),
               tasks' = [tasks EXCEPT ![t] = [after EXCEPT !.hit = hit, !.todo = @ \ {w}]]
        PROVE  TruthKept'
    <3>. DEFINE s == [after EXCEPT !.hit = hit, !.todo = @ \ {w}]
    <3>1. /\ Shaped(after, TaskFields) /\ after.mine = T.mine /\ after.gone = T.gone /\ after.op = T.op
          /\ \/ after.pc \in Imports \ {"ensured"}
             \/ after.pc = "create" /\ \E v : /\ after.row = WalletRow(v)
                                              /\ MultisigRow(T.mine, v) # None \/ v \notin T.gone
      BY <1>3
    <3>2. s.pc = after.pc /\ s.mine = after.mine /\ s.gone = after.gone /\ s.row = after.row /\ s.op = after.op
      BY <3>1 DEF Shaped, TaskFields
    <3>3. tasks' = [tasks EXCEPT ![t] = s]
      BY <2>3
    <3>. HIDE DEF s
    <3> QED BY <1>2, <3>1, <3>2, <3>3
  <2>4. CASE \E w, hit : \E then \in {"wallets", "clear"} : \E after \in Ensured(t, w, then) :
               tasks' = [tasks EXCEPT ![t] = [after EXCEPT !.hit = hit, !.todo = @ \ {w}]]
    BY <2>3, <2>4
  <2>5. CASE \E w : tasks' = [tasks EXCEPT ![t].todo = @ \ {w}]
    BY <2>2, <2>5
  <2>. HIDE DEF r
  <2>6. \/ tasks' = [tasks EXCEPT ![t] = r]
        \/ \E w : tasks' = [tasks EXCEPT ![t].todo = @ \ {w}]
        \/ \E w, hit : \E then \in {"wallets", "clear"} : \E after \in Ensured(t, w, then) :
               tasks' = [tasks EXCEPT ![t] = [after EXCEPT !.hit = hit, !.todo = @ \ {w}]]
    BY <1>4 DEF ImportNext, r
  <2> QED BY <2>1, <2>4, <2>5, <2>6
<1>5. CASE RegisterWallet(t)
  <2>. DEFINE w == WalletOf[T.hit.token]
              s == [T EXCEPT !.pc = T.phase]
  <2>1. tasks' = [tasks EXCEPT ![t] = s] \/ \E after \in Ensured(t, w, "confirm") : tasks' = [tasks EXCEPT ![t] = after]
    BY <1>5 DEF RegisterWallet, GiveUp, Goto
  <2>. HIDE DEF w
  <2>2. ASSUME NEW after \in Ensured(t, w, "confirm"), tasks' = [tasks EXCEPT ![t] = after]
        PROVE  TruthKept'
    BY <1>2, <1>3, <2>2
  <2>3. CASE tasks' = [tasks EXCEPT ![t] = s]
    <3>1. s.pc = T.phase /\ s.mine = T.mine /\ s.gone = T.gone /\ s.op = T.op
      BY <1>0 DEF Shaped, TaskFields
    <3>2. s.pc \in Imports \ {"ensured"}
      BY <1>0, <3>1 DEF Phases, Imports
    <3>. HIDE DEF s
    <3> QED BY <1>2, <2>3, <3>1, <3>2
  <2> QED BY <2>1, <2>2, <2>3
<1> QED BY <1>4, <1>5

\* A proposal's registration updates a wallet that is stored; the user's own addition and
\* opening ask for nothing.
LEMMA AsksTruth ==
  ASSUME ControlKept, ControlKept', RowsKept, TruthKept, scene.busy = 1, NEW t \in Tasks, Moved(t),
         ListOne(t) \/ LastResort(t) \/ Verify(t) \/ LocalRow(t)
  PROVE  TruthKept'
<1>. DEFINE T == tasks[t]
<1>0. /\ DOMAIN tasks = Tasks /\ Shaped(T, TaskFields) /\ RowList(Bucket)
      /\ UNCHANGED <<accounts, displaced, nextId, removed, dev>>
      /\ MayBeAt(T.op, T.pc)
  <2>1. Controlled(T) /\ T.pc # "idle"
    BY DEF ControlKept, Moved
  <2>2. UNCHANGED <<accounts, displaced, nextId, removed, dev>>
    BY DEF ListOne, LastResort, Verify, LocalRow, OnlyTasks, store
  <2> QED BY <2>1, <2>2, TruthOf DEF Controlled
<1>1. ASSUME tasks'[t].pc \in {"done", "sync", "lastResort", "listOne", "idle"} PROVE TruthKept'
  BY <1>0, <1>1, TruthQuiet DEF TruthLabels, Creates, Copies, Imports
\* With the row of a wallet.
<1>2. ASSUME NEW r, tasks' = [tasks EXCEPT ![t] = r], NEW w, r.row = WalletRow(w), r.pc = "create",
             r.op = T.op, r.op \in SyncOps => w \in Addrs(Bucket) /\ r.then # "ensured", r.op \notin ApiOps
      PROVE  TruthKept'
  <2>1. tasks'[t] = r
    BY <1>0, <1>2
  <2>2. MadeAt(r) /\ CopyAt(r)
    BY <1>2, WalletRowIs DEF MadeAt, CopyAt, Creates, Copies, Imports, Apart
  <2> QED BY <1>0, <1>2, <2>1, <2>2, CopyTruth
<1>3. ASSUME NEW then \in {"done", "listOne"}, MultisigRow(Bucket, T.arg) # None, T.op = "ENSURE",
             tasks' = [tasks EXCEPT ![t] = Updated(t, T.arg, then)]
      PROVE  TruthKept'
  <2>. DEFINE w == T.arg
              row == WalletRow(w)
              r == [T EXCEPT !.row = row, !.then = then, !.ret = "end", !.pc = "create"]
  <2>1. tasks' = [tasks EXCEPT ![t] = r]
    BY <1>3 DEF Updated
  <2>2. w \in Addrs(Bucket)
    <3>. DEFINE list == Bucket
    <3>1. IsList(list) /\ MultisigRow(list, w) # None
      BY <1>0, <1>3 DEF RowList
    <3>. HIDE DEF list, w
    <3>2. \E a \in RangeOf(list) : a.mode = "multisig" /\ a.addr = w
      BY <3>1, FoundHere
    <3> QED BY <3>2 DEF list, Addrs
  <2>3. row = WalletRow(w)
    OBVIOUS
  <2>. HIDE DEF row, w
  <2>4. r.pc = "create" /\ r.row = row /\ r.op = T.op /\ r.then = then
    BY <1>0 DEF Shaped, TaskFields
  <2>. HIDE DEF r
  <2> QED BY <1>2, <1>3, <2>1, <2>2, <2>3, <2>4 DEF ApiOps
<1>4. CASE ListOne(t)
  <2>. DEFINE label == IF T.ret = "listOne" THEN "lastResort" ELSE "sync"
              s == [T EXCEPT !.pc = label, !.ret = "listOne"]
  <2>1. /\ \/ Goto(t, "done")
           \/ MultisigRow(Bucket, T.arg) # None /\ tasks' = [tasks EXCEPT ![t] = Updated(t, T.arg, "done")]
           \/ tasks' = [tasks EXCEPT ![t] = s]
        /\ T.pc = "listOne"
    BY <1>4 DEF ListOne, At
  <2>2. label \in {"lastResort", "sync"}
    OBVIOUS
  <2>. HIDE DEF label
  <2>3. s.pc = label
    BY <1>0 DEF Shaped, TaskFields
  <2>. HIDE DEF s
  <2>4. CASE tasks' = [tasks EXCEPT ![t] = s]
    <3>1. tasks'[t] = s
      BY <1>0, <2>4
    <3> QED BY <1>1, <2>2, <2>3, <3>1
  <2>5. CASE Goto(t, "done")
    <3>1. tasks'[t].pc = "done"
      BY <2>5, GotoIs
    <3> QED BY <1>1, <3>1
  <2>6. T.op = "ENSURE"
    BY <1>0, <2>1 DEF MayBeAt
  <2> QED BY <1>3, <2>1, <2>4, <2>5, <2>6
<1>5. CASE LastResort(t)
  <2>. DEFINE s == [T EXCEPT !.pc = "listOne", !.ret = "end"]
  <2>1. /\ \/ Goto(t, "done")
           \/ MultisigRow(Bucket, T.arg) # None /\ tasks' = [tasks EXCEPT ![t] = Updated(t, T.arg, "listOne")]
           \/ tasks' = [tasks EXCEPT ![t] = s]
        /\ T.pc = "lastResort"
    BY <1>5 DEF LastResort, At
  <2>2. s.pc = "listOne"
    BY <1>0 DEF Shaped, TaskFields
  <2>. HIDE DEF s
  <2>3. CASE tasks' = [tasks EXCEPT ![t] = s]
    <3>1. tasks'[t] = s
      BY <1>0, <2>3
    <3> QED BY <1>1, <2>2, <3>1
  <2>4. CASE Goto(t, "done")
    <3>1. tasks'[t].pc = "done"
      BY <2>4, GotoIs
    <3> QED BY <1>1, <3>1
  <2>5. T.op = "ENSURE"
    BY <1>0, <2>1 DEF MayBeAt
  <2> QED BY <1>3, <2>1, <2>3, <2>4, <2>5
<1>6. CASE Verify(t) \/ LocalRow(t)
  <2>. DEFINE w == T.arg
              row == WalletRow(w)
              r == [T EXCEPT !.row = row, !.then = "readd", !.pc = "create"]
              s == [T EXCEPT !.row = row, !.pc = "create"]
  <2>1. /\ Finish(t) \/ tasks' = [tasks EXCEPT ![t] = r] \/ tasks' = [tasks EXCEPT ![t] = s]
        /\ T.pc \in {"verify", "local"}
    BY <1>6 DEF Verify, LocalRow, At
  <2>2. T.op \notin SyncOps /\ T.op \notin ApiOps
    BY <1>0, <2>1 DEF MayBeAt, SyncOps, ApiOps
  <2>3. row = WalletRow(w)
    OBVIOUS
  <2>. HIDE DEF row, w
  <2>4. /\ r.pc = "create" /\ r.row = row /\ r.op = T.op
        /\ s.pc = "create" /\ s.row = row /\ s.op = T.op
    BY <1>0 DEF Shaped, TaskFields
  <2>. HIDE DEF r, s
  <2>5. CASE Finish(t)
    <3>1. tasks'[t].pc = "idle"
      BY <2>5, FinishIs, NoTaskControlled
    <3> QED BY <1>1, <3>1
  <2> QED BY <1>2, <2>1, <2>2, <2>3, <2>4, <2>5
<1> QED BY <1>4, <1>5, <1>6

LEMMA TruthKeep == ControlKept /\ RowsKept /\ TruthKept /\ [SyncNext]_syncVars => TruthKept'
<1>. SUFFICES ASSUME ControlKept, RowsKept, TruthKept, [SyncNext]_syncVars PROVE TruthKept'
  OBVIOUS
<1>0. ControlKept'
  BY ControlKeeps
<1>1. CASE \E t \in Tasks : Handler(t) \/ SyncHandler(t)
  BY <1>0, <1>1, TruthHandled
<1>2. ASSUME NEW t \in Tasks, StoreStep(t) \/ SyncStep(t), scene.busy = 1 PROVE TruthKept'
  <2>1. Moved(t)
    BY <1>2, StoreMoves, SyncMoves
  <2>2. CASE StoreStep(t)
    BY <1>0, <1>2, <2>1, <2>2, CreatesTruth, QuietTruth, WritesTruth, RepairsTruth DEF StoreStep
  <2>3. CASE SyncStep(t)
    BY <1>0, <1>2, <2>1, <2>3, SyncStays, SyncEnds, CopiesTruth, ImportsTruth, AsksTruth DEF SyncStep
  <2> QED BY <1>2, <2>2, <2>3
<1>3. ASSUME NEW t \in Tasks, StoreStep(t) \/ SyncStep(t), scene.busy # 1 PROVE TruthKept'
  <2>1. UNCHANGED scene
    BY <1>3, StoreMoves, SyncMoves DEF Moved
  <2> QED BY <1>3, <2>1 DEF TruthKept
<1>4. CASE SwRestart
  <2>1. \A t \in Tasks : tasks'[t].pc = "idle"
    BY <1>4, NoTaskControlled DEF SwRestart
  <2>2. UNCHANGED <<scene, accounts, displaced, nextId>>
    BY <1>4 DEF SwRestart, store
  <2> QED BY <2>1, <2>2 DEF TruthKept, StoredTruth
<1>5. CASE UNCHANGED syncVars
  BY <1>5 DEF syncVars, walletVars, store, TruthKept, StoredTruth, TruthAt, SignerAt, MadeAt, CopyAt, FixAt,
              ToFix, Scope, LiveNet, Bucket
<1> QED BY <1>1, <1>2, <1>3, <1>4, <1>5 DEF SyncNext

\* What one step, of a handler that runs alone, does to the addresses of a list.
LEMMA AddressesStay ==
  ASSUME ControlKept, RowsKept, TruthKept, [SyncNext]_syncVars, scene.busy = 1, NEW e \in Envs, NEW n \in Nets
  PROVE  /\ \A a \in RangeOf(accounts[e][n]), b \in RangeOf(accounts'[e][n]) :
              a.id = b.id /\ a.mode = "passkey" /\ a.addr # b.addr => b.addr = displaced[a.addr]
         /\ \A w \in Wallets \cap removed[e][n] \cap Addrs(accounts'[e][n]) :
              \/ w \in Addrs(accounts[e][n])
              \/ \E t \in Tasks : tasks[t].op \in {"ADD_EXISTING", "CREATE_LOCAL"}
<1>. DEFINE Stay == /\ \A a \in RangeOf(accounts[e][n]), b \in RangeOf(accounts'[e][n]) :
                          a.id = b.id /\ a.mode = "passkey" /\ a.addr # b.addr => b.addr = displaced[a.addr]
                    /\ \A w \in Wallets \cap removed[e][n] \cap Addrs(accounts'[e][n]) :
                          \/ w \in Addrs(accounts[e][n])
                          \/ \E t \in Tasks : tasks[t].op \in {"ADD_EXISTING", "CREATE_LOCAL"}
<1>0. StoredTruth
  BY DEF TruthKept
<1>1. ASSUME UNCHANGED accounts PROVE Stay
  BY <1>0, <1>1 DEF StoredTruth, OneRow
<1>2. ASSUME NEW t \in Tasks, NEW m \in Nets, NEW list, Writing(t, m, list) PROVE Stay
  <2>1. PICK s \in Envs : s = Scope
    BY WhereWeAre
  <2>2. accounts' = [accounts EXCEPT ![s][m] = list]
    BY <1>2, <2>1 DEF Writing
  <2>3. accounts'[e][n] = IF e = s /\ n = m THEN list ELSE accounts[e][n]
    BY <2>2 DEF RowsKept, Tabled
  <2>4. CASE e = s /\ n = m
    BY <1>2, <2>1, <2>3, <2>4 DEF Writing
  <2>5. CASE ~(e = s /\ n = m)
    BY <1>0, <2>3, <2>5 DEF StoredTruth, OneRow
  <2> QED BY <2>4, <2>5
<1>3. ASSUME NEW t \in Tasks, ClearSession(t) PROVE Stay
  <2>1. PICK s \in Envs : s = Scope
    BY WhereWeAre
  <2>2. accounts' = [accounts EXCEPT ![s] = [k \in Nets |-> <<>>]]
    BY <1>3, <2>1 DEF ClearSession
  <2>3. accounts'[e][n] = IF e = s THEN <<>> ELSE accounts[e][n]
    BY <2>2 DEF RowsKept, Tabled
  <2>4. CASE e = s
    BY <2>3, <2>4, NoRows DEF Addrs
  <2>5. CASE e # s
    BY <1>0, <2>3, <2>5 DEF StoredTruth, OneRow
  <2> QED BY <2>4, <2>5
<1>. HIDE DEF Stay
<1>4. ASSUME NEW t \in Tasks, StoreStep(t) \/ SyncStep(t) PROVE Stay
  <2>1. Moved(t) /\ tasks[t].net \in Nets /\ LiveNet \in Nets
    <3>1. Moved(t)
      BY <1>4, StoreMoves, SyncMoves
    <3> QED BY <3>1, TruthOf
  <2>2. CASE tasks[t].pc \notin {"write", "activate", "rename", "patch", "delete", "wipe"}
    BY <1>1, <1>4, <2>2, KeysRest
  <2>3. CASE At(t, "write")
    <3>1. \E list, row : Writing(t, LiveNet, list)
      BY <1>4, <2>1, <2>3, StepAt, WritingMade
    <3> QED BY <1>2, <2>1, <3>1
  <2>4. CASE At(t, "patch")
    <3>1. \E list : Writing(t, tasks[t].net, list)
      BY <1>4, <2>1, <2>4, StepAt, WritingFixed
    <3> QED BY <1>2, <2>1, <3>1
  <2>5. CASE At(t, "activate") \/ At(t, "rename") \/ At(t, "delete")
    <3>1. \E list : Writing(t, LiveNet, list)
      BY <1>4, <2>1, <2>5, StepAt, WritingRest
    <3> QED BY <1>2, <2>1, <3>1
  <2>6. CASE At(t, "wipe")
    BY <1>3, <1>4, <2>6, StepAt
  <2> QED BY <2>2, <2>3, <2>4, <2>5, <2>6 DEF At
<1>5. ASSUME NEW t \in Tasks, Handler(t) \/ SyncHandler(t) PROVE Stay
  <2>1. \E op, arg : \E label \in FirstLabels : Start(t, op, label, arg)
    BY <1>5, StartsSo
  <2> QED BY <1>1, <2>1 DEF Start, store
<1>6. ASSUME SwRestart \/ UNCHANGED syncVars PROVE Stay
  BY <1>1, <1>6 DEF SwRestart, syncVars, walletVars, store
<1>7. Stay
  BY <1>4, <1>5, <1>6 DEF SyncNext
<1> QED BY <1>7 DEF Stay

LEMMA TruthHolds ==
  /\ UseInit => ControlKept /\ RowsKept /\ TruthKept
  /\ ControlKept /\ RowsKept /\ TruthKept /\ [UseNext]_useVars => (ControlKept /\ RowsKept /\ TruthKept)'
BY ControlStarts, RowsStart, TruthStarts, ControlKeeps, RowsKeep, TruthKeep, StoreOnly DEF UseInit

\* While one handler runs at a time, a wallet that the user removed is stored again only by
\* the user's own addition or opening of it, however often the API lists it.
THEOREM RemovedStayAway == UseSpec => RemovedStaysRemoved
<1>1. ControlKept /\ RowsKept /\ TruthKept /\ [SyncNext]_syncVars =>
        (scene.busy = 1 => \A e \in Envs, n \in Nets :
           \A w \in Wallets \cap removed[e][n] \cap Addrs(accounts'[e][n]) :
              \/ w \in Addrs(accounts[e][n])
              \/ \E t \in Tasks : tasks[t].op \in {"ADD_EXISTING", "CREATE_LOCAL"})
  BY AddressesStay
<1> QED BY <1>1, TruthHolds, StoreOnly, PTL DEF UseSpec, RemovedStaysRemoved

\* While one handler runs at a time, the address of a passkey account changes only to the
\* funded one, which a repair puts back.
THEOREM FundedStays == UseSpec => FundedAddressKept
<1>1. ControlKept /\ RowsKept /\ TruthKept /\ [SyncNext]_syncVars =>
        (scene.busy = 1 => \A e \in Envs, n \in Nets :
           \A r \in RangeOf(accounts[e][n]), s \in RangeOf(accounts'[e][n]) :
              r.id = s.id /\ r.mode = "passkey" /\ r.addr # s.addr => s.addr = displaced[r.addr])
  BY AddressesStay
<1> QED BY <1>1, TruthHolds, StoreOnly, PTL DEF UseSpec, FundedAddressKept
=============================================================================
