---------------------------- MODULE WalletProofs ----------------------------
(***************************************************************************)
(* What the store of wallets promises: numbers of passkeys and, while one  *)
(* handler runs at a time, logout and secrets without their account.       *)
(***************************************************************************)
EXTENDS WalletRows

-----------------------------------------------------------------------------
(* The way of some operations through their labels. *)

FirstLabels == {"before", "api", "unlock", "read", "logout", "setup", "health", "peek", "add",
                "clear", "draftMeta", "sync", "listOne", "verify", "local"}

\* A handler starts at one of them, about an account that is stored if it reads one.
LEMMA StartsSo ==
  ASSUME NEW t \in Tasks, Handler(t) \/ SyncHandler(t)
  PROVE  \E op, arg : \E label \in FirstLabels :
            /\ Start(t, op, label, arg)
            /\ label = "read" => arg \in IdsOf(Bucket)
            /\ label = "peek" => arg = None
<1>. DEFINE So == \E o, a : \E l \in FirstLabels :
                     /\ Start(t, o, l, a)
                     /\ l = "read" => a \in IdsOf(Bucket)
                     /\ l = "peek" => a = None
<1>. SUFFICES So
  OBVIOUS
<1>1. ASSUME NEW op, NEW arg, NEW label \in FirstLabels \ {"read", "peek"}, Start(t, op, label, arg)
      PROVE  So
  BY <1>1
<1>2. ASSUME NEW op, NEW arg \in IdsOf(Bucket), Start(t, op, "read", arg) PROVE So
  BY <1>2 DEF FirstLabels
<1>3. CASE CreateOrConnect(t) \/ Register(t) \/ LogIn(t) \/ ImportSeed(t) \/ Unlock(t)
  <2>1. \E op, arg : \E label \in {"before", "api", "unlock"} : Start(t, op, label, arg)
    BY <1>3 DEF CreateOrConnect, Register, LogIn, ImportSeed, Unlock, OnRow
  <2> QED BY <1>1, <2>1 DEF FirstLabels
<1>4. CASE SetActive(t) \/ Rename(t) \/ Delete(t)
  <2>1. \E op : \E arg \in IdsOf(Bucket) : Start(t, op, "read", arg)
    BY <1>4 DEF SetActive, Rename, Delete, OnRow
  <2> QED BY <1>2, <2>1
<1>5. CASE Logout(t) \/ GetAccounts(t)
  <2>1. \E op, arg : \E label \in {"logout", "setup"} : Start(t, op, label, arg)
    BY <1>5 DEF Logout, GetAccounts
  <2> QED BY <1>1, <2>1 DEF FirstLabels
<1>8. CASE NextSeq(t)
  <2>1. Start(t, "PASSKEY_CONFIRM_SEQ", "peek", None)
    BY <1>8 DEF NextSeq
  <2> QED BY <2>1 DEF FirstLabels
<1>6. CASE SetDeveloperMode(t)
  <2>. DEFINE mode == ~dev
  <2>1. Start(t, "SET_DEVELOPER_MODE", "health", mode)
    BY <1>6 DEF SetDeveloperMode
  <2>. HIDE DEF mode
  <2> QED BY <1>1, <2>1 DEF FirstLabels
<1>7. CASE SyncHandler(t)
  <2>1. \E op, arg : \E label \in {"add", "clear", "draftMeta", "sync", "listOne", "verify", "local"} :
           Start(t, op, label, arg)
    <3>1. CASE AddInvite(t)
      BY <3>1 DEF AddInvite
    <3>2. CASE DropInvite(t) \/ SetDraftMeta(t)
      BY <3>2 DEF DropInvite, SetDraftMeta
    <3>3. CASE EnsureRegistered(t) \/ AddExisting(t) \/ CreateLocal(t)
      BY <3>3 DEF EnsureRegistered, AddExisting, CreateLocal
    <3>4. CASE SyncLocal(t)
      <4>1. PICK activate : Start(t, "SYNC", "sync", activate)
        BY <3>4 DEF SyncLocal
      <4> QED BY <4>1
    <3> QED BY <1>7, <3>1, <3>2, <3>3, <3>4 DEF SyncHandler
  <2> QED BY <1>1, <2>1 DEF FirstLabels
<1> QED BY <1>3, <1>4, <1>5, <1>6, <1>7, <1>8 DEF Handler

\* A label and the step at it.
LEMMA StepAt ==
  ASSUME NEW t \in Tasks, StoreStep(t) \/ SyncStep(t)
  PROVE  /\ At(t, "api")    => ApiAnswered(t) \/ ApiFailed(t)
         /\ At(t, "create") => CreateRead(t)
         /\ At(t, "upsert") => UpsertRead(t)
         /\ At(t, "write")  => UpsertWrite(t)
         /\ At(t, "seed")   => SaveSeed(t)
         /\ At(t, "read")   => ReadRows(t)
         /\ At(t, "activate") => WriteActive(t)
         /\ At(t, "rename") => WriteLabel(t)
         /\ At(t, "patch")  => PatchWrite(t)
         /\ At(t, "match")  => RegisterKey(t)
         /\ At(t, "health") => ApplyDeveloperMode(t)
         /\ At(t, "delete") => DeleteRow(t)
         /\ At(t, "unvault") => DeleteSeed(t)
         /\ At(t, "denylist") => DenyAddress(t)
         /\ At(t, "cleared") => DeleteDone(t)
         /\ At(t, "setup")  => MatchSetup(t)
         /\ At(t, "logout") => LogoutSession(t)
         /\ At(t, "unvaultAll") => ClearVault(t)
         /\ At(t, "wipe")   => ClearSession(t)
         /\ tasks[t].pc \in NameLabels => NamingStep(t)
         /\ At(t, "done")   => Done(t)
<1>1. CASE ReadBefore(t) \/ ApiAnswered(t) \/ ApiFailed(t) \/ CreateRead(t) \/ UpsertRead(t) \/ UpsertWrite(t)
  BY <1>1 DEF At, ReadBefore, ApiAnswered, ApiFailed, CreateRead, UpsertRead, UpsertWrite, NameLabels
<1>2. CASE Unremove(t) \/ SaveSeed(t) \/ LoadSeed(t) \/ RegisterKey(t) \/ ReadRows(t)
  BY <1>2 DEF At, Unremove, SaveSeed, LoadSeed, RegisterKey, ReadRows, NameLabels
<1>3. CASE WriteActive(t) \/ WriteLabel(t) \/ DeleteRow(t) \/ DeleteSeed(t) \/ DenyAddress(t)
  BY <1>3 DEF At, WriteActive, WriteLabel, DeleteRow, DeleteSeed, DenyAddress, NameLabels
<1>4. CASE DeleteDone(t) \/ MatchSetup(t) \/ LogoutSession(t) \/ ClearVault(t) \/ ClearSession(t)
  BY <1>4 DEF At, DeleteDone, MatchSetup, LogoutSession, ClearVault, ClearSession, NameLabels
<1>5. CASE RepairRead(t) \/ PatchRead(t) \/ PatchWrite(t) \/ Done(t) \/ ApplyDeveloperMode(t)
  BY <1>5 DEF At, RepairRead, PatchRead, PatchWrite, Done, ApplyDeveloperMode, NameLabels
<1>6. CASE NamingStep(t)
  <2>1. tasks[t].pc \in NameLabels
    BY <1>6 DEF At, NamingStep, PeekSeq, PeekFails, SeedSeq, Ceremony, FinishNamed, ConfirmRead, ConfirmWrite,
                NameLabels
  <2> QED BY <1>6, <2>1 DEF At, NameLabels
<1>7. CASE SyncRead(t) \/ SyncInvites(t) \/ SyncRemoved(t) \/ DropSession(t) \/ ListWallets(t)
  BY <1>7 DEF At, SyncRead, SyncInvites, SyncRemoved, DropSession, ListWallets, NameLabels
<1>8. CASE ImportNext(t) \/ EnsuredRow(t) \/ InvitesRead(t) \/ ClearInvite(t) \/ NoteInvite(t) \/ PatchInvite(t)
  BY <1>8 DEF At, ImportNext, EnsuredRow, InvitesRead, ClearInvite, NoteInvite, PatchInvite, NameLabels
<1>9. CASE InviteNext(t) \/ Preview(t) \/ Predict(t) \/ OwnDraft(t) \/ Deployed(t)
  BY <1>9 DEF At, InviteNext, Preview, Predict, OwnDraft, Deployed, NameLabels
<1>10. CASE RegisterWallet(t) \/ RegisterKnown(t) \/ StoreDraftMeta(t) \/ ConfirmListed(t)
  BY <1>10 DEF At, RegisterWallet, RegisterKnown, StoreDraftMeta, ConfirmListed, NameLabels
<1>11. CASE ActivateNew(t) \/ ListOne(t) \/ LastResort(t) \/ Verify(t) \/ Readd(t) \/ LocalRow(t)
  BY <1>11 DEF At, ActivateNew, ListOne, LastResort, Verify, Readd, LocalRow, NameLabels
<1> QED BY <1>1, <1>2, <1>3, <1>4, <1>5, <1>6, <1>7, <1>8, <1>9, <1>10, <1>11 DEF StoreStep, SyncStep

\* A step of a sync changes neither the rows nor what is kept of them.
LEMMA SyncRest ==
  ASSUME NEW t \in Tasks, SyncStep(t)
  PROVE  UNCHANGED <<scene, dev, accounts, active, vault, keys, seq, named>>
<1>1. CASE SyncRead(t) \/ SyncInvites(t) \/ SyncRemoved(t) \/ DropSession(t) \/ ListWallets(t)
  BY <1>1 DEF SyncRead, SyncInvites, SyncRemoved, DropSession, ListWallets, OnlyTasks, store
<1>2. CASE ImportNext(t) \/ EnsuredRow(t) \/ InvitesRead(t) \/ ClearInvite(t) \/ NoteInvite(t) \/ PatchInvite(t)
  BY <1>2 DEF ImportNext, EnsuredRow, InvitesRead, ClearInvite, NoteInvite, PatchInvite, OnlyTasks, store
<1>3. CASE InviteNext(t) \/ Preview(t) \/ Predict(t) \/ OwnDraft(t) \/ Deployed(t)
  BY <1>3 DEF InviteNext, Preview, Predict, OwnDraft, Deployed, OnlyTasks, store
<1>4. CASE RegisterWallet(t) \/ RegisterKnown(t) \/ StoreDraftMeta(t) \/ ConfirmListed(t)
  BY <1>4 DEF RegisterWallet, RegisterKnown, StoreDraftMeta, ConfirmListed, OnlyTasks, store
<1>5. CASE ActivateNew(t) \/ ListOne(t) \/ LastResort(t) \/ Verify(t) \/ Readd(t) \/ LocalRow(t)
  BY <1>5 DEF ActivateNew, ListOne, LastResort, Verify, Readd, LocalRow, OnlyTasks, store
<1> QED BY <1>1, <1>2, <1>3, <1>4, <1>5 DEF SyncStep

\* A step that does not name a passkey.
LEMMA NamesRest ==
  ASSUME ControlKept, NEW t \in Tasks, StoreStep(t) \/ SyncStep(t), tasks[t].pc \notin NameLabels
  PROVE  UNCHANGED <<seq, named>>
<1>1. CASE ReadBefore(t) \/ ApiAnswered(t) \/ ApiFailed(t) \/ CreateRead(t) \/ UpsertRead(t) \/ UpsertWrite(t)
  BY <1>1 DEF ReadBefore, ApiAnswered, ApiFailed, CreateRead, UpsertRead, UpsertWrite
<1>2. CASE Unremove(t) \/ SaveSeed(t) \/ LoadSeed(t) \/ RegisterKey(t) \/ ReadRows(t)
  BY <1>2 DEF Unremove, SaveSeed, LoadSeed, RegisterKey, ReadRows
<1>3. CASE WriteActive(t) \/ WriteLabel(t) \/ DeleteRow(t) \/ DeleteSeed(t) \/ DenyAddress(t)
  BY <1>3 DEF WriteActive, WriteLabel, DeleteRow, DeleteSeed, DenyAddress
<1>4. CASE DeleteDone(t) \/ MatchSetup(t) \/ LogoutSession(t) \/ ClearVault(t) \/ ClearSession(t)
  BY <1>4 DEF DeleteDone, MatchSetup, LogoutSession, ClearVault, ClearSession
<1>5. CASE RepairRead(t) \/ PatchRead(t) \/ PatchWrite(t) \/ Done(t) \/ ApplyDeveloperMode(t)
  BY <1>5 DEF RepairRead, PatchRead, PatchWrite, Done, ApplyDeveloperMode
<1>6. ~NamingStep(t)
  BY NamingIs
<1> QED BY <1>1, <1>2, <1>3, <1>4, <1>5, <1>6, SyncRest DEF StoreStep

\* Where these steps go on.
LEMMA NextLabel ==
  ASSUME ControlKept, NEW t \in Tasks
  PROVE  /\ ApiAnswered(t) => tasks'[t].pc = "create"
         /\ CreateRead(t) => tasks'[t].pc = "upsert"
         /\ UpsertRead(t) => tasks'[t].pc = "write"
         /\ UpsertWrite(t) => tasks'[t].pc = tasks[t].then
         /\ ReadRows(t) /\ tasks[t].op = "DELETE_ACCOUNT" => tasks'[t].pc = "delete"
         /\ DeleteRow(t) => tasks'[t].pc \in {"cleared", "unvault"}
         /\ DeleteSeed(t) => tasks'[t].pc = "denylist"
         /\ DenyAddress(t) => tasks'[t].pc = "cleared"
         /\ DeleteDone(t) => tasks'[t].pc = "setup"
         /\ MatchSetup(t) /\ tasks[t].op # "GET_ACCOUNTS" => tasks'[t].pc = "done"
         /\ LogoutSession(t) => tasks'[t].pc = "unvaultAll"
         /\ ClearVault(t) => tasks'[t].pc = "wipe"
         /\ SaveSeed(t) \/ ClearSession(t) => tasks'[t].pc = "done"
         /\ ApiFailed(t) \/ Done(t) => tasks'[t].pc = "idle"
<1>0. DOMAIN tasks = Tasks /\ "pc" \in DOMAIN tasks[t]
  BY DEF ControlKept, Controlled, Shaped, TaskFields
<1>1. ASSUME NEW label, Goto(t, label) PROVE tasks'[t].pc = label
  BY <1>1, GotoIs
<1>2. ASSUME Finish(t) PROVE tasks'[t].pc = "idle"
  BY <1>2, FinishIs, NoTaskControlled
<1>3. /\ ApiAnswered(t) => tasks'[t].pc = "create"
      /\ CreateRead(t) => tasks'[t].pc = "upsert"
      /\ UpsertRead(t) => tasks'[t].pc = "write"
  <2>1. ASSUME ApiAnswered(t) PROVE tasks'[t].pc = "create"
    <3>1. ASSUME NEW row, NEW then,
                 \/ tasks' = [tasks EXCEPT ![t].pc = "create", ![t].row = row]
                 \/ tasks' = [tasks EXCEPT ![t].pc = "create", ![t].row = row, ![t].then = then]
          PROVE  tasks'[t].pc = "create"
      BY <1>0, <3>1
    <3>2. ASSUME NEW row, NEW remember, NEW then,
                 tasks' = [tasks EXCEPT ![t].pc = "create", ![t].row = row, ![t].remember = remember,
                                        ![t].then = then]
          PROVE  tasks'[t].pc = "create"
      BY <1>0, <3>2
    <3>3. CASE tasks[t].op = "CREATE_OR_CONNECT_PASSKEY"
      BY <2>1, <3>1, <3>3, Zenon DEF ApiAnswered
    <3>4. CASE tasks[t].op \in {"PASSKEY_REG_FINISH", "PASSKEY_AUTH_FINISH"}
      BY <2>1, <3>1, <3>4, Zenon DEF ApiAnswered
    <3>5. CASE tasks[t].op = "IMPORT_MNEMONIC_ACCOUNT"
      BY <2>1, <3>2, <3>5, Zenon DEF ApiAnswered
    <3> QED BY <2>1, <3>3, <3>4, <3>5 DEF ApiAnswered
  <2>2. CreateRead(t) => tasks'[t].pc = "upsert"
    BY <1>0 DEF CreateRead
  <2>3. UpsertRead(t) => tasks'[t].pc = "write"
    BY <1>0 DEF UpsertRead, ReadBucket
  <2> QED BY <2>1, <2>2, <2>3
<1>4. UpsertWrite(t) => tasks'[t].pc = tasks[t].then
  BY <1>0 DEF UpsertWrite
<1>5. ReadRows(t) /\ tasks[t].op = "DELETE_ACCOUNT" => tasks'[t].pc = "delete"
  BY <1>0 DEF ReadRows, ReadBucket
<1>6. DeleteRow(t) => tasks'[t].pc \in {"cleared", "unvault"}
  BY <1>0 DEF DeleteRow
<1>7. MatchSetup(t) /\ tasks[t].op # "GET_ACCOUNTS" => tasks'[t].pc = "done"
  BY <1>0 DEF MatchSetup
<1>8. /\ DeleteSeed(t) => tasks'[t].pc = "denylist"
      /\ DenyAddress(t) => tasks'[t].pc = "cleared"
      /\ DeleteDone(t) => tasks'[t].pc = "setup"
  BY <1>1 DEF DeleteSeed, DenyAddress, DeleteDone
<1>9. /\ LogoutSession(t) => tasks'[t].pc = "unvaultAll"
      /\ ClearVault(t) => tasks'[t].pc = "wipe"
      /\ SaveSeed(t) \/ ClearSession(t) => tasks'[t].pc = "done"
  BY <1>1 DEF LogoutSession, ClearVault, ClearSession, SaveSeed
<1>10. ApiFailed(t) \/ Done(t) => tasks'[t].pc = "idle"
  BY <1>2 DEF ApiFailed, Done
<1> QED BY <1>3, <1>4, <1>5, <1>6, <1>7, <1>8, <1>9, <1>10

\* What a handler that starts is.
LEMMA StartIs ==
  ASSUME ControlKept, NEW t \in Tasks, NEW op, NEW label, NEW arg, Start(t, op, label, arg)
  PROVE  /\ tasks' = [tasks EXCEPT ![t] = tasks'[t]] /\ tasks[t] = NoTask
         /\ tasks'[t].op = op /\ tasks'[t].pc = label /\ tasks'[t].arg = arg /\ tasks'[t].before = {}
         /\ UNCHANGED <<scene, dev, store, keys, sid, seq, invites, named>>
<1>. DEFINE r == [NoTask EXCEPT !.op = op, !.pc = label, !.arg = arg]
<1>1. Shaped(NoTask, TaskFields)
  BY NoTaskControlled DEF Controlled
<1>2. r.op = op /\ r.pc = label /\ r.arg = arg /\ r.before = {}
  <2>1. NoTask.before = {}
    BY DEF NoTask
  <2>. HIDE DEF NoTask
  <2> QED BY <1>1, <2>1 DEF Shaped, TaskFields
<1>3. tasks' = [tasks EXCEPT ![t] = r] /\ DOMAIN tasks = Tasks
  BY DEF Start, ControlKept
<1>. HIDE DEF r
<1> QED BY <1>2, <1>3 DEF Start

\* The labels of these operations.
OwnAt(r) ==
    r.pc # "idle" =>
       /\ r.op = "IMPORT_MNEMONIC_ACCOUNT" =>
             r.pc \in {"api", "create", "upsert", "write", "seed", "done"}
       /\ r.op = "DELETE_ACCOUNT" =>
             r.pc \in {"read", "delete", "unvault", "denylist", "cleared", "setup", "done"}
       /\ r.op = "LOGOUT" => r.pc \in {"logout", "unvaultAll", "wipe", "done"}
       /\ r.op = "PASSKEY_CONFIRM_SEQ" =>
             r.pc \in NameLabels \cup {"done"}
OwnKept == \A t \in Tasks : OwnAt(tasks[t])

LEMMA OwnStarts == SyncInit => OwnKept
BY NoTaskControlled DEF SyncInit, Init, OwnKept, OwnAt

LEMMA OwnKeeps == ControlKept /\ OwnKept /\ [SyncNext]_syncVars => OwnKept'
<1>. SUFFICES ASSUME ControlKept, OwnKept, [SyncNext]_syncVars PROVE OwnKept'
  OBVIOUS
<1>0. ControlKept' /\ DOMAIN tasks = Tasks
  BY ControlKeeps DEF ControlKept
<1>1. ASSUME NEW t \in Tasks, Handler(t) \/ SyncHandler(t) PROVE OwnKept'
  <2>1. PICK op, arg : \E label \in FirstLabels : Start(t, op, label, arg)
    BY <1>1, StartsSo
  <2>2. /\ tasks' = [tasks EXCEPT ![t] = tasks'[t]] /\ tasks'[t].op = op /\ tasks'[t].pc \in FirstLabels
    BY <2>1, StartIs
  <2>3. MayBeAt(op, tasks'[t].pc)
    BY <1>0, <2>2 DEF ControlKept, Controlled, FirstLabels
  <2>4. OwnAt(tasks'[t])
    BY <2>2, <2>3 DEF OwnAt, MayBeAt, FirstLabels, ApiOps, SyncOps, SyncLabels, NameLabels
  <2> QED BY <1>0, <2>2, <2>4 DEF OwnKept
<1>2. ASSUME NEW t \in Tasks, StoreStep(t) \/ SyncStep(t) PROVE OwnKept'
  <2>1. Moved(t) /\ OwnAt(tasks[t])
    BY <1>2, StoreMoves, SyncMoves DEF OwnKept
  <2>2. OwnAt(tasks'[t])
    <3>1. CASE tasks'[t].pc = "idle" \/ tasks'[t] = NoTask
      BY <3>1, NoTaskControlled DEF OwnAt
    <3>2. CASE tasks'[t].pc # "idle" /\ tasks'[t] # NoTask
      <4>1. tasks'[t].op = tasks[t].op /\ tasks[t].pc # "idle" /\ tasks[t].then \in Thens
            /\ MayBeAt(tasks[t].op, tasks[t].then)
        BY <2>1, <3>2 DEF Moved, ControlKept, Controlled
      <4>2. CASE tasks[t].op = "IMPORT_MNEMONIC_ACCOUNT"
        <5>1. tasks[t].then \in {"done", "seed"}
          BY <4>1, <4>2 DEF Thens, MayBeAt, SyncLabels, SyncOps
        <5>2. tasks'[t].pc \in {"create", "upsert", "write", "seed", "done", "idle"}
          BY <1>2, <2>1, <4>1, <4>2, <5>1, StepAt, NextLabel DEF OwnAt, At
        <5> QED BY <3>2, <4>1, <4>2, <5>2 DEF OwnAt
      <4>3. CASE tasks[t].op = "DELETE_ACCOUNT"
        <5>1. tasks'[t].pc \in {"delete", "unvault", "denylist", "cleared", "setup", "done", "idle"}
          BY <1>2, <2>1, <4>1, <4>3, StepAt, NextLabel DEF OwnAt, At
        <5> QED BY <3>2, <4>1, <4>3, <5>1 DEF OwnAt
      <4>4. CASE tasks[t].op = "LOGOUT"
        <5>1. tasks'[t].pc \in {"unvaultAll", "wipe", "done", "idle"}
          BY <1>2, <2>1, <4>1, <4>4, StepAt, NextLabel DEF OwnAt, At
        <5> QED BY <3>2, <4>1, <4>4, <5>1 DEF OwnAt
      <4>5. CASE tasks[t].op = "PASSKEY_CONFIRM_SEQ"
        <5>1. NamingStep(t) \/ Done(t)
          BY <1>2, <2>1, <4>1, <4>5, StepAt DEF OwnAt, At
        <5>2. Finish(t) \/ tasks'[t].pc \in NameLabels \cup {"done"}
          BY <5>1, NamingIs DEF Done
        <5>3. ~Finish(t)
          BY <3>2, FinishIs
        <5> QED BY <4>1, <4>5, <5>2, <5>3 DEF OwnAt
      <4> QED BY <4>1, <4>2, <4>3, <4>4, <4>5 DEF OwnAt
    <3> QED BY <3>1, <3>2
  <2>3. tasks' = [tasks EXCEPT ![t] = tasks'[t]]
    BY <2>1 DEF Moved
  <2> QED BY <1>0, <2>2, <2>3 DEF OwnKept
<1>3. CASE SwRestart
  BY <1>3, NoTaskControlled DEF SwRestart, OwnKept, OwnAt
<1>4. CASE UNCHANGED syncVars
  BY <1>4 DEF syncVars, walletVars, OwnKept
<1> QED BY <1>1, <1>2, <1>3, <1>4 DEF SyncNext

-----------------------------------------------------------------------------
(* The numbers of passkeys. *)

\* What a handler that names a passkey holds, the numbers of retired being on record.
NameAt(r, retired) ==
    /\ r.pc = "peek" => r.arg = None /\ r.before = {}
    /\ r.pc = "seeding" => r.count \in Nat /\ r.arg \in Nat \cup {None} /\ retired = {}
    /\ r.pc = "ceremony" => r.arg \notin r.before
    /\ r.pc \in {"ceremony", "finish", "confirmRead", "confirmWrite"} => r.arg \in Nat
    /\ r.pc = "confirmWrite" => \A n \in retired : n <= r.arg

\* The counter has not fallen below a number on record, and nobody holds one to write that
\* would make it.
NamesKept ==
    /\ seq \in Nat \cup {None} /\ named.retired \subseteq Nat
    /\ named = [made |-> named.made, retired |-> named.retired]
    /\ \A n \in named.retired : seq # None /\ n <= seq
    /\ \A made \in named.made : made[1] \notin made[2]
    /\ \A t \in Tasks : NameAt(tasks[t], named.retired)

LEMMA NamesStart == SyncInit => NamesKept
<1>. SUFFICES ASSUME SyncInit PROVE NamesKept
  OBVIOUS
<1>1. seq = None /\ named = [made |-> {}, retired |-> {}] /\ \A t \in Tasks : tasks[t].pc = "idle"
  BY NoTaskControlled DEF SyncInit, Init
<1> QED BY <1>1 DEF NamesKept, NameAt

\* The other handlers still hold what they may when one has moved.
LEMMA NamesMove ==
  ASSUME ControlKept, NamesKept, NEW t \in Tasks, NEW r, tasks' = [tasks EXCEPT ![t] = r],
         NameAt(r, named'.retired), named'.retired = named.retired \/ WritesAlone(t)
  PROVE  \A u \in Tasks : NameAt(tasks'[u], named'.retired)
<1>1. tasks'[t] = r /\ \A u \in Tasks \ {t} : tasks'[u] = tasks[u]
  BY DEF ControlKept
<1>2. ASSUME NEW u \in Tasks \ {t} PROVE NameAt(tasks[u], named'.retired)
  BY DEF NamesKept, NameAt, WritesAlone
<1> QED BY <1>1, <1>2

\* Nobody is naming a passkey with this step.
LEMMA NamesStay ==
  ASSUME ControlKept, NamesKept, NEW t \in Tasks, tasks' = [tasks EXCEPT ![t] = tasks'[t]],
         UNCHANGED <<seq, named>>, NameAt(tasks'[t], named.retired)
  PROVE  NamesKept'
<1>. DEFINE r == tasks'[t]
<1>1. tasks' = [tasks EXCEPT ![t] = r] /\ NameAt(r, named'.retired)
  OBVIOUS
<1>. HIDE DEF r
<1>2. \A u \in Tasks : NameAt(tasks'[u], named'.retired)
  BY <1>1, NamesMove
<1> QED BY <1>2 DEF NamesKept

\* A handler that goes on holds what it held.
LEMMA GoesOn ==
  ASSUME ControlKept, NEW t \in Tasks, NEW label, Goto(t, label)
  PROVE  /\ tasks' = [tasks EXCEPT ![t] = tasks'[t]]
         /\ tasks'[t].pc = label /\ tasks'[t].arg = tasks[t].arg
<1>. DEFINE r == [tasks[t] EXCEPT !.pc = label]
<1>1. r.pc = label /\ r.arg = tasks[t].arg /\ DOMAIN tasks = Tasks
  BY DEF ControlKept, Controlled, Shaped, TaskFields
<1>2. tasks' = [tasks EXCEPT ![t] = r]
  BY DEF Goto
<1>. HIDE DEF r
<1> QED BY <1>1, <1>2

\* The accounts by which a missing counter starts are counted.
LEMMA RowsCounted == ASSUME RowsKept PROVE Cardinality(PasskeyRows) \in Nat
<1>1. ASSUME NEW e \in Envs, NEW n \in Nets PROVE IsFiniteSet(RangeOf(accounts[e][n]))
  <2>. DEFINE list == accounts[e][n]
  <2>1. /\ Len(list) \in Nat /\ DOMAIN list = 1..Len(list)
        /\ list \in [1..Len(list) -> RangeOf(list)]
    BY LenProperties DEF RowsKept, RowList, IsList
  <2>. HIDE DEF list
  <2>2. list \in Surjection(1..Len(list), RangeOf(list))
    BY <2>1 DEF Surjection, RangeOf
  <2>3. IsFiniteSet(RangeOf(list))
    BY <2>1, <2>2, FS_Interval, FS_Surjection
  <2> QED BY <2>3 DEF list
<1>. DEFINE P(e, n) == RangeOf(accounts[e][n])
            all == ((P("prod", "mainnet") \cup P("prod", "testnet")) \cup P("dev", "mainnet"))
                     \cup P("dev", "testnet")
<1>2. IsFiniteSet(all)
  <2>1. /\ IsFiniteSet(P("prod", "mainnet")) /\ IsFiniteSet(P("prod", "testnet"))
        /\ IsFiniteSet(P("dev", "mainnet")) /\ IsFiniteSet(P("dev", "testnet"))
    BY <1>1 DEF Envs, Nets
  <2>. HIDE DEF P
  <2> QED BY <2>1, FS_Union
<1>3. PasskeyRows \subseteq all
  BY DEF PasskeyRows, Envs, Nets
<1> QED BY <1>2, <1>3, FS_Subset, FS_CardinalityType

\* A number that the counter, being now, has reached or passed is on record; a higher one
\* is to be written.
LEMMA NamesCompare ==
  ASSUME ControlKept, NamesKept, NEW t \in Tasks, NEW now \in Nat, Compare(t, now), seq' = now,
         tasks[t].pc \in {"seeding", "confirmRead"}, tasks[t].arg \in Nat,
         \A n \in named.retired : n <= now
  PROVE  NamesKept'
<1>. DEFINE T == tasks[t]
            all == named.retired
<1>1. all \subseteq Nat /\ None \notin Nat
  BY WalletAssumption DEF NamesKept
<1>2. CASE T.arg > now
  <2>1. UNCHANGED named /\ Goto(t, "confirmWrite")
    BY <1>2 DEF Compare
  <2>2. /\ tasks' = [tasks EXCEPT ![t] = tasks'[t]]
        /\ tasks'[t].pc = "confirmWrite" /\ tasks'[t].arg = T.arg
    BY <2>1, GoesOn
  <2>. DEFINE r == tasks'[t]
  <2>3. NameAt(r, named'.retired)
    BY <1>1, <1>2, <2>1, <2>2 DEF NameAt
  <2>4. tasks' = [tasks EXCEPT ![t] = r]
    BY <2>2
  <2>. HIDE DEF r
  <2>5. \A u \in Tasks : NameAt(tasks'[u], named'.retired)
    BY <2>1, <2>3, <2>4, NamesMove
  <2> QED BY <1>1, <2>1, <2>5 DEF NamesKept
<1>3. CASE ~(T.arg > now)
  <2>1. Retire(t) /\ Goto(t, "done")
    BY <1>3 DEF Compare
  <2>2. tasks' = [tasks EXCEPT ![t] = tasks'[t]] /\ tasks'[t].pc = "done"
    BY <2>1, GoesOn
  <2>3. /\ named'.retired \subseteq Nat /\ named'.made = named.made
        /\ named' = [made |-> named'.made, retired |-> named'.retired]
        /\ named'.retired = all \/ (WritesAlone(t) /\ named'.retired = all \cup {T.arg})
    BY <1>1, <2>1 DEF Retire, NamesKept
  <2>. DEFINE r == tasks'[t]
  <2>4. tasks' = [tasks EXCEPT ![t] = r] /\ NameAt(r, named'.retired)
    BY <2>2 DEF NameAt
  <2>. HIDE DEF r
  <2>5. \A u \in Tasks : NameAt(tasks'[u], named'.retired)
    BY <2>3, <2>4, NamesMove
  <2>6. \A n \in named'.retired : seq' # None /\ n <= seq'
    BY <1>1, <1>3, <2>3
  <2> QED BY <2>3, <2>5, <2>6 DEF NamesKept
<1> QED BY <1>2, <1>3

\* A credential is asked for under the number after the one of the counter, with the
\* numbers on record kept; or the counter is missing.
LEMMA NamesPeeked ==
  ASSUME ControlKept, NamesKept, NEW t \in Tasks, NEW now \in Nat, seq' \in {seq, now}, seq' = now,
         UNCHANGED named, \A n \in named.retired : n <= now,
         tasks' = [tasks EXCEPT ![t].arg = now + 1, ![t].before = named.retired, ![t].pc = "ceremony"]
  PROVE  NamesKept'
<1>. DEFINE T == tasks[t]
            all == named.retired
            r == [T EXCEPT !.arg = now + 1, !.before = all, !.pc = "ceremony"]
<1>1. all \subseteq Nat /\ None \notin Nat
  BY WalletAssumption DEF NamesKept
<1>2. r.arg = now + 1 /\ r.before = all /\ r.pc = "ceremony"
  BY DEF ControlKept, Controlled, Shaped, TaskFields
<1>3. tasks' = [tasks EXCEPT ![t] = r]
  OBVIOUS
<1>. HIDE DEF r
<1>4. NameAt(r, named'.retired)
  BY <1>1, <1>2 DEF NameAt
<1>5. \A u \in Tasks : NameAt(tasks'[u], named'.retired)
  BY <1>3, <1>4, NamesMove
<1> QED BY <1>1, <1>5 DEF NamesKept

\* The counter is missing, so no number is on record: it is to be written.
LEMMA NamesSeeding ==
  ASSUME ControlKept, NamesKept, RowsKept, NEW t \in Tasks, seq = None, UNCHANGED <<seq, named>>,
         tasks[t].arg \in Nat \cup {None},
         tasks' = [tasks EXCEPT ![t].count = Cardinality(PasskeyRows), ![t].pc = "seeding"]
  PROVE  NamesKept'
<1>. DEFINE T == tasks[t]
            rows == Cardinality(PasskeyRows)
            r == [T EXCEPT !.count = rows, !.pc = "seeding"]
<1>1. rows \in Nat /\ named.retired = {}
  BY RowsCounted DEF NamesKept
<1>2. r.arg = T.arg /\ r.count = rows /\ r.pc = "seeding"
  BY DEF ControlKept, Controlled, Shaped, TaskFields
<1>3. tasks' = [tasks EXCEPT ![t] = r]
  OBVIOUS
<1>. HIDE DEF rows, r
<1>4. NameAt(r, named'.retired)
  BY <1>1, <1>2 DEF NameAt
<1>5. \A u \in Tasks : NameAt(tasks'[u], named'.retired)
  BY <1>3, <1>4, NamesMove
<1> QED BY <1>5 DEF NamesKept

\* Every step of naming a passkey.
LEMMA NamingKeeps ==
  ASSUME ControlKept, RowsKept, NamesKept, NEW t \in Tasks, NamingStep(t) PROVE NamesKept'
<1>. DEFINE T == tasks[t]
<1>1. /\ NameAt(T, named.retired) /\ None \notin Nat /\ seq \in Nat \cup {None} /\ named.retired \subseteq Nat
      /\ \A n \in named.retired : seq # None /\ n <= seq
      /\ Shaped(T, TaskFields) /\ DOMAIN tasks = Tasks /\ nextId \in Nat
  BY WalletAssumption DEF NamesKept, ControlKept, Controlled, RowsKept
<1>2. ASSUME NEW label, Goto(t, label), UNCHANGED <<seq, named>>, label \in {"finish", "confirmRead"},
             T.pc \in {"ceremony", "finish"}
      PROVE  NamesKept'
  <2>1. tasks' = [tasks EXCEPT ![t] = tasks'[t]] /\ tasks'[t].pc = label /\ tasks'[t].arg = T.arg
    BY <1>2, GoesOn
  <2> QED BY <1>1, <1>2, <2>1, NamesStay DEF NameAt
<1>3. ASSUME Finish(t), UNCHANGED <<seq, named>> PROVE NamesKept'
  <2>1. tasks' = [tasks EXCEPT ![t] = tasks'[t]] /\ tasks'[t].pc = "idle"
    BY <1>1, <1>3, FinishIs, NoTaskControlled DEF Finish
  <2> QED BY <1>3, <2>1, NamesStay DEF NameAt
<1>4. CASE PeekSeq(t)
  <2>1. UNCHANGED <<seq, named>> /\ T.arg = None
    BY <1>1, <1>4 DEF PeekSeq, At, NameAt
  <2>2. CASE seq # None
    BY <1>1, <1>4, <2>1, <2>2, NamesPeeked DEF PeekSeq
  <2>3. CASE seq = None
    BY <1>1, <1>4, <2>1, <2>3, NamesSeeding DEF PeekSeq
  <2> QED BY <2>2, <2>3
<1>5. CASE PeekFails(t)
  <2>1. PICK n \in 1..nextId : tasks' = [tasks EXCEPT ![t].arg = n, ![t].pc = "ceremony"]
    BY <1>5 DEF PeekFails
  <2>2. n \in Nat /\ T.before = {} /\ UNCHANGED <<seq, named>>
    BY <1>1, <1>5 DEF PeekFails, At, NameAt
  <2>3. /\ tasks' = [tasks EXCEPT ![t] = tasks'[t]] /\ tasks'[t].pc = "ceremony"
        /\ tasks'[t].arg = n /\ tasks'[t].before = {}
    BY <1>1, <2>1, <2>2 DEF Shaped, TaskFields
  <2> QED BY <2>2, <2>3, NamesStay DEF NameAt
<1>6. CASE SeedSeq(t)
  <2>1. /\ T.pc = "seeding" /\ T.count \in Nat /\ named.retired = {} /\ T.arg \in Nat \cup {None}
        /\ seq' = T.count
    BY <1>1, <1>6 DEF SeedSeq, At, NameAt
  <2>2. CASE T.arg = None
    <3>1. /\ UNCHANGED named
          /\ tasks' = [tasks EXCEPT ![t].arg = T.count + 1, ![t].before = named.retired,
                                    ![t].pc = "ceremony"]
      BY <1>6, <2>2 DEF SeedSeq
    <3> QED BY <2>1, <3>1, NamesPeeked
  <2>3. CASE T.arg # None
    <3>1. Compare(t, T.count)
      BY <1>6, <2>3 DEF SeedSeq
    <3> QED BY <2>1, <2>3, <3>1, NamesCompare
  <2> QED BY <2>2, <2>3
<1>7. CASE Ceremony(t)
  <2>1. CASE UNCHANGED named /\ Finish(t)
    BY <1>3, <1>7, <2>1 DEF Ceremony
  <2>2. CASE named' = [named EXCEPT !.made = @ \cup {<<T.arg, T.before>>}] /\ Goto(t, "finish")
    <3>1. T.arg \in Nat /\ T.arg \notin T.before /\ UNCHANGED seq
      BY <1>1, <1>7 DEF Ceremony, At, NameAt
    <3>2. /\ named'.retired = named.retired /\ named'.made = named.made \cup {<<T.arg, T.before>>}
          /\ named' = [made |-> named'.made, retired |-> named'.retired]
      BY <2>2 DEF NamesKept
    <3>. DEFINE r == tasks'[t]
    <3>3. tasks' = [tasks EXCEPT ![t] = r] /\ r.pc = "finish" /\ r.arg = T.arg
      BY <2>2, GoesOn
    <3>. HIDE DEF r
    <3>4. NameAt(r, named'.retired)
      BY <3>1, <3>3 DEF NameAt
    <3>5. \A u \in Tasks : NameAt(tasks'[u], named'.retired)
      BY <3>2, <3>3, <3>4, NamesMove
    <3> QED BY <3>1, <3>2, <3>5 DEF NamesKept
  <2> QED BY <1>7, <2>1, <2>2 DEF Ceremony
<1>8. CASE FinishNamed(t)
  BY <1>2, <1>3, <1>8 DEF FinishNamed, At
<1>9. CASE ConfirmRead(t)
  <2>1. T.pc = "confirmRead" /\ T.arg \in Nat /\ UNCHANGED seq
    BY <1>1, <1>9 DEF ConfirmRead, At, NameAt
  <2>2. CASE seq # None
    BY <1>1, <1>9, <2>1, <2>2, NamesCompare DEF ConfirmRead
  <2>3. CASE seq = None
    BY <1>9, <2>1, <2>3, NamesSeeding DEF ConfirmRead
  <2> QED BY <2>2, <2>3
<1>10. CASE ConfirmWrite(t)
  <2>1. /\ T.pc = "confirmWrite" /\ T.arg \in Nat /\ seq' = T.arg /\ Retire(t) /\ Goto(t, "done")
        /\ \A n \in named.retired : n <= T.arg
    BY <1>1, <1>10 DEF ConfirmWrite, At, NameAt
  <2>2. /\ named'.retired \subseteq Nat /\ named'.made = named.made
        /\ named' = [made |-> named'.made, retired |-> named'.retired]
        /\ \/ named'.retired = named.retired
           \/ WritesAlone(t) /\ named'.retired = named.retired \cup {T.arg}
    BY <1>1, <2>1 DEF Retire, NamesKept
  <2>. DEFINE r == tasks'[t]
  <2>3. tasks' = [tasks EXCEPT ![t] = r] /\ r.pc = "done"
    BY <2>1, GoesOn
  <2>. HIDE DEF r
  <2>4. NameAt(r, named'.retired)
    BY <2>3 DEF NameAt
  <2>5. \A u \in Tasks : NameAt(tasks'[u], named'.retired)
    BY <2>2, <2>3, <2>4, NamesMove
  <2>6. seq' \in Nat /\ \A n \in named'.retired : seq' # None /\ n <= seq'
    BY <1>1, <2>1, <2>2
  <2> QED BY <2>2, <2>5, <2>6 DEF NamesKept
<1> QED BY <1>4, <1>5, <1>6, <1>7, <1>8, <1>9, <1>10 DEF NamingStep

LEMMA NamesKeep ==
  ControlKept /\ OwnKept /\ RowsKept /\ NamesKept /\ [SyncNext]_syncVars => NamesKept'
<1>. SUFFICES ASSUME ControlKept, OwnKept, RowsKept, NamesKept, [SyncNext]_syncVars PROVE NamesKept'
  OBVIOUS
<1>1. ASSUME NEW t \in Tasks, Handler(t) \/ SyncHandler(t) PROVE NamesKept'
  <2>1. PICK op, arg : \E label \in FirstLabels : /\ Start(t, op, label, arg)
                                                  /\ label = "peek" => arg = None
    BY <1>1, StartsSo
  <2>2. /\ tasks' = [tasks EXCEPT ![t] = tasks'[t]] /\ UNCHANGED <<seq, named>>
        /\ tasks'[t].pc \in FirstLabels /\ tasks'[t].before = {}
        /\ tasks'[t].pc = "peek" => tasks'[t].arg = None
    BY <2>1, StartIs
  <2> QED BY <2>2, NamesStay DEF NameAt, FirstLabels
<1>2. ASSUME NEW t \in Tasks, StoreStep(t) \/ SyncStep(t), tasks[t].pc \notin NameLabels PROVE NamesKept'
  <2>1. Moved(t) /\ OwnAt(tasks[t]) /\ UNCHANGED <<seq, named>>
    BY <1>2, StoreMoves, SyncMoves, NamesRest DEF OwnKept
  <2>2. tasks'[t].pc \notin NameLabels
    <3>1. CASE tasks'[t] = NoTask
      BY <3>1, NoTaskControlled DEF NameLabels
    <3>2. CASE tasks[t].op = "PASSKEY_CONFIRM_SEQ"
      <4>1. At(t, "done")
        BY <1>2, <2>1, <3>2 DEF OwnAt, At, Moved
      <4>2. tasks'[t].pc = "idle"
        BY <1>2, <4>1, StepAt, NextLabel
      <4> QED BY <4>2 DEF NameLabels
    <3>3. CASE tasks'[t] # NoTask /\ tasks[t].op # "PASSKEY_CONFIRM_SEQ"
      <4>1. tasks'[t].op # "PASSKEY_CONFIRM_SEQ" /\ Controlled(tasks'[t])
        BY <2>1, <3>3 DEF Moved
      <4> QED BY <4>1 DEF Controlled, MayBeAt, NameLabels
    <3> QED BY <3>1, <3>2, <3>3
  <2>3. tasks' = [tasks EXCEPT ![t] = tasks'[t]] /\ NameAt(tasks'[t], named.retired)
    BY <2>1, <2>2 DEF Moved, NameAt, NameLabels
  <2> QED BY <2>1, <2>3, NamesStay
<1>3. ASSUME NEW t \in Tasks, StoreStep(t) \/ SyncStep(t), tasks[t].pc \in NameLabels PROVE NamesKept'
  BY <1>3, StepAt, NamingKeeps
<1>4. CASE SwRestart
  <2>1. UNCHANGED <<seq, named>> /\ \A t \in Tasks : tasks'[t].pc = "idle"
    BY <1>4, NoTaskControlled DEF SwRestart
  <2> QED BY <2>1 DEF NamesKept, NameAt
<1>5. CASE UNCHANGED syncVars
  BY <1>5 DEF syncVars, walletVars, NamesKept
<1> QED BY <1>1, <1>2, <1>3, <1>4, <1>5 DEF SyncNext

\* A number on record is not given again: by a peek that found the counter, no credential is
\* made under a number that was confirmed before the peek with nobody else about to write,
\* whatever handlers overlap, finishes fail, commits are lost and workers are stopped.
THEOREM RetiredNumbersStay == UseSpec => []NamesNotReused
<1>1. SyncInit => ControlKept /\ OwnKept /\ RowsKept /\ NamesKept
  BY ControlStarts, OwnStarts, RowsStart, NamesStart
<1>2. ControlKept /\ OwnKept /\ RowsKept /\ NamesKept /\ [SyncNext]_syncVars
        => (ControlKept /\ OwnKept /\ RowsKept /\ NamesKept)'
  BY ControlKeeps, OwnKeeps, RowsKeep, NamesKeep
<1>3. NamesKept => NamesNotReused
  BY DEF NamesKept, NamesNotReused
<1>4. UseInit => SyncInit
  BY DEF UseInit
<1> QED BY <1>1, <1>2, <1>3, <1>4, StoreOnly, PTL DEF UseSpec

-----------------------------------------------------------------------------
(* What a logout clears. *)

\* While it runs alone: the keys and the session are gone with its first step, the rest
\* with its last.
LogoutKept ==
    /\ DOMAIN vault = Envs /\ DOMAIN invites = Envs /\ DOMAIN removed = Envs
    /\ scene.busy = 1 => \A t \in Tasks : tasks[t].pc # "idle" /\ tasks[t].op = "LOGOUT" =>
         /\ tasks[t].pc \in {"unvaultAll", "wipe", "done"} => keys = {} /\ Scope \notin sid
         /\ tasks[t].pc = "done" =>
               /\ vault[Scope] = {} /\ invites[Scope] = {}
               /\ \A n \in Nets : /\ accounts[Scope][n] = <<>> /\ active[Scope][n] = None
                                  /\ removed[Scope][n] = {}

\* Every step keeps the tables of the deployments.
LEMMA TablesStay ==
  ASSUME [SyncNext]_syncVars
  PROVE  /\ DOMAIN vault' = DOMAIN vault /\ DOMAIN invites' = DOMAIN invites
         /\ DOMAIN removed' = DOMAIN removed
<1>. DEFINE Stay == /\ DOMAIN vault' = DOMAIN vault /\ DOMAIN invites' = DOMAIN invites
                    /\ DOMAIN removed' = DOMAIN removed
<1>1. ASSUME UNCHANGED <<store, invites>> PROVE Stay
  BY <1>1 DEF store
<1>2. ASSUME NEW t \in Tasks, Handler(t) \/ SyncHandler(t) PROVE Stay
  <2>1. PICK op, arg : \E label \in FirstLabels : Start(t, op, label, arg)
    BY <1>2, StartsSo
  <2> QED BY <1>1, <2>1 DEF Start
<1>3. ASSUME NEW t \in Tasks, SyncStep(t) PROVE Stay
  <2>1. CASE ClearInvite(t) \/ NoteInvite(t)
    BY <2>1 DEF ClearInvite, NoteInvite, store
  <2>2. CASE Readd(t)
    BY <2>2 DEF Readd
  <2>3. CASE SyncRead(t) \/ SyncInvites(t) \/ SyncRemoved(t) \/ DropSession(t) \/ ListWallets(t)
    BY <1>1, <2>3 DEF SyncRead, SyncInvites, SyncRemoved, DropSession, ListWallets, OnlyTasks
  <2>4. CASE ImportNext(t) \/ EnsuredRow(t) \/ InvitesRead(t) \/ StoreDraftMeta(t) \/ ConfirmListed(t)
          \/ PatchInvite(t) \/ LocalRow(t)
    BY <1>1, <2>4 DEF ImportNext, EnsuredRow, InvitesRead, StoreDraftMeta, ConfirmListed, PatchInvite,
                      LocalRow, OnlyTasks
  <2>5. CASE InviteNext(t) \/ Preview(t) \/ Predict(t) \/ OwnDraft(t) \/ Deployed(t)
    BY <1>1, <2>5 DEF InviteNext, Preview, Predict, OwnDraft, Deployed, OnlyTasks
  <2>6. CASE RegisterWallet(t) \/ RegisterKnown(t) \/ ActivateNew(t) \/ ListOne(t) \/ LastResort(t) \/ Verify(t)
    BY <1>1, <2>6 DEF RegisterWallet, RegisterKnown, ActivateNew, ListOne, LastResort, Verify, OnlyTasks
  <2> QED BY <1>3, <2>1, <2>2, <2>3, <2>4, <2>5, <2>6 DEF SyncStep
<1>4. ASSUME NEW t \in Tasks, StoreStep(t) PROVE Stay
  <2>1. CASE ReadBefore(t) \/ ApiAnswered(t) \/ ApiFailed(t) \/ CreateRead(t) \/ UpsertRead(t)
    BY <1>1, <2>1 DEF ReadBefore, ApiAnswered, ApiFailed, CreateRead, UpsertRead
  <2>2. CASE LoadSeed(t) \/ RegisterKey(t) \/ ReadRows(t) \/ DeleteDone(t) \/ LogoutSession(t)
    BY <1>1, <2>2 DEF LoadSeed, RegisterKey, ReadRows, DeleteDone, LogoutSession
  <2>3. CASE RepairRead(t) \/ PatchRead(t) \/ Done(t) \/ ApplyDeveloperMode(t)
    BY <1>1, <2>3 DEF RepairRead, PatchRead, Done, ApplyDeveloperMode
  <2>4. CASE NamingStep(t)
    BY <1>1, <2>4 DEF NamingStep, PeekSeq, PeekFails, SeedSeq, Ceremony, FinishNamed, ConfirmRead, ConfirmWrite
  <2>5. CASE UpsertWrite(t) \/ WriteActive(t) \/ WriteLabel(t) \/ DeleteRow(t) \/ PatchWrite(t) \/ MatchSetup(t)
    BY <2>5 DEF UpsertWrite, WriteActive, WriteLabel, DeleteRow, PatchWrite, MatchSetup
  <2>6. CASE Unremove(t)
    BY <2>6 DEF Unremove
  <2>7. CASE SaveSeed(t) \/ DeleteSeed(t) \/ ClearVault(t)
    BY <2>7 DEF SaveSeed, DeleteSeed, ClearVault
  <2>8. CASE DenyAddress(t)
    BY <2>8 DEF DenyAddress
  <2>9. CASE ClearSession(t)
    BY <2>9 DEF ClearSession
  <2> QED BY <1>4, <2>1, <2>2, <2>3, <2>4, <2>5, <2>6, <2>7, <2>8, <2>9 DEF StoreStep
<1>5. CASE SwRestart
  BY <1>1, <1>5 DEF SwRestart
<1>6. CASE UNCHANGED syncVars
  BY <1>1, <1>6 DEF syncVars, walletVars
<1> QED BY <1>2, <1>3, <1>4, <1>5, <1>6 DEF SyncNext

LEMMA LogoutKeeps ==
  ControlKept /\ OwnKept /\ RowsKept /\ LogoutKept /\ [SyncNext]_syncVars => LogoutKept'
<1>. SUFFICES ASSUME ControlKept, OwnKept, RowsKept, LogoutKept, [SyncNext]_syncVars PROVE LogoutKept'
  OBVIOUS
<1>0. /\ ControlKept' /\ DOMAIN tasks = Tasks /\ Scope \in Envs
      /\ DOMAIN vault = Envs /\ DOMAIN invites = Envs /\ DOMAIN removed = Envs
  BY ControlKeeps, WhereWeAre DEF ControlKept, LogoutKept
<1>1. DOMAIN vault' = Envs /\ DOMAIN invites' = Envs /\ DOMAIN removed' = Envs
  BY TablesStay DEF LogoutKept
<1>2. ASSUME NEW t \in Tasks, Handler(t) \/ SyncHandler(t) PROVE LogoutKept'
  <2>1. PICK op, arg : \E label \in FirstLabels : Start(t, op, label, arg)
    BY <1>2, StartsSo
  <2>2. /\ tasks' = [tasks EXCEPT ![t] = tasks'[t]] /\ tasks'[t].pc \in FirstLabels /\ UNCHANGED scene
    BY <2>1, StartIs
  <2>3. ASSUME scene.busy = 1, NEW u \in Tasks, tasks'[u].pc # "idle" PROVE tasks'[u].pc \in FirstLabels
    <3>1. u = t
      BY <1>0, <2>2, <2>3 DEF ControlKept, Alone, FirstLabels
    <3> QED BY <2>2, <3>1
  <2> QED BY <1>1, <2>2, <2>3 DEF LogoutKept, FirstLabels
<1>3. ASSUME NEW t \in Tasks, StoreStep(t) \/ SyncStep(t) PROVE LogoutKept'
  <2>. DEFINE r == tasks'[t]
  <2>1. Moved(t) /\ OwnAt(tasks[t]) /\ tasks' = [tasks EXCEPT ![t] = r] /\ tasks[t].pc # "idle"
        /\ UNCHANGED scene
    BY <1>3, StoreMoves, SyncMoves DEF OwnKept, Moved
  <2>2. ASSUME scene.busy = 1, NEW u \in Tasks, tasks'[u].pc # "idle", tasks'[u].op = "LOGOUT"
        PROVE  u = t /\ tasks[t].op = "LOGOUT" /\ tasks[t].pc \in {"logout", "unvaultAll", "wipe"}
    <3>1. u = t
      BY <1>0, <2>1, <2>2 DEF ControlKept, Alone
    <3>2. r # NoTask
      BY <2>2, <3>1, NoTaskControlled
    <3>3. tasks[t].op = "LOGOUT"
      BY <2>1, <2>2, <3>1, <3>2 DEF Moved
    <3>4. tasks[t].pc # "done"
      BY <1>3, <2>2, <3>1, StepAt, NextLabel DEF At
    <3> QED BY <2>1, <3>1, <3>3, <3>4 DEF OwnAt
  <2>3. ASSUME scene.busy = 1, NEW u \in Tasks, tasks'[u].pc # "idle", tasks'[u].op = "LOGOUT"
        PROVE  /\ tasks'[u].pc \in {"unvaultAll", "wipe", "done"} =>
                     keys' = {} /\ Scope' \notin sid'
               /\ tasks'[u].pc = "done" =>
                     /\ vault'[Scope'] = {} /\ invites'[Scope'] = {}
                     /\ \A n \in Nets : /\ accounts'[Scope'][n] = <<>> /\ active'[Scope'][n] = None
                                        /\ removed'[Scope'][n] = {}
    <3>. HIDE DEF r
    <3>1. u = t /\ tasks[t].op = "LOGOUT" /\ tasks[t].pc \in {"logout", "unvaultAll", "wipe"}
      BY <2>2, <2>3
    <3>2. CASE At(t, "logout")
      <4>1. LogoutSession(t)
        BY <1>3, <3>2, StepAt
      <4>2. tasks'[t].pc = "unvaultAll" /\ keys' = {} /\ sid' = sid \ {Scope} /\ UNCHANGED Scope
        BY <4>1, NextLabel DEF LogoutSession, Scope
      <4> QED BY <3>1, <4>2
    <3>3. CASE At(t, "unvaultAll")
      <4>1. ClearVault(t)
        BY <1>3, <3>3, StepAt
      <4>2. tasks'[t].pc = "wipe" /\ UNCHANGED <<keys, sid>> /\ UNCHANGED Scope
        BY <4>1, NextLabel DEF ClearVault, Scope
      <4>3. keys = {} /\ Scope \notin sid
        BY <2>1, <2>3, <3>1, <3>3 DEF LogoutKept, At
      <4> QED BY <3>1, <4>2, <4>3
    <3>4. CASE At(t, "wipe")
      <4>. DEFINE s == Scope
      <4>0. ClearSession(t)
        BY <1>3, <3>4, StepAt
      <4>1. ClearSession(t) /\ s \in Envs /\ UNCHANGED Scope
        BY <1>0, <4>0 DEF ClearSession, Scope
      <4>2. keys' = {} /\ s \notin sid'
        BY <2>1, <2>3, <3>1, <3>4, <4>1 DEF LogoutKept, At, ClearSession
      <4>3. DOMAIN accounts = Envs /\ DOMAIN active = Envs
        BY DEF RowsKept, Tabled
      <4>4. /\ vault' = [vault EXCEPT ![s] = {}] /\ invites' = [invites EXCEPT ![s] = {}]
            /\ accounts' = [accounts EXCEPT ![s] = [n \in Nets |-> <<>>]]
            /\ active' = [active EXCEPT ![s] = [n \in Nets |-> None]]
            /\ removed' = [removed EXCEPT ![s] = [n \in Nets |-> {}]]
        BY <4>1 DEF ClearSession
      <4>5. Scope' = s
        BY <4>1
      <4>. HIDE DEF s
      <4>6. /\ vault'[s] = {} /\ invites'[s] = {}
            /\ \A n \in Nets : accounts'[s][n] = <<>> /\ active'[s][n] = None /\ removed'[s][n] = {}
        BY <1>0, <4>1, <4>3, <4>4
      <4> QED BY <4>2, <4>5, <4>6
    <3> QED BY <3>1, <3>2, <3>3, <3>4 DEF At
  <2> QED BY <1>1, <2>1, <2>3 DEF LogoutKept
<1>4. CASE SwRestart
  <2>1. \A t \in Tasks : tasks'[t].pc = "idle"
    BY <1>4, NoTaskControlled DEF SwRestart
  <2> QED BY <1>1, <2>1 DEF LogoutKept
<1>5. CASE UNCHANGED syncVars
  BY <1>5 DEF syncVars, walletVars, store, LogoutKept, Scope
<1> QED BY <1>2, <1>3, <1>4, <1>5 DEF SyncNext

LEMMA LogoutStarts == SyncInit => LogoutKept
<1>. SUFFICES ASSUME SyncInit PROVE LogoutKept
  OBVIOUS
<1>1. \A t \in Tasks : tasks[t].pc = "idle"
  BY NoTaskControlled DEF SyncInit, Init
<1> QED BY <1>1 DEF SyncInit, Init, LogoutKept

\* A logout that ran alone leaves nothing of its deployment when it answers: no row, seed,
\* key, invite, removed address or session.
THEOREM LogoutClears == UseSpec => LogoutLeavesNothing
<1>1. SyncInit => ControlKept /\ OwnKept /\ RowsKept /\ LogoutKept
  BY ControlStarts, OwnStarts, RowsStart, LogoutStarts
<1>2. ControlKept /\ OwnKept /\ RowsKept /\ LogoutKept /\ [SyncNext]_syncVars
        => (ControlKept /\ OwnKept /\ RowsKept /\ LogoutKept)'
  BY ControlKeeps, OwnKeeps, RowsKeep, LogoutKeeps
<1>3. LogoutKept => \A t \in Tasks :
         scene.busy = 1 /\ tasks[t].op = "LOGOUT" /\ At(t, "done") =>
            /\ keys = {} /\ Scope \notin sid
            /\ vault[Scope] = {} /\ invites[Scope] = {}
            /\ \A n \in Nets : /\ accounts[Scope][n] = <<>> /\ active[Scope][n] = None
                               /\ removed[Scope][n] = {}
  BY DEF LogoutKept, At
<1>4. UseInit => SyncInit
  BY DEF UseInit
<1> QED BY <1>1, <1>2, <1>3, <1>4, StoreOnly, PTL DEF UseSpec, LogoutLeavesNothing

-----------------------------------------------------------------------------
(* Keys and seeds. *)

\* Where a row of an account is.
HasRow(id, e) == \E n \in Nets : id \in IdsOf(accounts[e][n])

\* While one handler runs at a time: a key or a seed has its account, or the handler
\* that deleted the account is about to take it too.
SecretsKept ==
    scene.busy = 1 =>
      /\ \A id \in keys : \/ \E e \in Envs : HasRow(id, e)
                          \/ \E t \in Tasks : /\ tasks[t].pc \in {"unvault", "denylist", "cleared"}
                                              /\ tasks[t].arg = id
      /\ "SW_RESTART" \notin scene.ops => \A e \in Envs : \A id \in vault[e] :
            \/ HasRow(id, e)
            \/ e = Scope /\ \E t \in Tasks : tasks[t].pc = "unvault" /\ tasks[t].arg = id
      /\ \A t \in Tasks : /\ tasks[t].pc = "seed" => tasks[t].row.id \in IdsOf(Bucket)
                          /\ tasks[t].pc \in {"unvaultAll", "wipe"} => keys = {}
                          /\ tasks[t].pc = "wipe" => vault[Scope] = {}

\* Only these steps change the keys, the seeds and the deployment.
LEMMA KeysRest ==
  ASSUME NEW t \in Tasks, StoreStep(t) \/ SyncStep(t)
  PROVE  /\ tasks[t].pc \notin {"write", "match", "cleared", "logout"} => UNCHANGED keys
         /\ tasks[t].pc \notin {"seed", "unvault", "unvaultAll", "wipe"} => UNCHANGED vault
         /\ tasks[t].pc # "health" => UNCHANGED dev
         /\ tasks[t].pc \notin {"write", "activate", "rename", "patch", "delete", "wipe"} =>
               UNCHANGED accounts
<1>1. CASE ReadBefore(t) \/ ApiAnswered(t) \/ ApiFailed(t) \/ CreateRead(t) \/ UpsertRead(t) \/ UpsertWrite(t)
  BY <1>1 DEF At, ReadBefore, ApiAnswered, ApiFailed, CreateRead, UpsertRead, UpsertWrite, store
<1>2. CASE Unremove(t) \/ SaveSeed(t) \/ LoadSeed(t) \/ RegisterKey(t) \/ ReadRows(t)
  BY <1>2 DEF At, Unremove, SaveSeed, LoadSeed, RegisterKey, ReadRows, store
<1>3. CASE WriteActive(t) \/ WriteLabel(t) \/ DeleteRow(t) \/ DeleteSeed(t) \/ DenyAddress(t)
  BY <1>3 DEF At, WriteActive, WriteLabel, DeleteRow, DeleteSeed, DenyAddress
<1>4. CASE DeleteDone(t) \/ MatchSetup(t) \/ LogoutSession(t) \/ ClearVault(t) \/ ClearSession(t)
  BY <1>4 DEF At, DeleteDone, MatchSetup, LogoutSession, ClearVault, ClearSession, store
<1>5. CASE RepairRead(t) \/ PatchRead(t) \/ PatchWrite(t) \/ Done(t) \/ ApplyDeveloperMode(t)
  BY <1>5 DEF At, RepairRead, PatchRead, PatchWrite, Done, ApplyDeveloperMode, store
<1>6. CASE NamingStep(t)
  BY <1>6 DEF NamingStep, PeekSeq, PeekFails, SeedSeq, Ceremony, FinishNamed, ConfirmRead,
              ConfirmWrite, store
<1> QED BY <1>1, <1>2, <1>3, <1>4, <1>5, <1>6, SyncRest DEF StoreStep

\* But for a deletion and a logout, the rows of a store that one handler changes stay.
LEMMA RowsGrow ==
  ASSUME ControlKept, RowsKept, scene.busy = 1, NEW t \in Tasks, StoreStep(t) \/ SyncStep(t),
         tasks[t].pc \notin {"idle", "delete", "wipe"}
  PROVE  /\ \A e \in Envs, n \in Nets : IdsOf(accounts[e][n]) \subseteq IdsOf(accounts'[e][n])
         /\ At(t, "write") => /\ tasks'[t].row.id \in IdsOf(accounts'[Scope][LiveNet])
                              /\ keys' \subseteq keys \cup {tasks'[t].row.id}
<1>. DEFINE s == Scope
<1>0. /\ s \in Envs /\ tasks[t].net \in Nets /\ RowAt(tasks[t]) /\ AloneAt(tasks[t])
      /\ Tabled(accounts) /\ DOMAIN tasks = Tasks /\ Shaped(tasks[t], TaskFields)
  BY WhereWeAre DEF RowsKept, RowAt, ControlKept, Controlled
<1>1. ASSUME NEW list, accounts' = [accounts EXCEPT ![s][tasks[t].net] = list]
      PROVE  \A e \in Envs, n \in Nets :
                accounts'[e][n] = IF e = s /\ n = tasks[t].net THEN list ELSE accounts[e][n]
  <2>. HIDE DEF s
  <2> QED BY <1>0, <1>1 DEF Tabled
<1>2. tasks[t].pc \in Writes => /\ tasks[t].list = accounts[s][tasks[t].net] /\ RowList(tasks[t].list)
                                /\ IsList(tasks[t].list)
  BY <1>0 DEF AloneAt, RowAt, RowList
<1>3. CASE tasks[t].pc \notin {"write", "activate", "rename", "patch"}
  BY <1>3, KeysRest DEF At
<1>4. CASE WriteActive(t) \/ WriteLabel(t)
  <2>1. accounts' = [accounts EXCEPT ![s][tasks[t].net] = tasks[t].list] /\ tasks[t].pc \in {"activate", "rename"}
    BY <1>4 DEF WriteActive, WriteLabel, WriteBucket, At
  <2> QED BY <1>1, <1>2, <2>1 DEF Writes, At
<1>5. CASE UpsertWrite(t)
  <2>. DEFINE row == IF tasks[t].row.id = None THEN [tasks[t].row EXCEPT !.id = nextId] ELSE tasks[t].row
              list == Upserted(tasks[t].list, row)
  <2>1. /\ tasks[t].pc = "write" /\ accounts' = [accounts EXCEPT ![s][tasks[t].net] = list]
        /\ tasks' = [tasks EXCEPT ![t].row = row, ![t].pc = tasks[t].then]
        /\ keys' \subseteq keys \cup {row.id}
    BY <1>5 DEF UpsertWrite, WriteBucket, At
  <2>. HIDE DEF row
  <2>2. IdsOf(list) = IdsOf(tasks[t].list) \cup {row.id}
    BY <1>2, <2>1, UpsertedRows DEF Writes
  <2>3. tasks'[t].row = row
    BY <1>0, <2>1 DEF Shaped, TaskFields
  <2>4. tasks[t].net = LiveNet
    BY <1>0, <2>1 DEF AloneAt, Writes
  <2>. HIDE DEF list
  <2>5. \A e \in Envs, n \in Nets :
           accounts'[e][n] = IF e = s /\ n = tasks[t].net THEN list ELSE accounts[e][n]
    BY <1>1, <2>1
  <2>6. accounts'[s][LiveNet] = list
    BY <1>0, <2>4, <2>5
  <2>7. \A e \in Envs, n \in Nets : IdsOf(accounts[e][n]) \subseteq IdsOf(accounts'[e][n])
    BY <1>2, <2>1, <2>2, <2>5 DEF Writes
  <2> QED BY <2>1, <2>2, <2>3, <2>6, <2>7
<1>6. CASE PatchWrite(t)
  <2>. DEFINE fixed == [WithId(tasks[t].list, tasks[t].row.id) EXCEPT !.addr = tasks[t].row.addr]
              list == Upserted(tasks[t].list, fixed)
  <2>1. tasks[t].pc = "patch" /\ accounts' = [accounts EXCEPT ![s][tasks[t].net] = list]
    BY <1>6 DEF PatchWrite, WriteBucket, At
  <2>. HIDE DEF fixed
  <2>2. IdsOf(list) = IdsOf(tasks[t].list) \cup {fixed.id}
    BY <1>2, <2>1, UpsertedRows DEF Writes
  <2>. HIDE DEF list
  <2> QED BY <1>1, <1>2, <2>1, <2>2 DEF Writes, At
<1>7. /\ At(t, "activate") \/ At(t, "rename") => WriteActive(t) \/ WriteLabel(t)
      /\ At(t, "patch") => PatchWrite(t)
      /\ At(t, "write") => UpsertWrite(t)
  BY StepAt
<1> QED BY <1>3, <1>4, <1>5, <1>6, <1>7 DEF At

\* The labels that only a deletion, a logout or an import comes to.
LEMMA NewLabel ==
  ASSUME ControlKept, OwnKept, NEW t \in Tasks, StoreStep(t) \/ SyncStep(t), Moved(t)
  PROVE  /\ tasks'[t].pc = "seed" => At(t, "write")
         /\ tasks'[t].pc = "unvault" => At(t, "delete")
         /\ tasks'[t].pc = "denylist" => At(t, "unvault")
         /\ tasks'[t].pc = "cleared" => At(t, "delete") \/ At(t, "denylist")
         /\ tasks'[t].pc = "unvaultAll" => At(t, "logout")
         /\ tasks'[t].pc = "wipe" => At(t, "unvaultAll")
<1>. DEFINE r == tasks'[t]
<1>1. OwnAt(tasks[t]) /\ tasks[t].pc # "idle" /\ (r = NoTask \/ r.op = tasks[t].op) /\ Controlled(r)
  BY DEF OwnKept, Moved
<1>2. r.pc \in {"seed", "unvault", "denylist", "cleared", "unvaultAll", "wipe"} =>
         r.op = tasks[t].op /\ MayBeAt(r.op, r.pc)
  BY <1>1, NoTaskControlled DEF Controlled
<1>3. CASE r.pc = "seed"
  <2>1. tasks[t].pc \in {"api", "create", "upsert", "write", "seed", "done"}
    BY <1>1, <1>2, <1>3 DEF MayBeAt, OwnAt
  <2> QED BY <1>3, <2>1, StepAt, NextLabel DEF At
<1>4. CASE r.pc \in {"unvault", "denylist", "cleared"}
  <2>1. /\ tasks[t].op = "DELETE_ACCOUNT"
        /\ tasks[t].pc \in {"read", "delete", "unvault", "denylist", "cleared", "setup", "done"}
    BY <1>1, <1>2, <1>4 DEF MayBeAt, OwnAt
  <2> QED BY <1>4, <2>1, StepAt, NextLabel DEF At
<1>5. CASE r.pc \in {"unvaultAll", "wipe"}
  <2>1. tasks[t].pc \in {"logout", "unvaultAll", "wipe", "done"}
    BY <1>1, <1>2, <1>5 DEF MayBeAt, OwnAt
  <2> QED BY <1>5, <2>1, StepAt, NextLabel DEF At
<1> QED BY <1>3, <1>4, <1>5

LEMMA SecretsStep ==
  ASSUME ControlKept, OwnKept, RowsKept, LogoutKept, SecretsKept, scene.busy = 1,
         NEW t \in Tasks, StoreStep(t) \/ SyncStep(t), Moved(t)
  PROVE  SecretsKept'
<1>. DEFINE r == tasks'[t]
            s == Scope
<1>0. /\ s \in Envs /\ LiveNet \in Nets /\ DOMAIN vault = Envs /\ DOMAIN tasks = Tasks /\ UNCHANGED scene
      /\ tasks' = [tasks EXCEPT ![t] = r] /\ tasks[t].pc # "idle" /\ AloneAt(tasks[t]) /\ RowAt(tasks[t])
  BY WhereWeAre DEF LogoutKept, ControlKept, RowsKept, Moved
<1>1. \A u \in Tasks : u # t => tasks[u].pc = "idle" /\ tasks'[u].pc = "idle"
  BY <1>0 DEF ControlKept, Alone
<1>2. tasks[t].pc # "health" => UNCHANGED <<dev, Scope, LiveNet>>
  BY KeysRest DEF Scope, LiveNet
<1>3. tasks[t].pc \notin {"delete", "wipe"} =>
         \A e \in Envs, n \in Nets : IdsOf(accounts[e][n]) \subseteq IdsOf(accounts'[e][n])
  BY <1>0, RowsGrow
\* What is known of the keys and the seeds before the step.
<1>4. \A id \in keys : \/ \E e \in Envs, n \in Nets : id \in IdsOf(accounts[e][n])
                       \/ tasks[t].pc \in {"unvault", "denylist", "cleared"} /\ id = tasks[t].arg
  BY <1>1 DEF SecretsKept, HasRow
<1>5. "SW_RESTART" \notin scene.ops => \A e \in Envs : \A id \in vault[e] :
         \/ \E n \in Nets : id \in IdsOf(accounts[e][n])
         \/ e = s /\ tasks[t].pc = "unvault" /\ id = tasks[t].arg
  BY <1>1 DEF SecretsKept, HasRow
\* And what has to be known after it.
<1>6. ASSUME \A id \in keys' : \/ \E e \in Envs, n \in Nets : id \in IdsOf(accounts'[e][n])
                               \/ r.pc \in {"unvault", "denylist", "cleared"} /\ id = r.arg,
             "SW_RESTART" \notin scene.ops => \A e \in Envs : \A id \in vault'[e] :
                \/ \E n \in Nets : id \in IdsOf(accounts'[e][n])
                \/ e = Scope' /\ r.pc = "unvault" /\ id = r.arg,
             r.pc = "seed" => r.row.id \in IdsOf(Bucket)',
             r.pc \in {"unvaultAll", "wipe"} => keys' = {},
             r.pc = "wipe" => vault'[Scope'] = {}
      PROVE  SecretsKept'
  <2>. HIDE DEF r
  <2>1. tasks'[t] = r
    BY DEF r
  <2>2. /\ \A id \in keys' : \/ \E e \in Envs : HasRow(id, e)'
                             \/ \E u \in Tasks : /\ tasks'[u].pc \in {"unvault", "denylist", "cleared"}
                                                 /\ tasks'[u].arg = id
    BY <1>6, <2>1 DEF HasRow
  <2>3. "SW_RESTART" \notin scene.ops => \A e \in Envs : \A id \in vault'[e] :
            \/ HasRow(id, e)'
            \/ e = Scope' /\ \E u \in Tasks : tasks'[u].pc = "unvault" /\ tasks'[u].arg = id
    BY <1>6, <2>1 DEF HasRow
  <2>4. \A u \in Tasks : /\ tasks'[u].pc = "seed" => tasks'[u].row.id \in IdsOf(Bucket)'
                         /\ tasks'[u].pc \in {"unvaultAll", "wipe"} => keys' = {}
                         /\ tasks'[u].pc = "wipe" => vault'[Scope'] = {}
    BY <1>1, <1>6, <2>1
  <2> QED BY <1>0, <2>2, <2>3, <2>4 DEF SecretsKept
<1>7. CASE At(t, "write")
  <2>1. UpsertWrite(t) /\ UNCHANGED vault
    BY <1>7, StepAt, KeysRest DEF At
  <2>2. r.row.id \in IdsOf(accounts'[s][LiveNet]) /\ keys' \subseteq keys \cup {r.row.id}
    BY <1>0, <1>7, RowsGrow DEF At
  <2>3. r.pc \in Thens
    BY <2>1, NextLabel DEF ControlKept, Controlled
  <2>4. Bucket' = accounts'[s][LiveNet]
    BY <1>2, <1>7 DEF At, Bucket
  <2>. HIDE DEF r
  <2>5. \A id \in keys' : \E e \in Envs, n \in Nets : id \in IdsOf(accounts'[e][n])
    BY <1>0, <1>3, <1>4, <1>7, <2>2 DEF At
  <2>6. "SW_RESTART" \notin scene.ops => \A e \in Envs : \A id \in vault'[e] :
           \E n \in Nets : id \in IdsOf(accounts'[e][n])
    BY <1>3, <1>5, <1>7, <2>1 DEF At
  <2> QED BY <1>6, <2>2, <2>3, <2>4, <2>5, <2>6 DEF Thens
<1>8. CASE At(t, "match")
  <2>1. RegisterKey(t) /\ UNCHANGED <<vault, accounts>>
    BY <1>8, StepAt, KeysRest DEF At
  <2>2. r.pc = "idle"
    BY <2>1, FinishIs, NoTaskControlled DEF RegisterKey
  <2>3. keys' \subseteq keys \cup IdsOf(Bucket)
    <3>. DEFINE row == WithId(Bucket, tasks[t].arg)
    <3>1. keys' = (IF row # None /\ row.mode = "mnemonic" THEN keys \cup {row.id} ELSE keys)
      BY <2>1 DEF RegisterKey
    <3>2. row # None => row.id \in IdsOf(Bucket)
      <4>1. DOMAIN Bucket \subseteq Nat
        BY <1>0, ListDomain DEF Bucket, RowsKept, RowList
      <4>2. row = None \/ row \in RangeOf(Bucket)
        BY <4>1, FirstIsThere DEF WithId
      <4>. HIDE DEF row
      <4> QED BY <4>2 DEF IdsOf
    <3>. HIDE DEF row
    <3> QED BY <3>1, <3>2
  <2>. HIDE DEF r
  <2>4. \A id \in keys' : \E e \in Envs, n \in Nets : id \in IdsOf(accounts'[e][n])
    BY <1>0, <1>4, <1>8, <2>1, <2>3 DEF At, Bucket
  <2> QED BY <1>5, <1>6, <1>8, <2>1, <2>2, <2>4 DEF At
<1>9. CASE At(t, "cleared")
  <2>1. DeleteDone(t) /\ UNCHANGED <<vault, accounts>>
    BY <1>9, StepAt, KeysRest DEF At
  <2>2. r.pc = "setup" /\ keys' = keys \ {tasks[t].arg}
    BY <2>1, NextLabel DEF DeleteDone
  <2>. HIDE DEF r
  <2> QED BY <1>4, <1>5, <1>6, <1>9, <2>1, <2>2 DEF At
<1>10. CASE At(t, "logout")
  <2>1. LogoutSession(t) /\ UNCHANGED <<vault, accounts>>
    BY <1>10, StepAt, KeysRest DEF At
  <2>2. r.pc = "unvaultAll" /\ keys' = {}
    BY <2>1, NextLabel DEF LogoutSession
  <2>. HIDE DEF r
  <2> QED BY <1>5, <1>6, <1>10, <2>1, <2>2 DEF At
<1>11. CASE At(t, "seed")
  <2>1. SaveSeed(t) /\ UNCHANGED <<keys, accounts>>
    BY <1>11, StepAt, KeysRest DEF At
  <2>2. r.pc = "done"
    BY <2>1, NextLabel
  <2>3. vault' = (IF tasks[t].remember THEN [vault EXCEPT ![s] = @ \cup {tasks[t].row.id}] ELSE vault)
    BY <2>1 DEF SaveSeed
  <2>4. tasks[t].row.id \in IdsOf(accounts[s][LiveNet])
    BY <1>11 DEF SecretsKept, Bucket, At
  <2>. HIDE DEF r, s
  <2>5. \A e \in Envs : \A id \in vault'[e] : id \in vault[e] \/ (e = s /\ id = tasks[t].row.id)
    BY <1>0, <2>3
  <2>6. "SW_RESTART" \notin scene.ops => \A e \in Envs : \A id \in vault'[e] :
           \E n \in Nets : id \in IdsOf(accounts'[e][n])
    BY <1>0, <1>5, <1>11, <2>1, <2>4, <2>5 DEF At
  <2> QED BY <1>4, <1>6, <1>11, <2>1, <2>2, <2>6 DEF At
<1>12. CASE At(t, "unvault")
  <2>1. DeleteSeed(t) /\ UNCHANGED <<keys, accounts>>
    BY <1>12, StepAt, KeysRest DEF At
  <2>2. r.pc = "denylist" /\ r.arg = tasks[t].arg
    BY <2>1, NextLabel, GotoIs DEF DeleteSeed, TaskFields
  <2>3. vault' = [vault EXCEPT ![s] = @ \ {tasks[t].arg}]
    BY <2>1 DEF DeleteSeed, SeedsLeft
  <2>. HIDE DEF r, s
  <2>4. \A e \in Envs : \A id \in vault'[e] : id \in vault[e] /\ (e = s => id # tasks[t].arg)
    BY <1>0, <2>3
  <2> QED BY <1>4, <1>5, <1>6, <2>1, <2>2, <2>4
<1>13. CASE At(t, "unvaultAll")
  <2>1. ClearVault(t) /\ UNCHANGED <<keys, accounts>> /\ UNCHANGED Scope
    BY <1>2, <1>13, StepAt, KeysRest DEF At
  <2>2. r.pc = "wipe" /\ keys = {}
    BY <1>13, <2>1, NextLabel DEF SecretsKept, At
  <2>3. vault' = [vault EXCEPT ![s] = {}]
    BY <2>1 DEF ClearVault
  <2>4. Scope' = s
    BY <2>1
  <2>. HIDE DEF r, s
  <2>5. vault'[s] = {} /\ \A e \in Envs : vault'[e] \subseteq vault[e]
    BY <1>0, <2>3
  <2> QED BY <1>5, <1>6, <1>13, <2>1, <2>2, <2>4, <2>5 DEF At
<1>14. CASE At(t, "wipe")
  <2>1. ClearSession(t) /\ UNCHANGED keys
    BY <1>14, StepAt, KeysRest DEF At
  <2>2. r.pc = "done" /\ keys = {}
    BY <1>14, <2>1, NextLabel DEF SecretsKept, At
  <2>3. /\ vault' = [vault EXCEPT ![s] = {}]
        /\ accounts' = [accounts EXCEPT ![s] = [n \in Nets |-> <<>>]]
    BY <2>1 DEF ClearSession
  <2>4. Tabled(accounts)
    BY DEF RowsKept
  <2>. HIDE DEF r, s
  <2>5. vault'[s] = {} /\ \A e \in Envs : e # s => vault'[e] = vault[e] /\ accounts'[e] = accounts[e]
    BY <1>0, <2>3, <2>4 DEF Tabled
  <2>6. "SW_RESTART" \notin scene.ops => \A e \in Envs : \A id \in vault'[e] :
           \E n \in Nets : id \in IdsOf(accounts'[e][n])
    BY <1>5, <1>14, <2>5 DEF At
  <2> QED BY <1>6, <2>1, <2>2, <2>6
<1>15. CASE At(t, "delete")
  <2>1. DeleteRow(t) /\ UNCHANGED <<keys, vault>>
    BY <1>15, StepAt, KeysRest DEF At
  <2>2. r.pc \in {"cleared", "unvault"}
    BY <2>1, NextLabel
  <2>. DEFINE left == Without(tasks[t].list, tasks[t].arg)
  <2>3. \/ r.pc = "cleared" /\ UNCHANGED accounts
        \/ r.pc = "unvault" /\ r.arg = tasks[t].arg /\ accounts' = [accounts EXCEPT ![s][tasks[t].net] = left]
    <3>. DEFINE gone == WithId(tasks[t].list, tasks[t].arg)
                q == [tasks[t] EXCEPT !.row = gone, !.list = left, !.pc = "unvault"]
    <3>1. \/ Goto(t, "cleared") /\ UNCHANGED accounts
          \/ accounts' = [accounts EXCEPT ![s][tasks[t].net] = left] /\ tasks' = [tasks EXCEPT ![t] = q]
      BY <2>1 DEF DeleteRow, WriteBucket, Goto
    <3>2. q.pc = "unvault" /\ q.arg = tasks[t].arg
      BY DEF ControlKept, Controlled, Shaped, TaskFields
    <3>3. Goto(t, "cleared") => r.pc = "cleared"
      BY GotoIs
    <3>. HIDE DEF q, left
    <3>4. tasks' = [tasks EXCEPT ![t] = q] => r = q
      BY <1>0
    <3>. HIDE DEF r, s
    <3> QED BY <3>1, <3>2, <3>3, <3>4
  <2>4. tasks[t].list = accounts[s][tasks[t].net] /\ tasks[t].net \in Nets /\ Tabled(accounts)
        /\ IsList(tasks[t].list)
    BY <1>0, <1>15 DEF AloneAt, RowAt, Writes, RowsKept, RowList, At
  <2>5. IdsOf(left) = IdsOf(tasks[t].list) \ {tasks[t].arg}
    BY <2>4, WithoutRows
  <2>6. UNCHANGED Scope
    BY <1>2, <1>15 DEF At
  <2>. HIDE DEF left
  <2>7. CASE r.pc = "cleared" /\ UNCHANGED accounts
    <3>. HIDE DEF r
    <3> QED BY <1>4, <1>5, <1>6, <1>15, <2>1, <2>7 DEF At
  <2>8. CASE r.pc = "unvault" /\ r.arg = tasks[t].arg
             /\ accounts' = [accounts EXCEPT ![s][tasks[t].net] = left]
    <3>0. Scope' = s
      BY <2>6
    <3>. HIDE DEF r, s
    <3>1. \A e \in Envs, n \in Nets :
            accounts'[e][n] = IF e = s /\ n = tasks[t].net THEN left ELSE accounts[e][n]
      BY <1>0, <2>4, <2>8 DEF Tabled
    <3>2. \A e \in Envs, n \in Nets : \A id \in IdsOf(accounts[e][n]) :
             id \in IdsOf(accounts'[e][n]) \/ (e = s /\ id = tasks[t].arg)
      BY <2>4, <2>5, <3>1
    <3>3. \A id \in keys' : \/ \E e \in Envs, n \in Nets : id \in IdsOf(accounts'[e][n])
                            \/ r.pc \in {"unvault", "denylist", "cleared"} /\ id = r.arg
      BY <1>4, <1>15, <2>1, <2>8, <3>2 DEF At
    <3>4. "SW_RESTART" \notin scene.ops => \A e \in Envs : \A id \in vault'[e] :
             \/ \E n \in Nets : id \in IdsOf(accounts'[e][n])
             \/ e = Scope' /\ r.pc = "unvault" /\ id = r.arg
      BY <1>5, <1>15, <2>1, <2>8, <3>0, <3>2 DEF At
    <3> QED BY <1>6, <2>8, <3>3, <3>4
  <2> QED BY <2>3, <2>7, <2>8
<1>16. CASE At(t, "denylist")
  <2>1. DenyAddress(t) /\ UNCHANGED <<keys, vault, accounts>>
    BY <1>16, StepAt, KeysRest DEF At
  <2>2. r.pc = "cleared" /\ r.arg = tasks[t].arg
    BY <2>1, NextLabel, GotoIs DEF DenyAddress, TaskFields
  <2>. HIDE DEF r
  <2> QED BY <1>4, <1>5, <1>6, <1>16, <2>1, <2>2 DEF At
<1>17. CASE tasks[t].pc \notin {"write", "match", "cleared", "logout", "seed", "unvault", "unvaultAll",
                                "wipe", "delete", "denylist"}
  <2>1. UNCHANGED <<keys, vault>>
    BY <1>17, KeysRest
  <2>2. r.pc \notin {"seed", "unvault", "denylist", "cleared", "unvaultAll", "wipe"}
    BY <1>17, NewLabel DEF At
  <2>. HIDE DEF r
  <2> QED BY <1>3, <1>4, <1>5, <1>6, <1>17, <2>1, <2>2
<1> QED BY <1>7, <1>8, <1>9, <1>10, <1>11, <1>12, <1>13, <1>14, <1>15, <1>16, <1>17 DEF At

LEMMA SecretsKeep ==
  ControlKept /\ OwnKept /\ RowsKept /\ LogoutKept /\ SecretsKept /\ [SyncNext]_syncVars => SecretsKept'
<1>. SUFFICES ASSUME ControlKept, OwnKept, RowsKept, LogoutKept, SecretsKept, [SyncNext]_syncVars
              PROVE  SecretsKept'
  OBVIOUS
<1>0. ControlKept' /\ DOMAIN tasks = Tasks
  BY ControlKeeps DEF ControlKept
<1>1. ASSUME NEW t \in Tasks, Handler(t) \/ SyncHandler(t) PROVE SecretsKept'
  <2>1. PICK op, arg : \E label \in FirstLabels : Start(t, op, label, arg)
    BY <1>1, StartsSo
  <2>2. /\ tasks' = [tasks EXCEPT ![t] = tasks'[t]] /\ tasks'[t].pc \in FirstLabels
        /\ tasks[t].pc = "idle" /\ UNCHANGED <<scene, dev, accounts, vault, keys>>
    BY <2>1, StartIs, NoTaskControlled DEF store
  <2>3. UNCHANGED <<Scope, Bucket>>
    BY <2>2 DEF Scope, LiveNet, Bucket
  <2>4. \A u \in Tasks : \/ tasks'[u] = tasks[u]
                         \/ tasks'[u].pc \in FirstLabels /\ tasks[u].pc = "idle"
    BY <1>0, <2>2
  <2> QED BY <2>2, <2>3, <2>4 DEF SecretsKept, HasRow, FirstLabels
<1>2. ASSUME NEW t \in Tasks, StoreStep(t) \/ SyncStep(t) PROVE SecretsKept'
  <2>1. Moved(t)
    BY <1>2, StoreMoves, SyncMoves
  <2>2. CASE scene.busy = 1
    BY <1>2, <2>1, <2>2, SecretsStep
  <2>3. CASE scene.busy # 1
    BY <2>1, <2>3 DEF Moved, SecretsKept
  <2> QED BY <2>2, <2>3
<1>3. CASE SwRestart
  <2>1. /\ \A t \in Tasks : tasks'[t].pc = "idle"
        /\ keys' = {} /\ UNCHANGED scene /\ "SW_RESTART" \in scene.ops
    BY <1>3, NoTaskControlled DEF SwRestart
  <2> QED BY <2>1 DEF SecretsKept
<1>4. CASE UNCHANGED syncVars
  BY <1>4 DEF syncVars, walletVars, store, SecretsKept, HasRow, Scope, LiveNet, Bucket
<1> QED BY <1>1, <1>2, <1>3, <1>4 DEF SyncNext

\* While one handler runs at a time: between them, every key in memory and every stored
\* seed has its account (a seed, unless the service worker may be stopped).
THEOREM SecretsHaveTheirAccount == UseSpec => []SecretsFollowAccounts
<1>1. SyncInit => ControlKept /\ OwnKept /\ RowsKept /\ LogoutKept /\ SecretsKept
  <2>1. SyncInit => SecretsKept
    <3>. SUFFICES ASSUME SyncInit PROVE SecretsKept
      OBVIOUS
    <3>1. (\A t \in Tasks : tasks[t].pc = "idle") /\ keys = {} /\ vault = [e \in Envs |-> {}]
      BY NoTaskControlled DEF SyncInit, Init
    <3> QED BY <3>1 DEF SecretsKept
  <2> QED BY <2>1, ControlStarts, OwnStarts, RowsStart, LogoutStarts
<1>2. ControlKept /\ OwnKept /\ RowsKept /\ LogoutKept /\ SecretsKept /\ [SyncNext]_syncVars
        => (ControlKept /\ OwnKept /\ RowsKept /\ LogoutKept /\ SecretsKept)'
  BY ControlKeeps, OwnKeeps, RowsKeep, LogoutKeeps, SecretsKeep
<1>3. SecretsKept => SecretsFollowAccounts
  <2>. SUFFICES ASSUME SecretsKept, scene.busy = 1, Idle PROVE SecretsFollowAccounts
    BY DEF SecretsFollowAccounts
  <2>1. \A t \in Tasks : tasks[t].pc = "idle"
    BY DEF Idle, Busy
  <2>2. \A id \in keys : \E e \in Envs, n \in Nets : \E a \in RangeOf(accounts[e][n]) : a.id = id
    BY <2>1 DEF SecretsKept, HasRow, IdsOf
  <2>3. "SW_RESTART" \notin scene.ops =>
          \A e \in Envs : \A id \in vault[e] : \E n \in Nets : id \in IdsOf(accounts[e][n])
    BY <2>1 DEF SecretsKept, HasRow
  <2>4. keys \subseteq {a.id : a \in AllRows}
    BY <2>2 DEF AllRows
  <2>5. "SW_RESTART" \notin scene.ops =>
          \A e \in Envs : vault[e] \subseteq UNION {IdsOf(accounts[e][n]) : n \in Nets}
    BY <2>3
  <2> QED BY <2>4, <2>5 DEF SecretsFollowAccounts
<1>4. UseInit => SyncInit
  BY DEF UseInit
<1> QED BY <1>1, <1>2, <1>3, <1>4, StoreOnly, PTL DEF UseSpec
=============================================================================
