---------------------------- MODULE WalletStore ----------------------------
(***************************************************************************)
(* The durable wallet data of the extension and the background handlers    *)
(* that change it (background/storage.ts, accounts/handlers.ts): the       *)
(* accounts of a deployment, the active one, the addresses the user        *)
(* removed, the encrypted seeds, the signing keys held in memory and the   *)
(* session cookie of the API.                                              *)
(*                                                                         *)
(* A handler awaits chrome.storage and the API, and nothing serializes     *)
(* handlers: each is a task whose steps interleave with the others'. A     *)
(* step is one storage access (a read with the keys it resolves, or a      *)
(* write), one API answer, or the code between them.                       *)
(***************************************************************************)
EXTENDS Naturals, Sequences, FiniteSets

CONSTANTS
    Tasks,       \* slots for handlers that are running
    MaxAccounts, \* bound: rows created in a behaviour, at most
    MaxSeq,      \* bound: passkey names handed out
    Creds,       \* passkey credentials
    Seeds,       \* G-addresses of seed accounts
    Contracts,   \* smart account addresses
    FactoryOf,   \* the address the API answers for a signer
    Hinted,      \* the funded address a page may pass for a signer, or None
    None,
    Scenes       \* operations, signers and rows that occur together: [ops, by, busy, max]

Signers == Creds \cup Seeds

ASSUME WalletAssumption ==
    /\ IsFiniteSet(Tasks) /\ MaxSeq \in Nat
    /\ FactoryOf \in [Signers -> Contracts] /\ Hinted \in [Creds -> Contracts \cup {None}]
    /\ None \notin Signers \cup Contracts \cup Nat \cup STRING
    /\ \A s \in Scenes : s.max \in Nat /\ s.busy \in Nat
Ids     == 1..MaxAccounts
Envs    == {"prod", "dev"}
Nets    == {"mainnet", "testnet"}

\* A stored row; data is the credential whose key data the row holds.
Rows == [id: Ids, mode: {"passkey", "mnemonic", "multisig"}, addr: Contracts,
         cred: Creds \cup {None}, data: Creds \cup {None},
         g: Seeds \cup {None}]

VARIABLES
    scene,     \* the operations of this behaviour
    dev,       \* latch.developerMode
    accounts,  \* accounts.byNetwork of each deployment
    active,    \* activeAccountId.byNetwork
    removed,   \* removedAccounts: addresses the user deleted here
    setup,     \* setupState.byNetwork
    vault,     \* accounts whose encrypted seed is stored
    keys,      \* accounts whose signing key is in memory
    sid,       \* deployments that hold the API's session cookie
    displaced, \* factory address -> funded address it displaced
    seq,       \* highest passkey number confirmed, or None before the first read
    nextId,
    invites,   \* pending multisig invites of each deployment
    meta,      \* multisigDraftMeta: the invite token of the draft created last, or None
    named,     \* ghost: the passkeys made, each with its number and the numbers that were
               \* retired when the number was taken (made); the numbers retired
    tasks

store == <<accounts, active, removed, setup, vault>>
walletVars == <<scene, dev, accounts, active, removed, setup, vault, keys, sid,
           displaced, seq, nextId, invites, meta, named, tasks>>

NoTask == [op |-> None, pc |-> "idle", arg |-> None, net |-> "mainnet",
           list |-> <<>>, act |-> None, row |-> None, then |-> "done",
           remember |-> FALSE, mine |-> <<>>, inv |-> {}, gone |-> {}, todo |-> {},
           made |-> <<>>, hit |-> None, bag |-> {}, next |-> "done", phase |-> "wallets",
           ret |-> "done", draft |-> None, count |-> 0, before |-> {}]

Scope   == IF dev THEN "dev" ELSE "prod"
LiveNet == IF dev THEN "testnet" ELSE "mainnet"
Bucket  == accounts[Scope][LiveNet]

RangeOf(s)  == {s[i] : i \in DOMAIN s}
IdsOf(list) == {r.id : r \in RangeOf(list)}
Addrs(list) == {r.addr : r \in RangeOf(list)}
\* The first row of a list that is in a set, and all that are, in their order.
FirstOf(list, rows) ==
    LET at == {i \in DOMAIN list : list[i] \in rows}
    IN IF at = {} THEN None ELSE list[CHOOSE i \in at : \A j \in at : i <= j]
Those(list, rows) ==
    LET first[i \in 0..Len(list)] ==
            IF i = 0 THEN <<>>
            ELSE IF list[i] \in rows THEN Append(first[i - 1], list[i]) ELSE first[i - 1]
    IN first[Len(list)]
WithId(list, id) == FirstOf(list, {r \in RangeOf(list) : r.id = id})

Busy == {t \in Tasks : tasks[t].pc # "idle"}
Idle == Busy = {}
At(t, label) == tasks[t].pc = label
Goto(t, label) == tasks' = [tasks EXCEPT ![t].pc = label]
Finish(t) == tasks' = [tasks EXCEPT ![t] = NoTask]

\* The row that createAccount takes for the one it is asked to create.
Existing(list, r) ==
    LET Match(a) == /\ a.mode = r.mode
                    /\ \/ a.addr = r.addr
                       \/ r.mode = "passkey"  /\ r.cred # None /\ a.cred = r.cred
                       \/ r.mode = "mnemonic" /\ r.g # None /\ a.g = r.g
    IN FirstOf(list, {a \in RangeOf(list) : Match(a)})

Full(r) == r.cred # None /\ r.data # None
Or(x, y) == IF x # None THEN x ELSE y

\* A complete (credential, key data) pair replaces the stored one as a pair;
\* an incomplete one never breaks up a complete pair.
FieldsOf(r, old) ==
    [cred |-> Or(r.cred, IF old = None THEN None ELSE old.cred),
     data |-> Or(r.data, IF old = None THEN None ELSE old.data)]
PairOf(r, old) ==
    IF old = None \/ Full(r) \/ r.mode # "passkey" \/ ~Full(old)
    THEN FieldsOf(r, old)
    ELSE [cred |-> old.cred, data |-> old.data]

\* Variant: the address of the answer replaces the funded one.
AddrGiven(r, old) == r.addr

\* The address of an existing passkey account is never replaced.
AddrOf(r, old) == IF old # None /\ r.mode = "passkey" THEN old.addr ELSE r.addr

Merged(r, old) ==
    [r EXCEPT !.id = IF old = None THEN None ELSE old.id,
              !.addr = AddrOf(r, old),
              !.cred = PairOf(r, old).cred,
              !.data = PairOf(r, old).data]

NewRow(mode, addr, cred, data, g) ==
    [id |-> None, mode |-> mode, addr |-> addr, cred |-> cred, data |-> data, g |-> g]
-----------------------------------------------------------------------------
Init ==
    /\ scene \in Scenes
    /\ dev = FALSE
    /\ accounts = [e \in Envs |-> [n \in Nets |-> <<>>]]
    /\ active = [e \in Envs |-> [n \in Nets |-> None]]
    /\ removed = [e \in Envs |-> [n \in Nets |-> {}]]
    /\ setup = [e \in Envs |-> [n \in Nets |-> "new"]]
    /\ vault = [e \in Envs |-> {}]
    /\ keys = {}
    /\ sid = {}
    /\ displaced = [c \in Contracts |-> None]
    /\ seq = None
    /\ nextId = 1
    /\ invites = [e \in Envs |-> {}]
    /\ meta = [e \in Envs |-> None]
    /\ named = [made |-> {}, retired |-> {}]
    /\ tasks = [t \in Tasks |-> NoTask]

\* A message arrives and its handler starts at label.
Start(t, op, label, arg) ==
    /\ tasks[t] = NoTask
    /\ op \in scene.ops
    /\ Cardinality(Busy) < scene.busy
    /\ tasks' = [tasks EXCEPT ![t] = [NoTask EXCEPT !.op = op, !.pc = label, !.arg = arg]]
    /\ UNCHANGED <<scene, dev, store, keys, sid, displaced, seq, nextId, invites, meta, named>>

\* The bound on rows: a handler starts only if all it may create fits.
RoomFor(n) == nextId + Cardinality(Busy) + n <= scene.max + 1

CreateOrConnect(t) ==
    \E c \in Creds \cap scene.by : RoomFor(1) /\ Start(t, "CREATE_OR_CONNECT_PASSKEY", "before", c)
Register(t) ==
    \E c \in Creds \cap scene.by : RoomFor(1) /\ Start(t, "PASSKEY_REG_FINISH", "api", c)
LogIn(t) ==
    \E c \in Creds \cap scene.by : RoomFor(1) /\ Start(t, "PASSKEY_AUTH_FINISH", "api", c)
ImportSeed(t) ==
    \E g \in Seeds \cap scene.by : RoomFor(1) /\ Start(t, "IMPORT_MNEMONIC_ACCOUNT", "api", g)
\* The screens offer the rows that are stored.
OnRow(t, op, label) == \E id \in IdsOf(Bucket) : Start(t, op, label, id)
Unlock(t)    == OnRow(t, "UNLOCK_MNEMONIC_VAULT", "unlock")
SetActive(t) == OnRow(t, "SET_ACTIVE_ACCOUNT", "read")
Rename(t)    == OnRow(t, "RENAME_ACCOUNT", "read")
Delete(t)    == OnRow(t, "DELETE_ACCOUNT", "read")
Logout(t)    == Start(t, "LOGOUT", "logout", None)
GetAccounts(t) == Start(t, "GET_ACCOUNTS", "setup", None)
SetDeveloperMode(t) == Start(t, "SET_DEVELOPER_MODE", "health", ~dev)
NextSeq(t)   == (seq # None => seq < MaxSeq) /\ Start(t, "PASSKEY_CONFIRM_SEQ", "peek", None)
-----------------------------------------------------------------------------
\* readAccountsBucket: the live network, its scope and the bucket.
ReadBucket(t, label) ==
    tasks' = [tasks EXCEPT ![t].net = LiveNet, ![t].list = Bucket,
                           ![t].act = active[Scope][LiveNet], ![t].pc = label]

\* writeAccountsBucket: the scope is resolved again, the list written whole.
WriteBucket(net, list, act) ==
    /\ accounts' = [accounts EXCEPT ![Scope][net] = list]
    /\ active' = [active EXCEPT ![Scope][net] = act]

\* The address a page or a row already has for this credential.
Kept(t) ==
    LET c == tasks[t].arg
        Match(a) == a.mode = "passkey" /\ (a.cred = c \/ a.addr = Hinted[c])
        old == FirstOf(tasks[t].list, {a \in RangeOf(tasks[t].list) : Match(a)})
    IN IF old = None THEN Hinted[c] ELSE old.addr

ReadBefore(t) ==
    /\ At(t, "before")
    /\ ReadBucket(t, "api")
    /\ UNCHANGED <<scene, dev, store, keys, sid, displaced, seq, nextId, invites, meta, named>>

\* The API answered: the row to store is known, and the session cookie is set.
ApiAnswered(t) ==
    LET arg == tasks[t].arg
        op == tasks[t].op
    IN  /\ At(t, "api")
        /\ sid' = sid \cup {Scope}
        /\ \/ /\ op = "CREATE_OR_CONNECT_PASSKEY"
              /\ displaced' = IF Kept(t) \in {None, FactoryOf[arg]} THEN displaced
                              ELSE [displaced EXCEPT ![FactoryOf[arg]] = Kept(t)]
              /\ tasks' = [tasks EXCEPT ![t].pc = "create",
                    ![t].row = NewRow("passkey", Or(Kept(t), FactoryOf[arg]), arg, arg, None)]
           \/ /\ op \in {"PASSKEY_REG_FINISH", "PASSKEY_AUTH_FINISH"}
              \* key data may be missing from the answer
              /\ \E data \in {arg, None} : tasks' = [tasks EXCEPT ![t].pc = "create",
                    ![t].row = NewRow("passkey", FactoryOf[arg], arg, data, None),
                    ![t].then = IF op = "PASSKEY_AUTH_FINISH" THEN "unremove" ELSE "done"]
              /\ UNCHANGED displaced
           \/ /\ op = "IMPORT_MNEMONIC_ACCOUNT"
              /\ \E remember \in BOOLEAN : tasks' = [tasks EXCEPT ![t].pc = "create",
                    ![t].row = NewRow("mnemonic", FactoryOf[arg], None, None, arg),
                    ![t].remember = remember,
                    ![t].then = "seed"]
              /\ UNCHANGED displaced
        /\ UNCHANGED <<scene, dev, store, keys, seq, nextId, invites, meta, named>>

ApiFailed(t) ==
    /\ At(t, "api")
    /\ Finish(t)
    /\ UNCHANGED <<scene, dev, store, keys, sid, displaced, seq, nextId, invites, meta, named>>

\* createAccount reads the rows to find the one to merge with ...
CreateRead(t) ==
    /\ At(t, "create")
    /\ tasks' = [tasks EXCEPT ![t].row = Merged(@, Existing(Bucket, @)), ![t].pc = "upsert"]
    /\ UNCHANGED <<scene, dev, store, keys, sid, displaced, seq, nextId, invites, meta, named>>

\* ... and upsertAccount reads them again ...
UpsertRead(t) ==
    /\ At(t, "upsert")
    /\ ReadBucket(t, "write")
    /\ UNCHANGED <<scene, dev, store, keys, sid, displaced, seq, nextId, invites, meta, named>>

Upserted(list, r) ==
    IF r.id \in IdsOf(list) THEN [i \in DOMAIN list |-> IF list[i].id = r.id THEN r ELSE list[i]]
    ELSE Append(list, r)

\* ... and writes the whole list. IMPORT_MNEMONIC_ACCOUNT registers the key
\* in the continuation of this write.
UpsertWrite(t) ==
    LET T == tasks[t]
        row == IF T.row.id = None THEN [T.row EXCEPT !.id = nextId] ELSE T.row
    IN  /\ At(t, "write")
        /\ WriteBucket(T.net, Upserted(T.list, row), Or(T.act, row.id))
        /\ nextId' = IF T.row.id = None THEN nextId + 1 ELSE nextId
        /\ keys' = IF T.then = "seed" THEN keys \cup {row.id} ELSE keys
        /\ tasks' = [tasks EXCEPT ![t].row = row, ![t].pc = T.then]
        /\ UNCHANGED <<scene, dev, removed, setup, vault, sid, displaced, seq, invites, meta, named>>

\* PASSKEY_AUTH_FINISH: signing in again takes the address off the list of
\* removed ones.
Unremove(t) ==
    /\ At(t, "unremove")
    /\ removed' = [removed EXCEPT ![Scope][LiveNet] = @ \ {FactoryOf[tasks[t].arg]}]
    /\ Goto(t, "done")
    /\ UNCHANGED <<scene, dev, accounts, active, setup, vault, keys, sid, displaced, seq,
                   nextId, invites, meta, named>>

\* IMPORT_MNEMONIC_ACCOUNT: the seed is encrypted, then stored.
SaveSeed(t) ==
    /\ At(t, "seed")
    /\ vault' = IF tasks[t].remember THEN [vault EXCEPT ![Scope] = @ \cup {tasks[t].row.id}]
                ELSE vault
    /\ Goto(t, "done")
    /\ UNCHANGED <<scene, dev, accounts, active, removed, setup, keys, sid, displaced, seq,
                   nextId, invites, meta, named>>

\* UNLOCK_MNEMONIC_VAULT: the record is decrypted with the password ...
LoadSeed(t) ==
    /\ At(t, "unlock")
    /\ \/ tasks[t].arg \in vault[Scope] /\ Goto(t, "match")
       \/ Finish(t)   \* no record, or the wrong password
    /\ UNCHANGED <<scene, dev, store, keys, sid, displaced, seq, nextId, invites, meta, named>>

\* ... and the account must still be there when the key is registered.
RegisterKey(t) ==
    LET row == WithId(Bucket, tasks[t].arg)
    IN  /\ At(t, "match")
        /\ keys' = IF row # None /\ row.mode = "mnemonic" THEN keys \cup {row.id} ELSE keys
        /\ Finish(t)
        /\ UNCHANGED <<scene, dev, store, sid, displaced, seq, nextId, invites, meta, named>>

ReadRows(t) ==
    /\ At(t, "read")
    /\ ReadBucket(t, CASE tasks[t].op = "DELETE_ACCOUNT" -> "delete"
                       [] tasks[t].op = "RENAME_ACCOUNT" -> "rename"
                       [] OTHER -> "activate")
    /\ UNCHANGED <<scene, dev, store, keys, sid, displaced, seq, nextId, invites, meta, named>>

WriteActive(t) ==
    /\ At(t, "activate")
    /\ WriteBucket(tasks[t].net, tasks[t].list, tasks[t].arg)
    /\ Goto(t, "done")
    /\ UNCHANGED <<scene, dev, removed, setup, vault, keys, sid, displaced, seq, nextId,
                   invites, meta, named>>

\* The label is not modelled: what matters is that the list is written whole.
WriteLabel(t) ==
    /\ At(t, "rename")
    /\ WriteBucket(tasks[t].net, tasks[t].list, tasks[t].act)
    /\ Goto(t, "done")
    /\ UNCHANGED <<scene, dev, removed, setup, vault, keys, sid, displaced, seq, nextId,
                   invites, meta, named>>
-----------------------------------------------------------------------------
Without(list, id) == Those(list, {r \in RangeOf(list) : r.id # id})
FirstId(list) == IF list = <<>> THEN None ELSE list[1].id
\* The active account after the row of gone is taken off the list.
ActiveAfter(act, gone, left) == IF act \in {gone, None} THEN FirstId(left) ELSE act
\* Variant: the seed outlives its account.
SeedsKept(seeds, gone) == seeds

SeedsLeft(seeds, gone) == seeds \ {gone}

\* deleteAccount: the row goes first and the active account moves on ...
DeleteRow(t) ==
    LET T == tasks[t]
        left == Without(T.list, T.arg)
    IN  /\ At(t, "delete")
        /\ \/ /\ T.arg \notin IdsOf(T.list)
              /\ tasks' = [tasks EXCEPT ![t].pc = "cleared"]
              /\ UNCHANGED <<accounts, active>>
           \/ /\ T.arg \in IdsOf(T.list)
              /\ WriteBucket(T.net, left, ActiveAfter(T.act, T.arg, left))
              /\ tasks' = [tasks EXCEPT ![t].row = WithId(T.list, T.arg), ![t].list = left,
                                        ![t].pc = "unvault"]
        /\ UNCHANGED <<scene, dev, removed, setup, vault, keys, sid, displaced, seq, nextId,
                       invites, meta, named>>

\* ... then its seed (and its activity, which is not modelled) ...
DeleteSeed(t) ==
    /\ At(t, "unvault")
    /\ vault' = [vault EXCEPT ![Scope] = SeedsLeft(@, tasks[t].arg)]
    /\ Goto(t, "denylist")
    /\ UNCHANGED <<scene, dev, accounts, active, removed, setup, keys, sid, displaced, seq,
                   nextId, invites, meta, named>>

\* ... then its address joins the removed ones, unless another row has it,
\* and setup starts over when no row is left.
DenyAddress(t) ==
    LET T == tasks[t]
    IN  /\ At(t, "denylist")
        /\ removed' = IF T.row.addr \in Addrs(T.list) THEN removed
                      ELSE [removed EXCEPT ![Scope][T.net] = @ \cup {T.row.addr}]
        /\ setup' = IF T.list = <<>> THEN [setup EXCEPT ![Scope][T.net] = "new"] ELSE setup
        /\ Goto(t, "cleared")
        /\ UNCHANGED <<scene, dev, accounts, active, vault, keys, sid, displaced, seq, nextId,
                       invites, meta, named>>

\* The handler forgets the key, and the API session with the last account.
DeleteDone(t) ==
    LET T == tasks[t]
    IN  /\ At(t, "cleared")
        /\ keys' = keys \ {T.arg}
        /\ sid' = IF T.row # None /\ T.list = <<>> THEN sid \ {Scope} ELSE sid
        /\ Goto(t, "setup")
        /\ UNCHANGED <<scene, dev, store, displaced, seq, nextId, invites, meta, named>>

\* ensureSetupStateMatchesAccounts: stored rows decide whether setup is done.
\* GET_ACCOUNTS answers and goes on to repair displaced addresses.
MatchSetup(t) ==
    /\ At(t, "setup")
    /\ setup' = IF Bucket = <<>> THEN setup ELSE [setup EXCEPT ![Scope][LiveNet] = "has_account"]
    /\ tasks' = [tasks EXCEPT ![t].pc = IF tasks[t].op = "GET_ACCOUNTS" THEN "repair" ELSE "done",
                              ![t].net = "testnet"]
    /\ UNCHANGED <<scene, dev, accounts, active, removed, vault, keys, sid, displaced, seq,
                   nextId, invites, meta, named>>

\* Variant: the API session survives the logout.
LogoutKeepsCookie(t) ==
    /\ At(t, "logout")
    /\ keys' = {}
    /\ Goto(t, "unvaultAll")
    /\ UNCHANGED <<scene, dev, store, sid, displaced, seq, nextId, invites, meta, named>>

\* LOGOUT: keys and session first, then the seeds, then the rows.
LogoutSession(t) ==
    /\ At(t, "logout")
    /\ keys' = {}
    /\ sid' = sid \ {Scope}
    /\ Goto(t, "unvaultAll")
    /\ UNCHANGED <<scene, dev, store, displaced, seq, nextId, invites, meta, named>>

ClearVault(t) ==
    /\ At(t, "unvaultAll")
    /\ vault' = [vault EXCEPT ![Scope] = {}]
    /\ Goto(t, "wipe")
    /\ UNCHANGED <<scene, dev, accounts, active, removed, setup, keys, sid, displaced, seq,
                   nextId, invites, meta, named>>

ClearSession(t) ==
    /\ At(t, "wipe")
    /\ accounts' = [accounts EXCEPT ![Scope] = [n \in Nets |-> <<>>]]
    /\ active' = [active EXCEPT ![Scope] = [n \in Nets |-> None]]
    /\ removed' = [removed EXCEPT ![Scope] = [n \in Nets |-> {}]]
    /\ setup' = [setup EXCEPT ![Scope] = [n \in Nets |-> "new"]]
    /\ vault' = [vault EXCEPT ![Scope] = {}]
    /\ invites' = [invites EXCEPT ![Scope] = {}]
    /\ meta' = [meta EXCEPT ![Scope] = None]
    /\ Goto(t, "done")
    /\ UNCHANGED <<scene, dev, keys, sid, displaced, seq, nextId, named>>
-----------------------------------------------------------------------------
\* repairDisplacedPasskeySmartAccountAddresses: in each bucket, the passkey rows
\* on a displaced factory address go back to the funded one.
Displaced(r) == r.mode = "passkey" /\ displaced[r.addr] \notin {None, r.addr}

RepairRead(t) ==
    LET bucket == accounts[Scope][tasks[t].net]
        bad == Those(bucket, {r \in RangeOf(bucket) : Displaced(r)})
    IN  /\ At(t, "repair")
        /\ tasks' = [tasks EXCEPT ![t].pc = "repairNext",
              ![t].mine = [i \in DOMAIN bad |-> [bad[i] EXCEPT !.addr = displaced[@]]]]
        /\ UNCHANGED <<scene, dev, store, keys, sid, displaced, seq, nextId, invites, meta, named>>

\* The row is still there, and not repaired meanwhile.
Patchable(list, r) == \E a \in RangeOf(list) : a.id = r.id /\ a.addr # r.addr

\* patchAccountSmartAccountAddress: the bucket is read again ...
PatchRead(t) ==
    LET T == tasks[t]
        now == accounts[Scope][T.net]
    IN  /\ At(t, "repairNext")
        /\ tasks' = IF T.mine # <<>>
                    THEN [tasks EXCEPT ![t].list = now, ![t].act = active[Scope][T.net],
                              ![t].row = T.mine[1], ![t].mine = Tail(@),
                              ![t].pc = IF Patchable(now, T.mine[1]) THEN "patch" ELSE @]
                    ELSE IF T.net = "testnet"
                    THEN [tasks EXCEPT ![t].net = "mainnet", ![t].pc = "repair"]
                    ELSE [tasks EXCEPT ![t].pc = "done"]
        /\ UNCHANGED <<scene, dev, store, keys, sid, displaced, seq, nextId, invites, meta, named>>

\* ... and written whole.
PatchWrite(t) ==
    LET T == tasks[t]
        fixed == [WithId(T.list, T.row.id) EXCEPT !.addr = T.row.addr]
    IN  /\ At(t, "patch")
        /\ WriteBucket(T.net, Upserted(T.list, fixed), T.act)
        /\ Goto(t, "repairNext")
        /\ UNCHANGED <<scene, dev, removed, setup, vault, keys, sid, displaced, seq, nextId,
                       invites, meta, named>>

\* Variant: a number is skipped.
PeekSkips(t) ==
    /\ At(t, "peek") /\ seq # None
    /\ tasks' = [tasks EXCEPT ![t].arg = seq + 2, ![t].before = named.retired, ![t].pc = "ceremony"]
    /\ UNCHANGED <<scene, dev, store, keys, sid, displaced, seq, nextId, invites, meta, named>>

\* The passkey accounts of both deployments, by which a missing counter starts.
PasskeyRows ==
    UNION {{r \in RangeOf(accounts[e][n]) : r.mode = "passkey"} : e \in Envs, n \in Nets}

\* PASSKEY_NEXT_SEQ peeks at the counter, which readPasskeySeq seeds if it is missing.
PeekSeq(t) ==
    /\ At(t, "peek")
    /\ \/ /\ seq # None
          /\ tasks' = [tasks EXCEPT ![t].arg = seq + 1, ![t].before = named.retired,
                                    ![t].pc = "ceremony"]
       \/ /\ seq = None
          /\ tasks' = [tasks EXCEPT ![t].count = Cardinality(PasskeyRows), ![t].pc = "seeding"]
    /\ UNCHANGED <<scene, dev, store, keys, sid, displaced, seq, nextId, invites, meta, named>>

\* reservePasskeyName without an answer: the number follows the passkeys on the screen's list of
\* accounts, which may be old or missing, so at most as many as rows were ever stored.
PeekFails(t) ==
    /\ At(t, "peek")
    /\ \E n \in 1..nextId : tasks' = [tasks EXCEPT ![t].arg = n, ![t].pc = "ceremony"]
    /\ UNCHANGED <<scene, dev, store, keys, sid, displaced, seq, nextId, invites, meta, named>>

\* No other task has read the counter and not yet written it.
WritesAlone(t) == \A u \in Tasks \ {t} : tasks[u].pc \notin {"seeding", "confirmWrite"}

\* The number of t is on record, and no other task is about to write what it read before.
Retire(t) ==
    named' = IF WritesAlone(t) THEN [named EXCEPT !.retired = @ \cup {tasks[t].arg}] ELSE named

\* confirmPasskeySeq, the counter being read: a number it has passed is not written.
Compare(t, now) ==
    IF tasks[t].arg > now THEN Goto(t, "confirmWrite") /\ UNCHANGED named
                          ELSE Goto(t, "done") /\ Retire(t)

\* readPasskeySeq writes the missing counter; the peek or the confirmation goes on with it.
SeedSeq(t) ==
    LET T == tasks[t]
    IN  /\ At(t, "seeding")
        /\ seq' = T.count
        /\ \/ /\ T.arg = None
              /\ tasks' = [tasks EXCEPT ![t].arg = T.count + 1, ![t].before = named.retired,
                                        ![t].pc = "ceremony"]
              /\ UNCHANGED named
           \/ T.arg # None /\ Compare(t, T.count)
        /\ UNCHANGED <<scene, dev, store, keys, sid, displaced, nextId, invites, meta>>

\* The authenticator creates a credential under the number, or the user gives up.
Ceremony(t) ==
    /\ At(t, "ceremony")
    /\ \/ /\ named' = [named EXCEPT !.made = @ \cup {<<tasks[t].arg, tasks[t].before>>}]
          /\ Goto(t, "finish")
       \/ UNCHANGED named /\ Finish(t)
    /\ UNCHANGED <<scene, dev, store, keys, sid, displaced, seq, nextId, invites, meta>>

\* The finish call (PASSKEY_REG_FINISH, ATTACH_BACKUP_PASSKEY or that of a draft or an invite)
\* succeeds and the number is committed, or it is refused or fails, or the commit is lost: the
\* credential then exists under a number that the counter gives again.
FinishNamed(t) ==
    /\ At(t, "finish")
    /\ Goto(t, "confirmRead") \/ Finish(t)
    /\ UNCHANGED <<scene, dev, store, keys, sid, displaced, seq, nextId, invites, meta, named>>

\* Variant: a number that comes late is written over a higher one.
ConfirmRewinds(t) ==
    /\ At(t, "confirmRead") /\ seq # None
    /\ Goto(t, "confirmWrite")
    /\ UNCHANGED <<scene, dev, store, keys, sid, displaced, seq, nextId, invites, meta, named>>

\* PASSKEY_CONFIRM_SEQ reads the counter ...
ConfirmRead(t) ==
    /\ At(t, "confirmRead")
    /\ \/ seq # None /\ Compare(t, seq)
       \/ /\ seq = None
          /\ tasks' = [tasks EXCEPT ![t].count = Cardinality(PasskeyRows), ![t].pc = "seeding"]
          /\ UNCHANGED named
    /\ UNCHANGED <<scene, dev, store, keys, sid, displaced, seq, nextId, invites, meta>>

\* ... and writes the number.
ConfirmWrite(t) ==
    /\ At(t, "confirmWrite")
    /\ seq' = tasks[t].arg
    /\ Goto(t, "done") /\ Retire(t)
    /\ UNCHANGED <<scene, dev, store, keys, sid, displaced, nextId, invites, meta>>

\* A passkey is named: peek, ceremony, finish, confirmation.
NamingStep(t) ==
    \/ PeekSeq(t) \/ PeekFails(t) \/ SeedSeq(t) \/ Ceremony(t) \/ FinishNamed(t)
    \/ ConfirmRead(t) \/ ConfirmWrite(t)
-----------------------------------------------------------------------------
\* The handler answers.
Done(t) ==
    /\ At(t, "done")
    /\ Finish(t)
    /\ UNCHANGED <<scene, dev, store, keys, sid, displaced, seq, nextId, invites, meta, named>>

\* SET_DEVELOPER_MODE, once the other deployment's /health answered as
\* expected: the flag flips, and with it the scope and network of every access.
ApplyDeveloperMode(t) ==
    /\ At(t, "health")
    /\ \/ dev' = tasks[t].arg
       \/ UNCHANGED dev   \* unreachable, or not the network it must be
    /\ Finish(t)
    /\ UNCHANGED <<scene, store, keys, sid, displaced, seq, nextId, invites, meta, named>>

\* Chrome stops the service worker: memory and running handlers are lost.
SwRestart ==
    /\ "SW_RESTART" \in scene.ops
    /\ \/ ~Idle
       \/ keys # {}
    /\ keys' = {}
    /\ tasks' = [t \in Tasks |-> NoTask]
    /\ UNCHANGED <<scene, dev, store, sid, displaced, seq, nextId, invites, meta, named>>

Handler(t) ==
    \/ CreateOrConnect(t) \/ Register(t) \/ LogIn(t) \/ ImportSeed(t) \/ Unlock(t)
    \/ SetActive(t) \/ Rename(t) \/ Delete(t) \/ Logout(t) \/ GetAccounts(t) \/ SetDeveloperMode(t)
    \/ NextSeq(t)

StoreStep(t) ==
    \/ ReadBefore(t) \/ ApiAnswered(t) \/ ApiFailed(t) \/ CreateRead(t) \/ UpsertRead(t)
    \/ UpsertWrite(t) \/ Unremove(t) \/ SaveSeed(t) \/ LoadSeed(t) \/ RegisterKey(t)
    \/ ReadRows(t) \/ WriteActive(t) \/ WriteLabel(t) \/ DeleteRow(t) \/ DeleteSeed(t)
    \/ DenyAddress(t) \/ DeleteDone(t) \/ MatchSetup(t) \/ LogoutSession(t) \/ ClearVault(t)
    \/ ClearSession(t) \/ RepairRead(t) \/ PatchRead(t) \/ PatchWrite(t) \/ NamingStep(t)
    \/ ApplyDeveloperMode(t) \/ Done(t)
=============================================================================
