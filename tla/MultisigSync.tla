---------------------------- MODULE MultisigSync ----------------------------
(***************************************************************************)
(* Importing multisig wallets into the stored accounts                     *)
(* (background/multisig): the sync that every hydration of a screen starts,*)
(* the registration a proposal needs, an explicit add and the invites      *)
(* joined here. A sync works on copies of the accounts, the invites and    *)
(* the removed addresses that it reads at its start; the API answers       *)
(* between its steps, and every write goes through WalletStore's           *)
(* createAccount, which reads the stored rows again.                       *)
(*                                                                         *)
(* The API keeps, for each deployment, the wallets it lists for the        *)
(* session: those it was told of, and those the session's user created     *)
(* without being a member.                                                 *)
(***************************************************************************)
EXTENDS WalletStore

CONSTANTS
    Wallets,     \* multisig smart accounts, a subset of Contracts
    MembersOf,   \* wallet -> its members: credentials, G-addresses and smart accounts
    Tokens,      \* invite tokens
    WalletOf,    \* token -> the wallet it invites to
    JoinedAs,    \* credentials invites are joined with: of accounts here, or new ones
    ListedFirst  \* wallets the API lists before anything is registered

\* A wallet is another contract than the account of one signer.
ASSUME SyncAssumption ==
    /\ Wallets \subseteq Contracts /\ ListedFirst \subseteq Wallets
    /\ WalletOf \in [Tokens -> Wallets]
    /\ None \notin Tokens
    /\ \A s \in Signers : FactoryOf[s] \notin Wallets
    /\ \A c \in Creds : Hinted[c] \notin Wallets

\* An invite joined on this install. cred: the credential stored with it, if
\* any; known: the wallet's address has been told or predicted and stored with it.
Invites == [token: Tokens, cred: JoinedAs \cup Creds \cup {None}, known: BOOLEAN]

VARIABLE listed  \* wallets the API lists for the session of a deployment

syncVars == <<walletVars, listed>>

\* A step that changes its own task alone.
OnlyTasks == UNCHANGED <<scene, dev, store, keys, sid, displaced, seq, nextId, invites, meta, named, listed>>

SyncInit == Init /\ listed = [e \in Envs |-> ListedFirst]

\* A passkey or a seed account proves who the user is, by its credential, its
\* key data or its G-address; a multisig row does not.
LocalSigners(list) ==
    LET passkeys == {a \in RangeOf(list) : a.mode = "passkey"}
        seeds == {a \in RangeOf(list) : a.mode = "mnemonic"}
    IN ({r.cred : r \in passkeys} \cup {r.data : r \in passkeys} \cup {r.g : r \in seeds}) \ {None}
CredIds(list) == {r.cred : r \in RangeOf(list)} \ {None}
Mine(w, list) == MembersOf[w] \cap LocalSigners(list) # {}

\* The chain's context rule may name the smart account of a local signer too.
OnChainKeys(list) ==
    LocalSigners(list)
        \cup {r.addr : r \in {a \in RangeOf(list) : LocalSigners(<<a>>) # {}}}

MultisigRow(list, w) ==
    FirstOf(list, {r \in RangeOf(list) : r.mode = "multisig" /\ r.addr = w})

\* The invite a listed wallet is attributed to: by its address, by the member id
\* of the answer, or by a credential this install holds, of whatever wallet.
Matches(i, w, list, byMember) ==
    \/ WalletOf[i.token] = w /\ (i.known \/ byMember)
    \/ i.cred \in CredIds(list)

WalletRow(w) == NewRow("multisig", w, None, None, None)
-----------------------------------------------------------------------------
\* MULTISIG_ADD_PENDING_INVITE, with the credential that joined and the address
\* of the wallet, if the draft tells it already.
AddInvite(t) ==
    \E k \in Tokens, c \in JoinedAs, known \in BOOLEAN :
        /\ c \in Creds => c \in CredIds(Bucket)
        /\ Start(t, "ADD_INVITE", "add", [token |-> k, cred |-> c, known |-> known])
DropInvite(t) == \E i \in invites[Scope] : Start(t, "REMOVE_INVITE", "clear", i)
\* MULTISIG_SET_DRAFT_META and MULTISIG_CLEAR_DRAFT_META.
SetDraftMeta(t) == \E k \in Tokens \cup {None} : Start(t, "DRAFT_META", "draftMeta", k)
SyncLocal(t) ==
    \E activate \in BOOLEAN : /\ RoomFor(Cardinality(Wallets))
                              /\ Start(t, "SYNC", "sync", activate)
EnsureRegistered(t) ==
    \E r \in RangeOf(Bucket) : /\ r.mode = "multisig"
                               /\ RoomFor(Cardinality(Wallets))
                               /\ Start(t, "ENSURE", "listOne", r.addr)
AddExisting(t) == \E w \in Wallets : RoomFor(1) /\ Start(t, "ADD_EXISTING", "verify", w)
\* MULTISIG_CREATE_LOCAL_ACCOUNT: the wallet just deployed, or a listed one opened.
CreateLocal(t) == \E w \in Wallets : RoomFor(1) /\ Start(t, "CREATE_LOCAL", "local", w)
-----------------------------------------------------------------------------
StoreDraftMeta(t) ==
    /\ At(t, "draftMeta")
    /\ meta' = [meta EXCEPT ![Scope] = tasks[t].arg]
    /\ Goto(t, "done")
    /\ UNCHANGED <<scene, dev, store, keys, sid, displaced, seq, nextId, invites, named, listed>>

\* The sync copies the accounts, then the invites, then the rest.
SyncRead(t) ==
    /\ At(t, "sync")
    /\ tasks' = [tasks EXCEPT ![t].mine = Bucket, ![t].pc = "syncInvites"]
    /\ OnlyTasks

SyncInvites(t) ==
    /\ At(t, "syncInvites")
    /\ tasks' = [tasks EXCEPT ![t].inv = invites[Scope], ![t].pc = "syncRemoved"]
    /\ OnlyTasks

\* The draft it created, then the removed addresses. Without a local signer
\* nothing is imported.
SyncRemoved(t) ==
    LET mine == tasks[t].mine
    IN  /\ At(t, "syncRemoved")
        /\ tasks' = [tasks EXCEPT ![t].draft = meta[Scope], ![t].gone = removed[Scope][LiveNet],
                        ![t].pc = IF mine = <<>> THEN "dropSession"
                                  ELSE IF LocalSigners(mine) = {} THEN tasks[t].ret ELSE "list"]
        /\ OnlyTasks

\* An install without accounts drops the cookie of the user before.
DropSession(t) ==
    /\ At(t, "dropSession")
    /\ sid' = sid \ {Scope}
    /\ Goto(t, tasks[t].ret)
    /\ UNCHANGED <<scene, dev, store, keys, displaced, seq, nextId, invites, meta, named, listed>>

\* GET /api/multisig/accounts, or an error: the invites are tried even so.
ListWallets(t) ==
    /\ At(t, "list")
    /\ \/ Scope \in sid /\ tasks' = [tasks EXCEPT ![t].todo = listed[Scope], ![t].pc = "wallets"]
       \/ tasks' = [tasks EXCEPT ![t].todo = tasks[t].inv, ![t].phase = "invites", ![t].pc = "invites"]
    /\ OnlyTasks

\* Variant: a removed wallet is created again.
EnsuredRemoved(t, w, then) ==
    {[tasks[t] EXCEPT !.row = WalletRow(w), !.then = "ensured", !.next = then, !.pc = "create"]}

\* ensureLocalMultisigAccount, up to createMultisigAccount: a wallet that is
\* known here is updated when the API tells something new of it, one that the
\* user removed stays removed, another is created.
Ensured(t, w, then) ==
    LET as == [tasks[t] EXCEPT !.pc = then]
        created == [tasks[t] EXCEPT !.row = WalletRow(w), !.then = "ensured", !.next = then,
                                    !.pc = "create"]
    IN  IF MultisigRow(tasks[t].mine, w) # None THEN {as, created}
        ELSE IF w \in tasks[t].gone THEN {as} ELSE {created}

\* importListedRemoteAccounts, one wallet of the list: the first invite that
\* matches it is cleared once the wallet is stored.
ImportNext(t) ==
    LET T == tasks[t]
    IN  /\ At(t, "wallets")
        /\ \/ /\ T.todo = {}
              /\ tasks' = [tasks EXCEPT ![t].todo = T.inv, ![t].phase = "invites",
                                        ![t].pc = "invites"]
           \/ \E w \in T.todo, byMember \in BOOLEAN :
                LET hits == {i \in T.inv : Matches(i, w, T.mine, byMember)}
                    skip == w \in T.gone \/ (hits = {} /\ ~Mine(w, T.mine))
                IN \/ /\ skip
                      /\ tasks' = [tasks EXCEPT ![t].todo = @ \ {w}]
                   \/ /\ ~skip
                      /\ \E hit \in IF hits = {} THEN {None} ELSE hits :
                         \E after \in Ensured(t, w, IF hit = None THEN "wallets" ELSE "clear") :
                            tasks' = [tasks EXCEPT ![t] = [after EXCEPT !.hit = hit, !.todo = @ \ {w}]]
        /\ OnlyTasks

\* createMultisigAccount returned: the copy of the accounts follows the store.
EnsuredRow(t) ==
    LET T == tasks[t]
        new == MultisigRow(T.mine, T.row.addr) = None
        Same(r) == r.id = T.row.id
    IN  /\ At(t, "ensured")
        /\ tasks' = [tasks EXCEPT
              ![t].mine = IF new THEN Append(@, T.row)
                          ELSE [i \in DOMAIN @ |-> IF Same(@[i]) THEN T.row ELSE @[i]],
              ![t].made = IF new THEN Append(@, T.row.id) ELSE @,
              ![t].pc = T.next]
        /\ OnlyTasks
-----------------------------------------------------------------------------
\* The stored invites are read, changed and written whole: one is cleared, or
\* added in the place of the one with its token.
TheInvite(t) == IF tasks[t].hit = None THEN tasks[t].arg ELSE tasks[t].hit

SameToken(i, j) == i.token = j.token
Others(bag, i) == {j \in bag : ~SameToken(i, j)}

InvitesRead(t) ==
    LET T == tasks[t]
    IN  /\ \/ /\ At(t, "clear")
              /\ tasks' = [tasks EXCEPT ![t].bag = invites[Scope], ![t].pc = "cleared1"]
           \/ /\ At(t, "add")
              /\ \E i \in IF T.op = "ADD_INVITE" THEN {T.arg} ELSE T.bag :
                   tasks' = [tasks EXCEPT ![t].bag = Others(invites[Scope], i) \cup {i},
                                          ![t].pc = "noted"]
        /\ OnlyTasks

\* upsertMultisigPendingInvite: a patch is put over the stored invite, or over
\* a blank one when it has gone. The preview's patch names the credential and
\* the address, the one of the prediction the address, that of a known wallet
\* neither.
Patched(t, stored) ==
    LET i == tasks[t].hit
    IN [stored EXCEPT !.cred = IF tasks[t].next = "predict" THEN i.cred ELSE @,
                      !.known = IF tasks[t].next = "confirm" THEN @ ELSE i.known]

PatchInvite(t) ==
    LET token == tasks[t].hit.token
        stored == {j \in invites[Scope] : j.token = token}
        blank == [token |-> token, cred |-> None, known |-> FALSE]
    IN  /\ At(t, "note")
        /\ \E j \in IF stored = {} THEN {blank} ELSE stored :
             tasks' = [tasks EXCEPT ![t].bag = {Patched(t, j)}, ![t].pc = "add"]
        /\ OnlyTasks

ClearInvite(t) ==
    LET T == tasks[t]
    IN  /\ At(t, "cleared1")
        /\ invites' = [invites EXCEPT ![Scope] = Others(T.bag, TheInvite(t))]
        /\ tasks' = [tasks EXCEPT ![t].inv = Others(@, TheInvite(t)), ![t].hit = None,
              ![t].pc = IF T.op = "REMOVE_INVITE" THEN "done"
                        ELSE T.phase]
        /\ UNCHANGED <<scene, dev, store, keys, sid, displaced, seq, nextId, meta, named, listed>>

NoteInvite(t) ==
    /\ At(t, "noted")
    /\ invites' = [invites EXCEPT ![Scope] = tasks[t].bag]
    /\ Goto(t, tasks[t].next)
    /\ UNCHANGED <<scene, dev, store, keys, sid, displaced, seq, nextId, meta, named, listed>>

\* syncFromPendingInvite. A wallet that is stored here only needs to be known
\* to the API; for another the invite's preview tells whether we are a member.
InviteNext(t) ==
    LET T == tasks[t]
    IN  /\ At(t, "invites")
        /\ \/ /\ T.todo = {}
              /\ tasks' = [tasks EXCEPT ![t].hit = None, ![t].pc = "ownDraft"]
           \/ \E i \in T.todo :
                LET here == i.known /\ MultisigRow(T.mine, WalletOf[i.token]) # None
                IN tasks' = [tasks EXCEPT ![t].todo = @ \ {i}, ![t].hit = i,
                                          ![t].pc = IF here THEN "known" ELSE "preview"]
        /\ OnlyTasks

\* An error ends what is done about one invite, or about the created draft.
GiveUp(t) == Goto(t, tasks[t].phase)

\* The preview answers, maybe with the wallet's address, or cannot be had: the
\* invite counts by its own member id then. A local account that is the member
\* may give its credential. Without membership the invite is left alone.
Preview(t) ==
    LET hit == tasks[t].hit
    IN  /\ At(t, "preview")
        /\ \/ \E known \in {hit.known, TRUE},
                 c \in IF hit.cred = None THEN CredIds(tasks[t].mine) \cup {None} ELSE {hit.cred} :
                tasks' = [tasks EXCEPT ![t].hit = [hit EXCEPT !.cred = c, !.known = known],
                                       ![t].next = "predict", ![t].pc = "note"]
           \/ GiveUp(t)
        /\ OnlyTasks

\* predictDeployInfo: the address, or the salt at least, is known now, and
\* noted; when neither is, the draft may still tell it.
Predict(t) ==
    LET hit == tasks[t].hit
    IN  /\ At(t, "predict")
        /\ \/ \E known \in {hit.known, TRUE} :
                tasks' = [tasks EXCEPT ![t].hit = [hit EXCEPT !.known = known],
                                       ![t].next = "draft", ![t].pc = "note"]
           \/ ~hit.known /\ Goto(t, "draft")
        /\ OnlyTasks

\* syncFromCreatorDraftMeta: the draft this install created, if it can be had
\* and a signer of this install is a member; its address may be unknown.
OwnDraft(t) ==
    LET k == tasks[t].draft
    IN  /\ At(t, "ownDraft")
        /\ \/ Goto(t, "activateNew")
           \/ /\ k # None /\ Mine(WalletOf[k], tasks[t].mine)
              /\ tasks' = [tasks EXCEPT ![t].hit = [token |-> k, cred |-> None, known |-> TRUE],
                                        ![t].phase = "activateNew", ![t].pc = "draft"]
        /\ OnlyTasks

\* syncFromMembershipDraft: without a member row or an address nothing is done,
\* and a wallet that is not deployed yet has to wait.
Deployed(t) ==
    /\ At(t, "draft")
    /\ Goto(t, "register") \/ GiveUp(t)
    /\ OnlyTasks

\* registerMultisigAccount: the API lists the wallet for the session from now
\* on, has it already, or is not asked, when no salt can be derived.
Registers(w) ==
    \/ Scope \in sid /\ listed' = [listed EXCEPT ![Scope] = @ \cup {w}]
    \/ UNCHANGED listed

\* registerMultisigForSession, then the local row; an error ends this invite.
RegisterWallet(t) ==
    LET w == WalletOf[tasks[t].hit.token]
    IN  /\ At(t, "register")
        /\ \/ /\ Registers(w)
              /\ \E after \in Ensured(t, w, "confirm") : tasks' = [tasks EXCEPT ![t] = after]
           \/ GiveUp(t) /\ UNCHANGED listed
        /\ UNCHANGED <<scene, dev, store, keys, sid, displaced, seq, nextId, invites, meta, named>>

\* The same for a wallet that is stored here: its row stays, and the salt that
\* was derived may be stored with the invite.
RegisterKnown(t) ==
    /\ At(t, "known")
    /\ \/ Registers(WalletOf[tasks[t].hit.token])
          /\ \/ Goto(t, "confirm")
             \/ tasks' = [tasks EXCEPT ![t].next = "confirm", ![t].pc = "note"]
       \/ GiveUp(t) /\ UNCHANGED listed
    /\ UNCHANGED <<scene, dev, store, keys, sid, displaced, seq, nextId, invites, meta, named>>

\* Variant: the invite is cleared unasked.
ConfirmNothing(t) ==
    /\ At(t, "confirm")
    /\ Goto(t, "clear")
    /\ OnlyTasks

\* The invite is cleared once the API lists the wallet for this session.
ConfirmListed(t) ==
    /\ At(t, "confirm")
    /\ \/ Scope \in sid /\ WalletOf[tasks[t].hit.token] \in listed[Scope] /\ Goto(t, "clear")
       \/ GiveUp(t)
    /\ OnlyTasks

ActivateNew(t) ==
    LET T == tasks[t]
        first == T.op = "SYNC" /\ T.arg = TRUE /\ T.made # <<>>
    IN  /\ At(t, "activateNew")
        /\ tasks' = [tasks EXCEPT ![t].pc = IF first THEN "read" ELSE T.ret,
                                  ![t].arg = IF first THEN T.made[1] ELSE @]
        /\ OnlyTasks
-----------------------------------------------------------------------------
\* ensureMultisigAccountRegisteredForSession: a proposal needs the wallet to be
\* listed. If it is not, a sync; if it is not even then, its cached members
\* are registered; and otherwise, or when the list cannot be had, it fails. A
\* listed wallet's row is updated when the API tells something new of it.
Updated(t, w, then) ==
    [tasks[t] EXCEPT !.row = WalletRow(w), !.then = then, !.ret = "end", !.pc = "create"]

ListOne(t) ==
    LET T == tasks[t]
    IN  /\ At(t, "listOne")
        /\ \/ Goto(t, "done")
           \/ /\ Scope \in sid /\ T.arg \in listed[Scope] /\ MultisigRow(Bucket, T.arg) # None
              /\ tasks' = [tasks EXCEPT ![t] = Updated(t, T.arg, "done")]
           \/ /\ Scope \in sid /\ T.arg \notin listed[Scope] /\ T.ret # "end"
              /\ tasks' = [tasks EXCEPT ![t].pc = IF T.ret = "listOne" THEN "lastResort" ELSE "sync",
                                        ![t].ret = "listOne"]
        /\ OnlyTasks

\* The salt that was derived is cached in the row that was read.
LastResort(t) ==
    LET w == tasks[t].arg
    IN  /\ At(t, "lastResort")
        /\ \/ /\ Registers(w)
              /\ \/ tasks' = [tasks EXCEPT ![t].pc = "listOne", ![t].ret = "end"]
                 \/ /\ MultisigRow(Bucket, w) # None
                    /\ tasks' = [tasks EXCEPT ![t] = Updated(t, w, "listOne")]
           \/ Goto(t, "done") /\ UNCHANGED listed
        /\ UNCHANGED <<scene, dev, store, keys, sid, displaced, seq, nextId, invites, meta, named>>

\* MULTISIG_ADD_EXISTING_ACCOUNT: refused unless the list, or the chain's
\* context rule, names a local signer.
Verify(t) ==
    LET w == tasks[t].arg
    IN  /\ At(t, "verify")
        /\ \/ Finish(t)   \* neither could be had
           \/ /\ w \notin Addrs(Bucket) /\ MembersOf[w] \cap OnChainKeys(Bucket) # {}
              /\ tasks' = [tasks EXCEPT ![t].row = WalletRow(w), ![t].then = "readd",
                                        ![t].pc = "create"]
        /\ OnlyTasks

\* An earlier removal does not block an explicit add.
Readd(t) ==
    /\ At(t, "readd")
    /\ removed' = [removed EXCEPT ![Scope][LiveNet] = @ \ {tasks[t].arg}]
    /\ Goto(t, "done")
    /\ UNCHANGED <<scene, dev, accounts, active, setup, vault, keys, sid, displaced, seq, nextId,
                   invites, meta, named, listed>>

\* MULTISIG_CREATE_LOCAL_ACCOUNT asks nobody, and an earlier removal stays noted.
LocalRow(t) ==
    /\ At(t, "local")
    /\ tasks' = [tasks EXCEPT ![t].row = WalletRow(tasks[t].arg), ![t].pc = "create"]
    /\ OnlyTasks

SyncHandler(t) ==
    \/ AddInvite(t) \/ DropInvite(t) \/ SetDraftMeta(t)
    \/ SyncLocal(t) \/ EnsureRegistered(t) \/ AddExisting(t) \/ CreateLocal(t)

SyncStep(t) ==
    \/ SyncRead(t) \/ SyncInvites(t) \/ SyncRemoved(t) \/ DropSession(t) \/ ListWallets(t)
    \/ ImportNext(t) \/ EnsuredRow(t) \/ InvitesRead(t) \/ ClearInvite(t) \/ NoteInvite(t)
    \/ PatchInvite(t) \/ LocalRow(t)
    \/ InviteNext(t) \/ Preview(t) \/ Predict(t) \/ OwnDraft(t) \/ Deployed(t)
    \/ RegisterWallet(t) \/ RegisterKnown(t) \/ StoreDraftMeta(t)
    \/ ConfirmListed(t) \/ ActivateNew(t) \/ ListOne(t) \/ LastResort(t) \/ Verify(t) \/ Readd(t)

SyncNext ==
    \/ \E t \in Tasks : (Handler(t) \/ StoreStep(t)) /\ UNCHANGED listed
    \/ \E t \in Tasks : SyncHandler(t) /\ UNCHANGED listed
    \/ \E t \in Tasks : SyncStep(t)
    \/ SwRestart /\ UNCHANGED listed

SyncSpec == SyncInit /\ [][SyncNext]_syncVars
-----------------------------------------------------------------------------
\* Values of the variables, while running and at rest.
WTypeOK ==
    /\ scene \in Scenes /\ dev \in BOOLEAN
    /\ \A e \in Envs, n \in Nets : /\ RangeOf(accounts[e][n]) \subseteq Rows
                                   /\ active[e][n] \in Ids \cup {None}
                                   /\ removed[e][n] \subseteq Contracts
                                   /\ setup[e][n] \in {"new", "has_account"}
    /\ \A e \in Envs : /\ vault[e] \subseteq Ids /\ invites[e] \subseteq Invites
                       /\ meta[e] \in Tokens \cup {None}
                       /\ listed[e] \subseteq Wallets
    /\ keys \subseteq Ids /\ sid \subseteq Envs
    /\ displaced \in [Contracts -> Contracts \cup {None}]
    /\ seq \in (0..(MaxSeq + Cardinality(Tasks))) \cup {None} /\ nextId \in Nat

AllRows == UNION {RangeOf(accounts[e][n]) : e \in Envs, n \in Nets}

\* The key data of a passkey row belongs to its credential: a merge with an
\* incomplete answer never pairs one credential with another's key data.
PairConsistent == \A r \in AllRows : r.data \in {None, r.cred}

\* A bucket with rows has an active one, and the active account is stored,
\* at every moment: a stop of the service worker cannot fall between the two.
\* Only a handler that activates a row may do it after another deleted the row.
ActiveIsStored ==
    scene.busy = 1 \/ scene.ops \cap {"SET_ACTIVE_ACCOUNT", "SYNC"} = {} =>
       \A e \in Envs, n \in Nets :
          IF accounts[e][n] = <<>> THEN active[e][n] = None
          ELSE active[e][n] \in IdsOf(accounts[e][n])

\* Both, for every row of every bucket, at every moment.
RowsAreConsistent == PairConsistent /\ ActiveIsStored

\* A key in memory or a stored seed has its account, when no handler runs.
SecretsFollowAccounts ==
    scene.busy = 1 /\ Idle =>
       /\ keys \subseteq {r.id : r \in AllRows}
       /\ "SW_RESTART" \notin scene.ops => \A e \in Envs :
             vault[e] \subseteq UNION {IdsOf(accounts[e][n]) : n \in Nets}

\* After LOGOUT nothing of the deployment is left: no row, seed, key, invite,
\* removed address or cookie.
LogoutLeavesNothing ==
    [][\A t \in Tasks :
         scene.busy = 1 /\ tasks[t].op = "LOGOUT" /\ At(t, "done") =>
            /\ keys = {} /\ Scope \notin sid
            /\ vault[Scope] = {} /\ invites[Scope] = {}
            /\ \A n \in Nets : /\ accounts[Scope][n] = <<>> /\ active[Scope][n] = None
                               /\ removed[Scope][n] = {}]_syncVars

\* A wallet the user removed stays removed until the user adds it back or opens
\* it, however often the API lists it.
RemovedStaysRemoved ==
    [][scene.busy = 1 => \A e \in Envs, n \in Nets :
         \A w \in Wallets \cap removed[e][n] \cap Addrs(accounts'[e][n]) :
            \/ w \in Addrs(accounts[e][n])
            \/ \E t \in Tasks : tasks[t].op \in {"ADD_EXISTING", "CREATE_LOCAL"}]_syncVars

\* A multisig wallet is stored here only if one of this user's signers, or its
\* smart account, is a member of it, or this install joined an invite to it, unless the user
\* deployed or opened it.
ImportsAreMine ==
    \A r \in AllRows : r.mode = "multisig" /\ "CREATE_LOCAL" \notin scene.ops =>
        \/ MembersOf[r.addr] \cap (Signers \cup Contracts) # {}
        \/ \E k \in Tokens : WalletOf[k] = r.addr

\* The address of a passkey account changes only back to the funded one.
FundedAddressKept ==
    [][scene.busy = 1 => \A e \in Envs, n \in Nets :
         \A r \in RangeOf(accounts[e][n]), s \in RangeOf(accounts'[e][n]) :
            r.id = s.id /\ r.mode = "passkey" /\ r.addr # s.addr =>
               s.addr = displaced[r.addr]]_syncVars

\* A number whose confirmation is stored is never given to a passkey again by the counter,
\* with ceremonies given up, refused at the finish, begun again on another screen and confirmed
\* late, with lost confirmations, numbers taken from the list of accounts and stops of the
\* worker. Not claimed of a number confirmed while another task was between its read of the
\* counter and its write.
NamesNotReused == \A made \in named.made : made[1] \notin made[2]

\* An invite is cleared only once the API lists its wallet for this session.
InvitesWait ==
    [][\A e \in Envs : \A i \in invites[e] :
         (\A j \in invites'[e] : ~SameToken(i, j)) =>
            \/ WalletOf[i.token] \in listed[e]
            \/ \E t \in Tasks : tasks[t].op \in {"LOGOUT", "REMOVE_INVITE"}]_syncVars
=============================================================================
