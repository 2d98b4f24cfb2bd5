# Latch extension: TLA+ models, checks and proofs

This directory is the verification development kept beside the Latch browser
extension, a Stellar smart-account wallet (`apps/extension`, with shared
packages under `packages/`). It holds TLA+ models of the parts of the extension
where several actors change shared state between awaits, the TLC configurations
that check them on small instances, and TLAPS proofs of the central results.

Paths below are relative to `apps/extension/src/` unless they start with
`packages/`.

    tlc -workers 2 -config Overlap.cfg MCDappApproval.tla
    tlapm DappApprovalProofs.tla

## 1. The system

Latch is a Manifest V3 extension. One **service worker** (`background/`) owns
every decision. It is started by a message, may be stopped by the browser at any
time, and keeps its durable state in `chrome.storage.session` (lost with the
browser) and `chrome.storage.local`. Web pages reach it through an **in-page
provider** and a **content-script bridge**, the user through **surfaces**: the
toolbar popup (which dies whenever it loses the focus, for example to the passkey
window), the side panel, durable approval windows and extension tabs (set-up,
sign-request, passkey bridge). A backend prepares transactions, keeps multisig
drafts and proposals, and relays to the network; Horizon and the RPC are read
directly.

A message handler is an `async` function. There are no locks: between two awaits
a handler runs alone, at an await anything else may run, and every storage update
is "get the key, change the copy, set the key". The screens are React: an answer
that comes late runs the continuation of the screen that asked, which may be gone.

### Inventory

| Component | State it keeps | Operations | Interacts with | What is hard | What makes it correct | Module |
|---|---|---|---|---|---|---|
| **dApp connect and sign approval** (`background/dapp/*`, `confirm/executeDappSign.ts`, dApp keys of `storage.ts`) | session: request rows; local: permissions, sticky disconnects; memory: resolvers, in-flight prompts, cooldowns, windows | getPublicKey, openSignRequest, signTransaction, disconnect, page session start, poll; resolve, execute, list, logout; window closed | pages, surfaces, Chrome windows | overlapping read-modify-writes, restart while a request is open, a row outliving a disconnect | no permission without approval; no answer not earned; a prompt can be settled; one decision per request | `DappApproval` (safety proved; refinement proved in `serial`) |
| **Page provider and bridge** (`scripts/inpage.ts`, `contents/*`) | pending promises, polls | call, poll, time out, settle | worker | the page gives up first; the worker dies under a poll | every call settles; answers are true | `DappSystem` |
| **Approval surfaces** (`ui/dapp/DappRouteViews.tsx`) | listed requests, busy flag | list, decide, confirm, pagehide | worker | pagehide rejects what is being signed | only the user rejects | `DappSystem` |
| **SDK, SEP-0043, wallets kit, gate** (`packages/sdk`, `scripts/sep0043.ts`, `dappProviderEvents.ts`, `publicDappPayload.ts`, `messageSource.ts`) | listeners, permissions | call in three dialects, listen, disconnect | worker, active account and network | account and network move between the messages of a call | a page gets what its user gave it | `PageCalls` |
| **Sign-request page** (`tabs/sign-request.tsx`) | one load, its row | parse, prepare, decide, sign, call back | worker, popup, website | both decide one row; closed or opened twice | the callback gets the truth | `SignPage` |
| **Review of a website's transaction** (`externalSign/orchestrator.ts`, `parseTxForReview.ts`, `tx/signBuiltTx.ts`) | one session | prepare, set up, compare, sign | backend | account and network move; builds list entries of others | what is signed calls what was shown | `Review` |
| **Confirm pipeline** (`confirm/*`, `tx/*`, `lib/walletOutcome.ts`) | session: held builds, outcome; memory: queue, coalescing map, setups | estimate, confirm, take, sign, submit, record | backend, signer, surfaces | popup dies and the user confirms again; builds expire or are replaced | signed once, as reviewed; reports true | `ConfirmPipeline` |
| **Send flow** (`ui/send`, `ui/screens/send`) | the draft, its price, its estimate | pick, type, Max, continue, Confirm | prices, estimates | late answers | Max leaves the fee; what is reviewed is the draft | `Sending` |
| **Swap** (`ui/swap/*`, `background/swap/*`, `packages/swap`) | typed amount, quotes, catalog | quote, refresh, prepare, sign | providers, chain | late answers; moving price; network switch | quote signed = quote shown; pays the minimum | `SwapQuotes`, `SwapBuilds` |
| **Account storage** (`storage.ts`, `accounts/handlers.ts`, vault and session of seeds) | local: bucket per network and deployment, active id, removed list, vault; memory: keys | create, import, unlock, rename, activate, delete, logout, developer mode | sync, API | whole-list writes; deletes in five writes | rows consistent, secrets follow accounts | `WalletStore` |
| **Multisig sync, invites** (`multisig/*`) | invites | sync, add existing, ensure | API, storage | snapshots taken before answers | removed stays removed; invites wait | `MultisigSync` |
| **Multisig drafts** (wizard, join flow) | route, screen state | create, add, threshold, deploy, join | backend | Back is never disabled | an invite kept was accepted | `MultisigDrafts` |
| **Proposals** | open id, shown proposal | open, approve, execute, refresh | backend, signer | two answers set one screen | approved = shown | `Proposals` |
| **Passkey bridge** (`webauthn/passkeyBridge.ts`, its tab) | one promise per ticket, options and result keys | open, publish, settle | messages, storage, window | five sources settle one promise | tells the ceremony's own outcome | `PasskeyBridge` |
| **Passkey prompt** (`ui/webauthn/passkey.ts`) | - | options, checks, bytes | authenticator | transports, DER, high S | one's own passkey, a signature the contract takes | `PasskeySigning` |
| **Authorization entries** (`packages/stellar` soroban*, probe) | - | sign entries, assemble, probe | simulation | whose entry is which | entries stay as signed | `AuthEntries` |
| **API session and tokens** (`api/*`, `v1Auth`) | token store, ceremony slot, cookie | fetch, refresh, sign in, begin, finish | backend | whole-store writes under a host switch | credentials go to their host | `ApiSession` |
| **Adding accounts** (add flow, set-up tab, login) | step, prefetched options | prefetch, ceremony, finish | API | screens left and entered again | a challenge is used once | `Enrolment` |
| **Backup passkeys** (`signers/*`) | local records, jobs | add, finish, remove | chain, backend | stops between chain and record | who can sign is listed | `Signers` |
| **Classic-account migration** (`migration/*`) | discovery cache | discover, sweep | Horizon | two surfaces; late transactions | reserve kept | `Migration` |
| **Balances, requests, activity** | caches, snapshot, list | read, cancel, scan, merge | Horizon, RPC | late answers, no archive | rows of the right account; history kept | `Reads`, `Activity` |
| **Root view** (`LatchRoot.tsx`, accounts hook) | route, accounts, flags | hydrate, refresh, gate, messages | worker | retries, timeouts, other pages | set-up only for an empty wallet | `Views` |
| **Toolbar button** (`actionBehavior.ts`) | popup, panel, listener | runs, clicks | storage, worker restarts | overlapping runs | it opens what was chosen | `Toolbar` |
| Cosign queue (`cosign/*`) | - | - | - | - | - | unreachable code, see 7 |
| **Token lists, icons, prices** (`assetTokenLists.ts`, `assetIcons.ts`, `marketPrices.ts`) | caches in memory and storage | lists and icons kept; prices asked, merged, kept | list hosts, market | network switch, overlaps, stops | icons of their network; prices asked for are there | `TokenLists`, `Prices` |
| Deposit; rendering; `packages/types`, `crypto`, `ui` | caches | fetches | API | - | - | see 7 |

`PROJECT.json` lists under `hazards` what in this code is hard to test, at the
line where it bites, and the property that looks after it.

## 2. Plan

| Order | Modules | Results | State |
|---|---|---|---|
| 1 | `RequestState`, `RequestLifecycle`, `DappApproval`, `DappSystem` | consent, life cycle, disconnect, calls settle | done |
| 2 | `DappApprovalProofs` | type correctness, consent, earned answers; without overlap the life cycle and what a disconnect promises, proved | done |
| 3 | `ConfirmPipeline` | signed once and as reviewed; true reports | done |
| 4 | `WalletStore`, `MultisigSync` | accounts, seeds, removed wallets, invites | done |
| 5 | `PasskeyBridge`, `Migration`, `Reads`, `Activity`, `ApiSession`, `Enrolment`, `MultisigDrafts`, `Proposals`, `Sending`, composed in `Services` | every call ends; each part's own property | done |
| 6 | `SwapQuotes`, `SwapBuilds`, `Review`, `Signers`, `Views`, `SignPage`, `PageCalls`, `PasskeySigning`, `AuthEntries`, `Toolbar`, `TokenLists`, `Prices`, composed with 4 in `WalletUse` | what the user is shown is so | done |
| 7 | `ConfirmPipelineProofs` | every invariant of `ConfirmPipeline`, proved | done |
| 8 | `DappSystemProofs` | every invariant of `DappSystem`, on top of `Consent`, proved | done |
| 9 | `ServicesProofs` | all ten properties of `services` that are not liveness, `ServicesTypeOK` among them, proved | done |
| 10 | `WalletRows`, `WalletProofs`, `WalletAddresses`, `UseProofs` | `RowsAreConsistent`, `SecretsFollowAccounts`, `NamesNotReused`, `LogoutLeavesNothing`, `RemovedStaysRemoved`, `FundedAddressKept`, `UseIsAsShown`, proved | done |
| 11 | proofs that are left | `UseTypeOK` | open |

No module declares a RECURSIVE operator, so every one can be proved about.

## 3. Modules and code

### RequestState
The rows `requestState.ts` keeps, as values: statuses, TTL, the sweep
(`expireStaleDappRequests`) every operation of that file runs first, and a write
of one row on top of a copy of the bag. Ids are handed out in increasing order,
so "sort by createdAt" is the order of the ids. A row carries its age instead of
`updatedAt`; an age stops counting once past the TTL.

### RequestLifecycle
The abstract specification of a request: asked, perhaps signing, decided once or
expired, then gone for ever. `DappApproval` implements it by the refinement
mapping `StatusOf` (property `LifecycleSpec`).

### DappApproval
The service worker's half. A message handler runs in a slot of `task`: `op` is the
message, `pc` where it stands, `rows`/`perms`/`disc` the copies it has read.
**One action is the code between two awaits.** A read of a key is an action
(`ReadRows`, `ReadLocal`), the sweep's own write another (`Prune`), and the action
that uses the copy writes it back: what other handlers wrote in between is lost,
as in the code.

| Variable | Code |
|---|---|
| `store` | `latch.dappRequests` in session storage |
| `permissions`, `disconnected` | dApp permission map and sticky list in local storage |
| `resolvers`, `inflight`, `suppressed`, `tracked`, `windowOf` | module-level maps of `approvalSession.ts` |
| `task` | the running async handlers |
| `nextId`, `request` | the ids given out and the fields of a row that never change |
| `userApproved`, `signed` | history: what the user approved, what was signed and submitted |

`CheckPermission`, `AssertPromptAllowed`, `Enqueue`, `Upsert`, `OpenPopup`,
`CreateWindow`, `Decided`, `Grant`, `Unmark` are getPublicKey and openSignRequest;
`CheckAllowed`, `Prepared`, `PrepareFailed` signTransaction; `PollRow`,
`PollPermission` the poll; `GetBefore`, `ResolveRow`, `Wake` a decision;
`MarkSigning`, `SignSubmitted`, `SignFailed` `executeDappSign`; `MarkDisconnected`,
`Forget`, `CloseWindow`, `List`, `RejectNext`, `RejectDone` a disconnect and a
closed window; `ClearAll`, `Wipe` logout. The environment: `Tick`, `CooldownOver`,
`SwRestart` (memory and handlers gone), `BrowserRestart` (session storage too).
`PROJECT.json` gives the lines of every definition.

A request still registered when its promise is replaced is marked `orphaned`: the
code loses the resolver, so that handler never answers.

### DappSystem
Adds the page (`Send`, `Ask`, `Timeout`, the bridge's reading of an answer in
`Heard`) and the surfaces (`LoadPending`, `Decide`, `Confirm`, `Hide` with its
pagehide, `Dismiss`, `WindowRemoved`). `Background(t)` is a step of `DappApproval`
together with what it does to windows: one it opens shows a surface, one it closes
fires that surface's pagehide. `Restart` is a restart seen by everyone: the bridge
gives up on a call's first message and polls on after that.

### ConfirmPipeline
Send and swap, from estimate to outcome. `screen` is a surface (closed, opening,
review, estimating, needs setup, ready, waiting), `call` a request it sent, `held`
and `jobs` the store of reviewed builds with its serial queue (a job reads a copy,
then writes), `inflight` the coalescing map of `confirm/inflight.ts`, `setup` the
rule setups under way, `outcome` the record a destroyed popup comes back to,
`builds`, `ruled`, `accepted` the backend and the chain. `Estimate`,
`BuildAnswered`, `BuildRefused`, `Confirm`, `ConfirmExpired`, `RunSetup`,
`HandleReply`, `Open`, `ConsumeOutcome` are the screens; `StoreRead`, `StoreSave`,
`StoreTake` the store; `Arrive`, `Rebuild`, `OutOfTries`, `SetupEnds`, `Sign`,
`Submit`, `FinishOutcome`, `Reply` the worker. A submission is accepted (and its
reply may be lost) or refused; a refusal for missing rules keeps its code only on
the seed signer's path, because `signPasskeyPath` rethrows a plain `Error`.

Merged into one action, because nothing else of the model could tell: the take of
a build and the comparison of its fee (one microtask); the popup's write of
`in_progress` and its send; the consumption's read and remove. Session storage is
taken not to fail.

### WalletStore
The durable wallet data and the handlers of `accounts/handlers.ts`. A handler runs in a
slot of `tasks`; **one step is one storage access, one API answer, or the code between
them**. `accounts`, `active`, `setup`, `removed`, `vault`, `invites` are the storage keys
by deployment (and network), `dev` developer mode, `keys` the seeds in memory, `sid` the
API's cookie, `displaced` the factory addresses a funded address stands for, `seq` the
passkey counter, missing until it is first read. The scope is resolved again at every access, as `scopedKey` does, so a
switch of developer mode moves a handler from one deployment to the other half way.
`ReadBucket` .. `WriteBucket` are `readAccountsBucket` and `writeAccountsBucket`;
`Merged`, `PairOf`, `AddrOf` are `createAccount`'s merge with an existing row; `DeleteRow`,
`DeleteSeed`, `DenyAddress`, `DeleteDone` are `deleteAccount`'s writes in their order.

A passkey is named in steps of a screen and the worker (`NamingStep`). `PeekSeq` is
PASSKEY_NEXT_SEQ, `SeedSeq` the write by which `readPasskeySeq` starts a missing counter from
the rows stored (they are counted in the step that finds it missing), `PeekFails` the number `reservePasskeyName` takes from the accounts on the
screen when the worker does not answer. `Ceremony` creates the credential or is given up;
`FinishNamed` is the finish call of whichever flow named it (PASSKEY_REG_FINISH, a backup
passkey, a draft, an invite): only when it succeeds is the number committed, and the commit
may be lost. `ConfirmRead` and `ConfirmWrite` are `confirmPasskeySeq`'s read and write. A
credential whose finish is refused, or whose commit is lost, so exists under a number that the
next peek gives again, as `passkeyName.ts:62-83` and `:95-97` accept. What is promised is
less: a number on record is not given again (`NamesNotReused`). `named` is history and no
part of the code: the numbers `made` into credentials, each with those on record at its peek,
and the numbers `retired`, that is, on record.

### MultisigSync
Extends `WalletStore` with `syncLocalMultisigAccountsFromBackend`: its snapshots, its
phases (wallets, invites, registration, activation), the matching of rows, members and
invites, imports, repairs, adding a wallet back by address, and the row of a wallet that
was just deployed or opened (`CreateLocal`). `listed` are the wallets the API lists for the
session: those it listed before and those registered since. `PatchInvite` and `NoteInvite`
are the two halves of `upsertMultisigPendingInvite`: the patch goes over the invite stored at
that moment, or over a blank one, and the list is read once more and written whole.

### Services and its parts
The parts share no state: `part` says which one a behaviour exercises, the others stand
still, and each property is about one part.

| Module | State and actions |
|---|---|
| `PasskeyBridge` | `waiter`, `optionKeys`, `resultKeys`, `bridgeNews`: `OpenBridge` stores the options under a ticket, `WindowOpens`/`WindowKnown`/`WindowFailed` the callback, `ResultArrives` message, storage event or stored result, `BridgeTimesOut` the timer; `TakeOptions`, `RunCeremony`, `PublishResult`, `TellTheWorker`, `CloseWindow` the page |
| `Migration` | `classic` the ledger, `sweep` the two sweeps of a surface, `mempool`: `Discover..`, `MigrateNext`, `SweepRead`, `SweepSend`, `SweepConfirmed`/`SweepFails`; `LedgerApplies`/`LedgerDrops` may come after the sweep has given up |
| `Reads` | `pane` the hook, `requests`, `cancels`, `registry` the abort registry, `memory`/`snapshot`/`reading` the balances behind it |
| `Activity` | `scan`, `listStored`, `listInMemory`, `tracked`: scans see a window of the transfers only, `Merge` keeps what they no longer see |
| `ApiSession` | `tokens` and `slot`, each read and written whole, `cookie`, `call`, `rite`, `switching` |
| `Enrolment` | `step`, `visit`, `prefetches`, `options` (the ref), `rites`, `collected`: an answer carries the visit that asked |
| `MultisigDrafts` | `place`, `wizard`, `draft` (the backend's), `calls`; `Sees`, `Leads`, `Noted`, `Recheck` are the continuations of an answer |
| `Proposals` | `shownProposal` and `openId` are kept apart, as in the screen; `tickets`, `outcome`, `approvals` |
| `Sending` | `send` the flow and its screen, `sendAsks` the messages on their way, each with what its continuation closed over |

### WalletUse and its parts
The same composition of the store and its sync with what is done with one wallet; `use`
says which part a behaviour exercises. Type invariants and the conjuncts of `UseIsAsShown`
and `SignaturesAreTheirOwn` are stated of the part in use: the others keep their initial state.

| Module | State and actions |
|---|---|
| `SwapQuotes` | the swap and confirm screens: `typed`, `preview`, `shown`, `signing`, requests in any order, the quote cache |
| `SwapBuilds` | `menu`, `picked`, `market`, `offer`, `swapTx`, `swapPaid`: from catalog rows to the transaction that runs, price and network moving |
| `Review` | `session` of the orchestrator, `here`, `sealed`: transactions are calls with contracts, payer and fee; `Assess` is `assessExternalSignReview`, `DelegatedEntry` the search for the key's entry |
| `Signers` | `signers` (this device), `chain`, `signerJobs`, `desk`: add, finish and remove as jobs of several steps |
| `Views` | `view` the root and its hook, `gets` and `orders` the messages: hydration with retries, refreshes, the unlock gate, the set-up effect |
| `SignPage` | `loads` the page, `pageRows`, `pageMade` signatures: load, prepare, decide, sign, redirect; the popup on the same row |
| `PageCalls` | one `call` through its messages, `asked` rows, `grants`, `parted`, `broadcasts`, `listening` |
| `PasskeySigning` | `passkeyPrompt`, `promptsDone`; scalars are sequences of digits, `Der`, `DerToRs`, `Compact` are what the code does to them |
| `AuthEntries` | `sealing`, `probe`, `assembly`: entries are who, credentials, call tree, signature |
| `Toolbar` | `runs` of the worker that read and set the `button` in several calls, `funded`, `setUp`, `surface` |
| `TokenLists` | `listMemory`, `listStored`, `iconStored`, `iconAsk` the requests: icon kept, list in memory, in storage, fetched |
| `Prices` | `priceMemory`, `priceStored`, `flights` per set of tokens, `priceAsk` the calls that make or join one |

### Variants
A definition whose comment starts with "Variant" is a plausible bug, named in
`PROJECT.json` "mutants" or kept beside the definition it would replace; nothing else uses
it. Each property has one: put in place of the real definition, TLC finds the property
violated.

## 4. Runs

All runs bound what grows in the code: ids by `MaxId` (`MaxBuilds`), clocks by ages
that saturate past the TTL, handlers by the slots `Tasks` and by `MaxBusy` (how
many are inside the worker's own code at once; handlers waiting on something
outside do not count). A TTL of 0 ticks means the next tick expires: an instance
with a longer TTL only adds waiting. Symmetry is used for slots, origins and calls,
never with a liveness property. Deadlock is not checked: every instance stops once
its ids, calls, builds or changes are used up.

| Run | Module, cfg | Question | States (approx.) |
|---|---|---|---|
| `overlap` | MCDappApproval, Overlap | Two handlers interleaved at every await, one origin, two requests: `TypeOK`, `GrantNeedsApproval`, `AnswersAreEarned`, `InflightCanSettle` hold | 2.1 M |
| `serial` | MCDappApproval, Serial | All messages of two origins, time, both restarts, handlers not overlapping: the rows refine `RequestLifecycle`; a disconnect closes everything of its origin (`DisconnectCloses`) and nothing of the others (`DisconnectIsLocal`) | 1.0 M |
| `settle` | MCDappSystem, Settle | With a page, the toolbar popup, ticks and a restart, every call settles (`CallsSettle`); a rejection comes from the user or a disconnect (`OnlyTheUserRejects`) | 0.2 M |
| `faults` | MCDappSystem, Faults | With a durable window, an impatient page and a restart, "connected" and "signed" are true (`ConnectedIsEarned`, `SignedIsEarned`) | 1.2 M |
| `review` | MCConfirmPipeline, Review | Send from a passkey account on two surfaces, fees 0 or 1, time and closing surfaces: a build is signed once and as reviewed | 2.2 M |
| `reports` | MCConfirmPipeline, Reports | Swap from a seed account, restart and rules lost: refusals are earned, one run per key, reports are true, calls end | 0.4 M |
| `services` | MCServices, Services | Each part of `Services` alone, with two calls at a time: the properties of the table below, and every call ends | 0.28 M |
| `wallet` | MCWalletUse, Wallet | The store and the sync in nine scenes, and each part of `WalletUse` alone: the properties of the tables below | 1.6 M |

Two handlers and two requests are enough for the races at hand: a lost update needs
two writers, a coalesced prompt two requests of one origin, a wrong attribution a
second id. A third handler adds only a second loss of the same kind. The serial run
takes two origins, since it is about isolation. In `serial` handlers do not overlap
on purpose: with overlap the life cycle and the two disconnect properties do not
hold of the code (two resolves of one row read it before either writes, and the second
decision replaces the first), and the run shows that overlap is the only reason (`DappApprovalProofs` proves the same for any
number of requests). Two
builds and two calls let a second review replace the first and let two Confirms meet; a
run has one draft, so eviction from the store of eight and different drafts with one
coalescing key stay out.

### What `services` shows

| Property | What it says | Parts |
|---|---|---|
| `ServicesAnswer` | every call of a part ends, whatever the others do | all |
| `BridgeTellsTheOutcome` | a call answers with what the authenticator did in the window of its own ticket | `PasskeyBridge` |
| `ReserveKept` | two sweeping surfaces, late transactions and deposits never take the classic account below its floor by more than the one resource fee no sweep keeps back | `Migration` |
| `AnswersFindTheirPlace` | balances shown are of the account on screen, a price is of the token on screen | `Reads`, `Sending` |
| `HistoryKept` | a transfer once stored leaves the list only past the cap, with its account, or by an overlapping write | `Activity` |
| `CredentialsKeepTheirHost` | a token goes out for the wallet and to the host it was issued for, a ceremony ends with its host's cookie | `ApiSession` |
| `ChallengeUsedOnce` | the options of one begin reach the authenticator at most once, and those at hand are of this visit | `Enrolment` |
| `InvitesAreAccepted` | an invite is kept only with a credential the backend accepted | `MultisigDrafts` |
| `SignedIsShown` | an approval is of the proposal on screen at the click; the build reviewed is of the draft on the summary | `Proposals`, `Sending` |
| `MaxLeavesTheFee` | Max leaves the highest fee its probes were quoted, or sends nothing | `Sending` |

Bounds: two tickets, two surfaces, two accounts, two scans of at most two transfers (one
more than Horizon's window shows, so that a merge matters), two API calls, two ceremonies
and one switch of developer mode, two visits of a ceremony screen (so that an answer may
belong to the earlier one), two backend calls of a draft and of a proposal at a time with
two versions of a proposal, two begun operations of a send with fees of 0, 1 or 2 units on
a token with and without fees. One worker stop where the part keeps state in memory.

### What `wallet` shows

| Property | What it says | Part |
|---|---|---|
| `RowsAreConsistent` | a row never mixes two credentials' data, and the active account is stored, at every moment and with overlapping handlers | store |
| `SecretsFollowAccounts` | no key in memory and no stored seed without its account once no handler runs | store |
| `FundedAddressKept` | the address of a passkey account changes only back to the funded one | store |
| `NamesNotReused` | the counter never gives a passkey a number that is on record, also when two screens name passkeys at once, a finish is refused, a commit is lost or comes late, or the worker stops before a missing counter is written | store |
| `LogoutLeavesNothing` | after logout no row, seed, key, invite, removed address or cookie is left | store |
| `RemovedStaysRemoved` | a removed wallet is not stored again until the user adds it back or opens it | sync |
| `InvitesWait` | an invite is cleared only once the API lists its wallet | sync |
| `UseIsAsShown` | conjunction: a preview is of the field and the quote signed is the one shown (`SwapQuotes`); a swap pays what its screen says (`SwapBuilds`); a website's transaction calls what was reviewed, rules are set up for what it calls, a key signs its own entry (`Review`); whoever can sign is listed (`Signers`); the set-up opens only if the worker had no account (`Views`); the callback is true (`SignPage`); a page gets what its user gave it (`PageCalls`); the toolbar button does what was chosen (`Toolbar`); icons are of their network and of a list under two days old (`TokenLists`); a call for prices gets them (`Prices`) | the others |
| `SignaturesAreTheirOwn` | conjunction: a prompt's signature is of the passkey it names, its bytes in the low form the contract takes (`PasskeySigning`); a local build changes no entry but for the signature of its own (`AuthEntries`) | the two parts about bytes and call trees |

A **scene** names the messages that occur together, who signs, how many handlers overlap
and how many rows may be made: five scenes with one handler at a time (passkeys with worker
restarts; seeds with logout and developer mode; seeds with restarts; the sync with invites;
the sync with wallets opened and removed), two with two handlers on the store, one with two
passkeys named at once, a log-in and restarts, and one with a sync that overlaps a removal.
`NamesNotReused` is claimed of all: two screens name a passkey at the same time, and both may
find the counter missing. It says nothing of a number confirmed while another task was
between its read of the counter and its write (`WritesAlone`): that write may put the counter
back, although `storage.ts:588` says it cannot. `SecretsFollowAccounts`, `LogoutLeavesNothing`,
`RemovedStaysRemoved` and `FundedAddressKept` are claimed where handlers do not overlap
(`scene.busy = 1`): with overlap whole-list writes resurrect rows, which is a hazard of the
code and not of these properties' premises. For the same reason `RowsAreConsistent` claims
that the active account is stored for one handler at a time, or while neither
SET_ACTIVE_ACCOUNT nor a sync is among the messages: both look for a row, wait, and write
its id after another handler may have deleted it. `JoinedAs` is `{m1}` in `Wallet.cfg`,
a passkey created for the join, which no account here has, so that invites are matched by
address or member id; with the passkey of a local account as their credential the run
`invite_match` finds an import nobody asked for.

Other bounds of `Wallet.cfg`: passkeys are named until the counter is at two (`MaxSeq`), which
leaves room for two overlapping namings and a third that repeats a number or may not; a swap screen with two amounts, two quotes and three requests;
a catalog of four tokens with two price moves and one switch; website transactions with at
most one operation, whose builds list up to three entries; one backup passkey and two jobs;
two accounts of which one has a seed, two reads and one message of the root view; one load
of the sign-request page, with the popup beside it; a page that makes two calls or listens,
with one change of account or network while it calls and two while it listens; one passkey
prompt with scalars of two base-4 digits in a group of order 13, for the thirty-two bytes
of the real curve (a high digit, a leading zero and a high scalar all occur); one submission
and one local transaction whose call tree has four nodes
(`MaxCallDepth` bounds how deep one may go; three levels below the root hold them all); two toolbar runs at a time, two
changes and one worker restart; two requests for an icon with lists kept two units of time,
one switch and one stop; two calls for prices of two tokens.

### Where the code and its documents disagree

| Run | Property | What TLC shows |
|---|---|---|
| `signed_rejected` | `SignedIsReported` | The user confirms a signature in the toolbar popup; the passkey window takes the focus; the popup's pagehide rejects the row, status `signing` included; the transaction is submitted and the page hears "rejected" (README: resolves with `txHash`). |
| `regrant` | `DisconnectRevokes` | A row approved but not yet polled survives a disconnect; its poll grants the permission again and lifts the sticky mark (SDK README: the next `getPublicKey()` opens Grant Access again). |
| `rules_missing` | `MissingRulesReviewAgain` | A reviewed Confirm on a passkey account whose rules went missing ends in failure instead of going back to the summary: the passkey path drops the code of the submit error (`signBuiltTx.ts:89`). |
| `invite_match` | `ImportsAreMine` | An invite joined with a local passkey matches every wallet of the list (`syncHelpers.ts:131`): one the user only created is imported, which `syncLocalAccounts.test.ts:115` says is skipped. |

### Seen while modelling, claimed by no property

Websites: a disconnect closes its origin's window, whose pagehide rejects every request
the window lists, those of other origins included; an in-flight entry keeps the id of an
expired row; two upserts that overlap drop one row. On the sign-request page Reject does
not disable Confirm while it waits, popup and page may both sign one row, and a worker that
cannot be reached after the submission makes the page report `sign_failed`. A page call
that times out leaves a row that can still be approved; the kit takes an unknown passphrase
for testnet; one handler given to two kit events can be removed from one only; overlapping
broadcasts may deliver the older account last.

Review and signing: only the sets of contracts are compared, the other rows shown come from
the site's own XDR; Confirm signs with the account active at Confirm; a template without an
index is submitted with index 0 even when that entry is another's. A server's
`transports: ["internal"]` can hide a synced passkey. The probe's fallback overwrites the
second entry even if it is somebody else's (it is never submitted).

Swaps: the first opening selects XLM on both sides; one failed fetch of the token lists is
kept as an empty list for a day; the minimum built can be below the one shown when the
quote had promised more than the chain gave; quote, registry and build read the network
separately. Sends: a late Max patches the draft wherever the user is; a dollar amount is
converted at the previous token's price until the new one is there; a receipt offers "Try
again" for a confirmed send; an abandoned estimate still runs its setup.

Accounts: a wallet removed during a sync is imported again; of two overlapping confirmations
the one with the lower number may be written last, which `storage.ts:588` rules out; whole-list writes resurrect deleted rows; `addAccount`'s
import, signer choice and create views cannot be reached; an assertion may be finished
twice. Multisig: threshold updates go out unordered; a late answer of create or deploy
routes a user who has left; Execute acts on the open id while the screen shows another
proposal. Migration: no sweep keeps the resource fee back, hence the `ResourceFee` in
`ReserveKept`; an unreachable Horizon is cached as "nothing to migrate" for a minute.
Backup passkeys: one whose transaction was sent but whose hash was not kept can never be
finished, removed or replaced. Tokens: a refresh that loses the race clears the pair the
other has stored. Toolbar: a run that read before a change may set the button last; the
set-up page may be opened twice by two quick clicks. Requests: a cancel that comes after
the end leaves its id behind. Prices: one snapshot has one date, so a price that is never
asked for again looks as fresh as the newest; a call that joined another's request gets its
error even when a stale snapshot is at hand.

## 5. Fairness

- `DappSystem!Fairness`: weak fairness of every running handler (`Background`) and
  of its answer (`Deliver`), because the event loop resumes a handler whose await
  completed; strong fairness of a poll finding a slot, because Chrome queues every
  message while the model's slots are few; weak fairness of time.
- `ConfirmPipeline!Fairness`: weak fairness of a call's handler, of the store's
  queue and of a rule setup's end. The passkey ceremony times out after two minutes
  and the backend's answers are taken to come.
- Nothing is assumed of the user: calls settle because an unanswered row expires
  and the poll finds out. Restarts of the worker are bounded by `MaxRestarts` in
  `DappSystem`; in `ConfirmPipeline` they are not, since each one ends the calls it
  finds running.
- `ServicesSpec`: for each slot weak fairness of `ServiceOwes(k)`, what the worker and the
  browser owe that call: a timer set with `setTimeout` fires, a storage access or a request
  answers or fails (every fetch of the code has a timeout), a worker that runs goes on.
  Where calls are bounded in number and carry no slot (reads, drafts, proposals, sends) they
  are owed together, by the first slot. Users, other members and the chain owe nothing: a
  sweep ends because it gives up polling, not because its transaction lands.
- `UseSpec` has no fairness: its properties are safety.

`CallsSettle` leaves out openSignRequest: that handler waits on a promise of the
worker's memory for as long as the user likes, and only the page's own timeout
ends it.

`ServicesAnswer` is stated of the calls a worker stop does not end; a stop ends the others
at once.

## 6. Proofs

Eight modules hold theorems. They are proved for every value of the constants: any
origins, windows, surfaces, handlers, calls, requests, builds, tickets, accounts and
wallets, any TTL, fee and fund, any subset of the messages and faults. Bounds such as
`MaxId`, `MaxBusy`, `MaxRestarts` or `MaxBuilds` only restrict behaviours; the proofs hold
for all their values.

| Module | Theorem | Statement |
|---|---|---|
| `DappApprovalProofs` | `TypeCorrect`, `Typed` | `Spec => []TypeInv`, hence `Spec => []TypeOK` |
| | `ConsentAlways` | `Spec => []Consent`, the inductive invariant |
| | `GrantsNeedApproval` | `Spec => []GrantNeedsApproval` |
| | `AnswersEarned` | `Spec => []AnswersAreEarned` |
| | `InflightSettles` | `Spec => []InflightCanSettle` |
| | `SerialKept` | `Spec => []SerialInv`, if handlers do not overlap (`Serial`); the next three rest on it |
| | `LifecycleImplemented` | `Spec => LifecycleSpec`, the refinement of `RequestLifecycle` |
| | `DisconnectsClose`, `DisconnectsAreLocal` | the action properties `DisconnectCloses`, `DisconnectIsLocal` |
| `DappSystemProofs` | `SystemKept`, `SystemTyped` | `SysSpec => []SysInv`, hence `SysSpec => []SysTypeOK` |
| | `ConnectedEarned`, `SignedEarned` | `SysSpec => []ConnectedIsEarned`, `[]SignedIsEarned` |
| | `RejectedByTheUser` | `SysSpec => []OnlyTheUserRejects` |
| `ConfirmPipelineProofs` | `PipelineTyped`, `PipelineTypeOK` | `Spec => []TypeInv`, hence `Spec => []TypeOK` |
| | `OneRunOfAKey` | `Spec => []OneRunPerKey` |
| | `BuildSignedOnce`, `SignedWhatWasReviewed` | `Spec => []SignedOnce`, `[]SignedAsReviewed` |
| | `ReportsTrue`, `RefusalEarned` | `Spec => []ReportsAreTrue`, `[]RefusalIsEarned` |
| `ServicesProofs` | `OutcomeTold`, `InvitesAccepted`, `ChallengesUsedOnce`, `MaxPaysTheFee`, `SignedAsShown`, `AnswersInPlace`, `CredentialsKept` | `ServicesSpec => []BridgeTellsTheOutcome`, `[]InvitesAreAccepted`, `[]ChallengeUsedOnce`, `[]MaxLeavesTheFee`, `[]SignedIsShown`, `[]AnswersFindTheirPlace`, `[]CredentialsKeepTheirHost` |
| | `SweepsKeepTheReserve`, `StoredHistoryKept` | the action properties `ReserveKept`, `HistoryKept` |
| | `ServicesTyped` | `ServicesSpec => []ServicesTypeOK` |
| `UseProofs` | `UseAsShown` | `UseSpec => []UseIsAsShown`, from the theorems below, each of which holds of its part in every behaviour |
| | `SetupNeedsAnEmptyWallet`, `SignersListed`, `ReviewedAsPrepared` | `UseSpec => []SetupOnlyWhenEmpty`, `[]SignersAreListed`, `[](ReviewedIsPrepared /\ SetupIsNamed /\ KeySignsItsEntry)` |
| | `QuotesFit`, `SwapsPay` | `UseSpec => [](PreviewIsOfTheField /\ SignedQuoteIsShown)`, `[]SwapPaysAsShown` |
| | `CallbacksTrue`, `PagesAnswered` | `UseSpec => []CallbackIsTrue`, `[]PageIsAnswered` |
| | `ButtonIsRight`, `IconsFit`, `PricesAnswered` | `UseSpec => []ButtonOpensTheWallet`, `[](IconIsOfItsNetwork /\ ListIsRecent)`, `[]AnswerHasThePrices` |
| `WalletRows` | `RowsStayConsistent` | `UseSpec => []RowsAreConsistent` |
| `WalletProofs` | `RetiredNumbersStay`, `SecretsHaveTheirAccount` | `UseSpec => []NamesNotReused`, `[]SecretsFollowAccounts` |
| | `LogoutClears` | the action property `LogoutLeavesNothing` |
| `WalletAddresses` | `RemovedStayAway`, `FundedStays` | the action properties `RemovedStaysRemoved`, `FundedAddressKept` |

**Assumptions.** Each is an ASSUME of the module that declares the constant, checked by TLC
with the runs: bounds, fees and funds are natural numbers; a value that means "none" is not
among the values it stands beside; functions have the domains they are used with; `Ops` is
a set of known messages and faults; the sets of handlers and of assets are finite (the
proofs pick the one handler that moves, and count sweeps); there is an account on screen;
entries of a build are numbered; no page of websites has the popup's number, 0; a website
calls in one of the four ways of the SDK; what Chrome says of a sender the code trusts is so
(`FramesAssumption`: the address of a frame's script, or else its tab's, is its own origin);
neither the factory address of a signer nor the hint of a credential is a multisig wallet.

### Websites: consent

**The type invariant.** `TypeOK` alone is not inductive: an action that moves on
from `upsert` needs to know that the slot holds an id, one that answers a poll that
it is a poll. `TypeInv` adds which `pc` each kind of handler can be at and which
fields are filled in there (`Located`).

**The consent invariant.** A permission is granted from a *copy* that may be stale,
by a handler that may have started before the approval. `GrantNeedsApproval` says
nothing of the copies in flight, so it is not inductive. `Consent` strengthens it
with five parts. `RowsConsent`: a row names a request that was handed out, and if
it is approved the user approved that connect request, or that transaction was
signed. `PermsConsent`: every origin in `permissions` consented. `TasksHonest`: the
same of every *copy* a handler holds, of the verdict it is about to write or has
been handed, and of its answer; a handler standing at `grant` serves an origin that
consented. `Handed`: only requests that were handed out are approved or signed, so
a fresh id starts with neither. `InflightOK`: an in-flight entry names a registered
resolver of the same origin. A stale copy can then
only write back what was once consented to, and consent is never taken from the
history. That is why no lost update gives a permission away, although lost updates
do happen and consent can outlive a disconnect (`regrant`).

**Handlers that do not overlap.** The life cycle and the promises of a disconnect are false
of the code when handlers overlap: a lost update revives a decided row, or gives a permission
back (`regrant`). `Serial` says that they do not: `MaxBusy = 1` and finitely many slots. It is
a hypothesis of these theorems, not an assumption of the module, and it does not exclude
handlers that wait, ticks between any two steps, or restarts. `SerialInv` then says that one
handler at most is inside the worker's code (`Alone`; those that only answer may be many); that a copy is what is stored,
or, between a sweep's read and its write, differs from it only in rows the sweep expires or drops
(`CopyNow`), and ages with it; that a row about to be created is not there (`NotStored`); and that
of the live requests of a disconnecting origin those and no others are left to be rejected (`Closing`).
So every write of rows is one step of `RequestLifecycle`: an `Ask`, a `StartSigning`, a
`Decide`, a `Sweep` or a `Lose`, and every other step leaves the statuses alone (`Refines`).

**The closed system.** A step of `DappSystem` is a step of `DappApproval` or leaves it
alone, so `TypeInv` and `Consent` hold of it. What a page hears travels further: into a
handler's answer, to the bridge, into a call that polls on, perhaps over a restart. `SysInv`
says of each place what it may know (`Known`): a call that names a request has the request's
origin and kind, a heard "connected" has consent, a heard "signed" its own signature.
For rejections the same is said with an *excuse*: a rejected row, copy, verdict or answer
belongs to a request that a surface or the user dismissed, or to an origin whose page
called disconnect (`Excused`). Excuses are history and stay (`Growing`). Expiry and
restarts give none, which is why they are never told as a rejection. The window a worker
closes may list requests of other origins; its pagehide dismisses those too, and they count
as dismissed by a surface that went away.

### Confirm

`PipelineTyped` carries more than types: a call's draft, build and shown fee fit the builds
made so far (`CallFits`, `JobFits`), which is already the half of `SignedAsReviewed` that
is about drafts. `RunInv` is about the coalescing map: who is entered in it runs that key,
who runs is entered, who shares waits for one who runs. `StoreInv` is about the store and
its queue: only the first job has read, and its copy is still what is stored (`OneAtATime`,
the promise chain of `reviewedBuildStore.ts`); a build is in one place only, its reply to
come, its save queued or stored (`Apart`); a build has one owner, who took it or made it
(`OneOwner`). A build is signed by its owner and no second owner can appear, because a take
removes it from the store in the same job: `SignedOnce`. `ReportInv` relates results,
record and `accepted`: a result appears only after the submission, a sharing call gets its
leader's. `EarnedInv`: what is reviewed, or was shown at a click, is `Secured`, that is
stored, queued for saving or gone by a recorded cause, and a take in the queue stands
behind its save. That is why a refusal has a cause.

### Services

The parts share no state: `ServicesNext` moves one part and leaves the others
(`Using`), so a step of the whole is a step, or none, of each part. Each invariant is proved
from its part's own `Init` and `Next` and carried over; the same holds of `WalletUse`.

| Part | Inductive invariant |
|---|---|
| `PasskeyBridge` | whatever is stored, on its way or answered is what the authenticator did under that ticket, and only after the page took the options |
| `MultisigDrafts` | a join the backend took notes its credential; of another's draft only those that joined are members here; an answer on its way may note only what was accepted |
| `Enrolment` | options at hand are of the last visit and not handed out unless the authenticator is at work; one request per visit, before its options are there |
| `Sending` | of a Max under way the amount is what the fee it counts on leaves, and no quoted fee was higher; an estimate is of the draft on screen; a price on its way is of the token chosen last |
| `Proposals` | an approval under way is of the proposal on screen at its click |
| `Reads` | an answer to come for the current request is of the account on screen |
| `ApiSession` | every copy of the token store files a pair under its wallet and the network of its host; a call holds its own pair; slot and ceremony hold the cookie of their host, except what was under way when the host changed |
| `Migration` | only transactions of the next sequence number can land, each decided on the balance the account still has, or on less |
| `Activity` | what is stored, found or read happened |

`ServicesTyped` says that the state of every part has the shape its type invariant gives it.
Most of that reads off the assignments; the rest does not: a stored outcome is of a proposal,
an address is in the book once, a classic balance does not go below zero, a stored token
pair was issued. Each part but the bridge gets a `...Shape` that strengthens its type invariant
on top of the invariant of the table (`SendShape`: the confirm under way is the only one and keeps the
screen on its summary; `ApiShape`: the pair a call holds was issued, and so was every pair
of the copy of the store it writes back; `DraftCallTyped`: an answer under way names the owners it may
note). The parts are joined in `ServicesShape`.

### Wallets

Records the handlers pass around get fields of their own per operation, so the proofs carry
their shape (`Shaped`) where an action updates a field.

- `ControlKept` says which operation may be at which label, and that with `scene.busy = 1`
  at most one handler is away from `idle` (`Alone`). `RowsKept` adds the rows: data is of
  its credential in every bucket *and in everything a handler is about to write*
  (`GoodRow`, `RowAt`); where the property claims it (`MayPoint`) a list and the active id
  written with it fit; and the list of a handler that runs alone is the one stored
  (`AloneAt`). A step moves one handler (`Moved`); a lemma of its own treats the many that
  leave rows and copies alone (`Quiet`), so that only those that read or write rows remain.
- `OwnKept` is a table of the labels each operation goes through. On top of it `NamesKept`
  (the counter is missing or has reached every number on record, no handler holds a lower one
  to write, and one that writes a missing counter knows of none on record), `LogoutKept` (keys
  and session are gone with LOGOUT's first write, everything else with its last) and `SecretsKept` (a
  key or seed has its account, or the deletion that took the account is yet to take the
  secret; an import that stores a seed has stored its row).
- `TruthKept` (`WalletAddresses`) is what the two address properties need. Stored rows have
  ids of their own, and no signer's account has a wallet's address (`StoredTruth`). A row
  about to be created is of a signer, or of a wallet that is stored already or was not
  removed, and one with an id keeps the address stored under it (`MadeAt`, through the merge
  of createAccount). A sync's copies of rows and removed addresses are still what is stored
  (`CopyAt`), and what a repair has read it may put back: the stored address is the funded one
  or displaces it (`FixAt`). Every write is then of one form (`Writing`): rows that are
  kept, an address that moves only to `displaced[...]`, and a removed wallet only if the
  handler is the user's own add or open.

### The use of a wallet

Every step of `WalletUse` is a step, or none, of each part (`ViewsOnly` and its like), so each
invariant is proved from its part's own `Init` and `Next`.

| Part | Inductive invariant |
|---|---|
| `Views` | a view, or an answer on its way to it, that knows of no account comes from a worker that had none |
| `Signers` | what is in the rule or in the index was added; two jobs never add one passkey, and the one that may has a row and was never sent; a removal that settled took its passkey off the rule before its row goes |
| `Review` | with the properties themselves: nothing is set up before the request is resolved |
| `SwapQuotes` | requests are numbered, the current one is of the field; while a quote of the confirm screen is asked for, nothing is prepared and nothing is taken as reviewed |
| `SwapBuilds` | an offer asks no more than slippage leaves of its price; a transaction holds its offer's minimum or that of a probe that did worse; slippage is monotone (`SlipGrows`) |
| `SignPage` | what a page holds, is told or redirects with was made for the row it shows, by this page or the popup; a row that is approved has its signature; a page that rejected shows no row that still lives |
| `PageCalls` | a granted origin has an approved connect row; a call that waits names a row of its own origin, account, network and way; an answer's row is decided for good; while events come one by one each says nothing but what is active |
| `Toolbar` | some run is yet to look at everything, or to apply what it saw, or the button is right already, except for what a fresh run is about to set |
| `TokenLists` | what is kept is of its network and was fetched less than its time before it was kept, on a clock that only grows |
| `Prices` | while the market's answer is written it is in memory, and no snapshot that could replace it is being read |

The callback (`SignPage`) and the page's answer (`PageCalls`) travel over sequences of rows
that other actors decide meanwhile; their proofs say once what a row may become (`Follow`
and its like) and that each claim survives it.

That a list has a first row with some property is the least counterexample of the naturals
(`WFMin`); how many sweeps are to come is counted with `FiniteSetTheorems`.

### Only model-checked

- `CallsSettle`, `CallsEnd` and `ServicesAnswer` are liveness under fairness, which the
  prover does not handle (nor `ENABLED`).
- `InvitesWait` is not true for all constants either: it needs `JoinedAs` without
  credentials of local accounts (`invite_match`) and, with overlap, that a list of invites
  is not written back by another handler.
- `SignaturesAreTheirOwn` is about what folds compute: the digits of scalars through DER and
  back, and the nodes of call trees. A proof is an induction over that data.
- `UseTypeOK` joins the typing of 13 parts. What the other proofs need of it is in their
  invariants; the whole is left to TLC.
- What a recursive definition computes for every input is out of the provers' reach
  (induction theorems take an operator), and no module here declares a RECURSIVE operator.

## 7. Not modelled

- **Cosign** (`background/cosign`, `CosignRouteViews`, `CosignJoinFlow`): neither
  `tryHandleCosignMessage` nor the route views are imported by anything that runs.
- **The import, signer-choice and create views of `AccountRouteViews`**: every way into
  them leads home first.
- **Deposit** and the remaining **read** handlers: request wrappers over the API. What a price
  or a list can do to a send or a swap is an input of `Sending` and `SwapBuilds`; how one list
  entry is parsed and how fiat sums are rounded is left out.
- **Rendering**: layout, wording, toasts, news, QR codes.
- `packages/types`, `packages/crypto`, `packages/ui`: declarations, primitives, components.
- The debug messages that set permissions directly; the bridge's isConnected ping; failures
  of `chrome.storage` other than those of the bridge's options and the session list.
- Cryptography, XDR bytes and HTTP are external: a signature either verifies or not, a
  backend call answers with one of its outcomes.
