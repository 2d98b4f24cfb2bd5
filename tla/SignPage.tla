------------------------------ MODULE SignPage -------------------------------
(***************************************************************************)
(* The page a website opens to have a transaction signed                   *)
(* (tabs/sign-request.tsx): it reads its request from its address          *)
(* (externalSign/parseSignRequest.ts), has it prepared, which also stores  *)
(* a row the popup lists, lets the user decide, signs in the page          *)
(* (ui/lib/signBuiltTx.ts) and goes to the callback with the result        *)
(* (externalSign/callbackUrl.ts).  The page may be closed or opened twice, *)
(* the popup may decide the same row, the account and the network change,  *)
(* the worker stops.                                                       *)
(***************************************************************************)
EXTENDS Naturals, Sequences

CONSTANTS PageLoads,    \* openings of the page
          PageWallets,  \* addresses of smart accounts
          SeedPages,    \* those whose account signs with a seed
          Queries,      \* what websites ask for
          Stashes,      \* what the backend keeps for a payload reference
          MaxPageMoves  \* bound on changes of account, of network and of the site's permission

ASSUME SignPageAssumption ==
    /\ SeedPages \subseteq PageWallets /\ MaxPageMoves \in Nat
    /\ 0 \notin PageLoads    \* the popup signs as 0

VARIABLES
    loads,     \* each opening of the page
    pageRows,  \* the rows of the request store, in the order they were made
    pageHere,  \* the active account and network
    popupAt,   \* the row the worker signs for the popup
    pageMade,  \* the signatures made
    siteAllowed,
    pageMoves

signPageVars == <<loads, pageRows, pageHere, popupAt, pageMade, siteAllowed, pageMoves>>

PageNets == {"testnet", "mainnet"}
NoResult == << >>
NotTold == [status |-> "none", to |-> "none", result |-> NoResult, fragment |-> NoResult]
NoRow == 0
LiveStatuses == {"awaiting_user", "signing"}

(* A page: where it is, its request and what that came to, the account it  *)
(* signs with, its row, the signing under way, what the site was told.     *)
Unopened ==
    LET q == CHOOSE x \in Queries : TRUE
    IN [at |-> "unopened", q |-> q,
        asked |-> [net |-> q.net, wallet |-> q.wallet, callback |-> q.callback, submit |-> TRUE],
        account |-> pageHere.wallet, row |-> NoRow, job |-> "none", signNet |-> pageHere.net,
        rejecting |-> FALSE, got |-> NoResult, told |-> NotTold]

SignPageInit ==
    /\ pageHere = [wallet |-> CHOOSE w \in PageWallets : TRUE, net |-> "testnet"]
    /\ loads = [l \in PageLoads |-> Unopened]
    /\ pageRows = << >>
    /\ popupAt = [row |-> NoRow]
    /\ pageMade = {} /\ siteAllowed = FALSE /\ pageMoves = 0

-----------------------------------------------------------------------------
(* The request.                                                            *)

(* assertAllowedCallbackUrl: https, or http to this machine.               *)
AllowedCallback(url) == url \notin {"none", "script", "plain"}

(* parseSignRequestFromSearchParams: a network, an account, one of a       *)
(* transaction and a reference, and a callback.                            *)
Parses(q) ==
    /\ q.net \in PageNets /\ q.wallet \in PageWallets
    /\ q.tx \in {"xdr", "ref"}
    /\ AllowedCallback(q.callback)

(* parseSubmitFlag: submitting is what happens unless it is refused.       *)
Submits(flag) == flag \notin {"false", "0"}

(* buildSignRequestSearchParams, read back by the page.                    *)
Parsed(q) == [net |-> q.net, wallet |-> q.wallet, callback |-> q.callback,
              submit |-> Submits(q.submit)]

(* Variant: the page's callback is not compared with the stored one. *)
AgreesSomewhat(q, s) == s.net = q.net /\ s.wallet = q.wallet

(* resolveUnsignedXdr: what is stored must be for the callback, the        *)
(* network and the account of the page.                                    *)
Agrees(q, s) == s.net = q.net /\ s.wallet = q.wallet /\ s.callback = q.callback

(* What is stored decides about submitting when it says so.                *)
Resolved(q, s) == [Parsed(q) EXCEPT !.callback = s.callback,
                   !.submit = IF s.submit = "unsaid" THEN @ ELSE Submits(s.submit)]

(* externalResultToCallback: what was signed but not submitted travels in  *)
(* the fragment.                                                           *)
Told(asked, status, result, byPage) ==
    [status |-> status, to |-> asked.callback,
     result |-> IF asked.submit THEN result ELSE NoResult,
     fragment |-> IF asked.submit \/ ~byPage THEN NoResult ELSE result]

Redirects(load, status, result, byPage) ==
    [load EXCEPT !.at = "redirecting",
                 !.told = Told(load.asked, status, result, byPage)]

(* backendErrorToExternalSignResult: the site learns that it failed.       *)
PrepareFailed(load) == Redirects(load, "error", NoResult, FALSE)

-----------------------------------------------------------------------------
(* Opening.                                                                *)

(* DAPP_OPEN_SIGN_REQUEST: a site that is not connected asks the user      *)
(* first, and is connected then.                                           *)
OpenSignRequest(l, q) ==
    /\ loads[l].at = "unopened"
    /\ loads' = [loads EXCEPT ![l] =
                    [@ EXCEPT !.at = IF Parses(q) THEN "listing" ELSE "error",
                               !.q = q, !.asked = Parsed(q)]]
    /\ siteAllowed' = TRUE
    /\ UNCHANGED <<pageRows, pageHere, popupAt, pageMade, pageMoves>>

(* GET_ACCOUNTS: the account the page will sign with.                      *)
ListAccounts(l) ==
    /\ loads[l].at = "listing"
    /\ loads' = [loads EXCEPT ![l].at = "preparing", ![l].account = pageHere.wallet]
    /\ UNCHANGED <<pageRows, pageHere, popupAt, pageMade, siteAllowed, pageMoves>>

(* PREPARE_EXTERNAL_SIGN: the request, and the account active by now.      *)
StartPreparing(l) ==
    LET load == loads[l] IN
    /\ load.at = "preparing"
    /\ \E s \in Stashes :
          LET asked == IF load.q.tx = "ref" THEN Resolved(load.q, s) ELSE Parsed(load.q)
              fits == /\ load.q.tx = "ref" => Agrees(load.q, s)
                      /\ asked.wallet = pageHere.wallet
          IN loads' = [loads EXCEPT ![l] =
                          IF fits THEN [load EXCEPT !.at = "asking", !.asked = asked]
                          ELSE PrepareFailed(load)]
    /\ UNCHANGED <<pageRows, pageHere, popupAt, pageMade, siteAllowed, pageMoves>>

NewPageRow(asked, blocked) ==
    [net |-> asked.net, wallet |-> asked.wallet, callback |-> asked.callback,
     submit |-> asked.submit, blocked |-> blocked, status |-> "awaiting_user",
     result |-> NoResult]

(* The backend's answer is reviewed and stored; the page may have stopped  *)
(* waiting for it.                                                         *)
PrepareEnds(l) ==
    LET load == loads[l] IN
    /\ load.at = "asking"
    /\ \/ /\ \E blocked \in BOOLEAN : pageRows' = Append(pageRows, NewPageRow(load.asked, blocked))
          /\ \/ loads' = [loads EXCEPT ![l].at = "review", ![l].row = Len(pageRows) + 1]
             \/ loads' = [loads EXCEPT ![l].at = "error"]
       \/ /\ loads' = [loads EXCEPT ![l] = PrepareFailed(@)]
          /\ UNCHANGED pageRows
    /\ UNCHANGED <<pageHere, popupAt, pageMade, siteAllowed, pageMoves>>

(* No answer: the error is shown, the site is not told.                    *)
LoadFails(l) ==
    /\ loads[l].at \in {"listing", "preparing", "asking"}
    /\ loads' = [loads EXCEPT ![l].at = "error"]
    /\ UNCHANGED <<pageRows, pageHere, popupAt, pageMade, siteAllowed, pageMoves>>

-----------------------------------------------------------------------------
(* The store of requests (resolveDappRequest): the first decision counts.  *)

Decided(row, status, result) ==
    IF row.status \in LiveStatuses THEN [row EXCEPT !.status = status, !.result = result] ELSE row

(* The decision of the page.                                               *)

(* ExternalSignReviewScreen: Confirm is there unless the review blocks it  *)
(* or the page already signs.                                              *)
Confirmable(load) == load.job = "none" /\ ~pageRows[load.row].blocked

(* Both buttons are there until Confirm is pressed; Reject disables        *)
(* neither.                                                                *)
PressConfirm(l) ==
    LET load == loads[l] IN
    /\ load.at = "review" /\ Confirmable(load)
    /\ loads' = [loads EXCEPT ![l].signNet = pageHere.net,
                    ![l].job = IF load.account \in SeedPages THEN "signing" ELSE "submitting"]
    /\ UNCHANGED <<pageRows, pageHere, popupAt, pageMade, siteAllowed, pageMoves>>

(* SIGN_DELEGATED_G_AUTH_ENTRY: the page, while it is there, submits.      *)
SignEnds(l) ==
    /\ loads[l].job = "signing"
    /\ loads' = [loads EXCEPT ![l].job =
                    IF loads[l].at # "review" THEN "dropped"
                    ELSE IF loads[l].account = pageRows[loads[l].row].wallet THEN "submitting"
                    ELSE "failing"]
    /\ UNCHANGED <<pageRows, pageHere, popupAt, pageMade, siteAllowed, pageMoves>>

(* The chain takes the signature of the account's key, over its network.   *)
SignatureCounts(load, row) ==
    /\ load.account = row.wallet
    /\ load.account \in SeedPages => load.signNet = row.net

(* SUBMIT_TX_DELEGATED, SIGN_PASSKEY_BUILT_TX: with a hash or without one, *)
(* or the answer does not come back.                                       *)
SubmitEnds(l) ==
    LET load == loads[l]
        row == pageRows[load.row]
        made == [row |-> load.row, load |-> l, wallet |-> load.account, id |-> <<load.row, l>>,
                 submitted |-> row.submit]
        After(job) == IF load.at = "review" THEN job ELSE "dropped"
    IN /\ load.job = "submitting"
       /\ \/ /\ SignatureCounts(load, row)
             /\ pageMade' = pageMade \cup {made}
             /\ \/ \E got \in {made.id, NoResult} :
                      loads' = [loads EXCEPT ![l].job = After("approving"), ![l].got = got]
                \/ loads' = [loads EXCEPT ![l].job = After("failing")]
          \/ /\ loads' = [loads EXCEPT ![l].job = After("failing")]
             /\ UNCHANGED pageMade
       /\ UNCHANGED <<pageRows, pageHere, popupAt, siteAllowed, pageMoves>>

(* The row is approved, whatever its state is, and the site told; when     *)
(* the worker does not answer, that it failed.                             *)
PageApproves(l) ==
    LET load == loads[l] IN
    /\ load.at = "review" /\ load.job = "approving"
    /\ pageRows' = [pageRows EXCEPT ![load.row] = Decided(@, "approved", load.got)]
    /\ \/ loads' = [loads EXCEPT ![l] = [Redirects(@, "signed", load.got, TRUE) EXCEPT !.job = "done"]]
       \/ loads' = [loads EXCEPT ![l].job = "failing"]
    /\ UNCHANGED <<pageHere, popupAt, pageMade, siteAllowed, pageMoves>>

PageFails(l) ==
    LET load == loads[l] IN
    /\ load.at = "review" /\ load.job = "failing"
    /\ pageRows' = [pageRows EXCEPT ![load.row] = Decided(@, "rejected", NoResult)]
    /\ loads' = [loads EXCEPT ![l] = [Redirects(@, "error", NoResult, TRUE) EXCEPT !.job = "done"]]
    /\ UNCHANGED <<pageHere, popupAt, pageMade, siteAllowed, pageMoves>>

(* handleReject waits for the worker before it leaves.                     *)
PressReject(l) ==
    LET load == loads[l] IN
    /\ load.at = "review" /\ load.job = "none" /\ ~load.rejecting
    /\ pageRows' = [pageRows EXCEPT ![load.row] = Decided(@, "rejected", NoResult)]
    /\ loads' = [loads EXCEPT ![l].rejecting = TRUE]
    /\ UNCHANGED <<pageHere, popupAt, pageMade, siteAllowed, pageMoves>>

RejectAnswered(l) ==
    /\ loads[l].at \in {"review", "redirecting"} /\ loads[l].rejecting
    /\ loads' = [loads EXCEPT ![l] =
                    [Redirects(@, "rejected", NoResult, FALSE) EXCEPT !.rejecting = FALSE]]
    /\ UNCHANGED <<pageRows, pageHere, popupAt, pageMade, siteAllowed, pageMoves>>

(* dismissPendingOnClose: also while the page signs.                       *)
ClosePage(l) ==
    LET load == loads[l] IN
    /\ load.at \in {"listing", "preparing", "asking", "review", "error"}
    /\ loads' = [loads EXCEPT ![l].at = "closed", ![l].rejecting = FALSE]
    /\ pageRows' = IF load.at = "review"
                   THEN [pageRows EXCEPT ![load.row] = Decided(@, "rejected", NoResult)]
                   ELSE pageRows
    /\ UNCHANGED <<pageHere, popupAt, pageMade, siteAllowed, pageMoves>>

-----------------------------------------------------------------------------
(* The same rows elsewhere.                                                *)

(* executeDappExternalSignInBackground: the list of the popup may be older *)
(* than the row: one that has ended is signed all the same.                *)
PopupConfirms(r) ==
    /\ popupAt.row = NoRow /\ ~pageRows[r].blocked
    /\ popupAt' = [row |-> r, wallet |-> pageHere.wallet]
    /\ pageRows' = [pageRows EXCEPT ![r] = Decided(@, "signing", NoResult)]
    /\ UNCHANGED <<loads, pageHere, pageMade, siteAllowed, pageMoves>>

PopupEnds ==
    LET r == popupAt.row
        made == [row |-> r, load |-> 0, wallet |-> popupAt.wallet, id |-> <<r, 0>>,
                 submitted |-> pageRows[r].submit]
    IN /\ r # NoRow
       /\ popupAt' = [row |-> NoRow]
       /\ \/ /\ popupAt.wallet = pageRows[r].wallet
             /\ pageMade' = pageMade \cup {made}
             /\ pageRows' = [pageRows EXCEPT ![r] = Decided(@, "approved", made.id)]
          \/ /\ pageRows' = [pageRows EXCEPT ![r] = Decided(@, "rejected", NoResult)]
             /\ UNCHANGED pageMade
       /\ UNCHANGED <<loads, pageHere, siteAllowed, pageMoves>>

(* The popup's Reject, the row's five minutes (expireStaleDappRequests).   *)
RowEnds(r) ==
    /\ pageRows[r].status \in LiveStatuses
    /\ \E status \in {"rejected", "expired"} :
          pageRows' = [pageRows EXCEPT ![r] = Decided(@, status, NoResult)]
    /\ UNCHANGED <<loads, pageHere, popupAt, pageMade, siteAllowed, pageMoves>>

(* DAPP_DISCONNECT: the site's live rows are rejected.                     *)
SiteLeaves ==
    /\ siteAllowed /\ pageMoves < MaxPageMoves
    /\ siteAllowed' = FALSE /\ pageMoves' = pageMoves + 1
    /\ pageRows' = [r \in DOMAIN pageRows |-> Decided(pageRows[r], "rejected", NoResult)]
    /\ UNCHANGED <<loads, pageHere, popupAt, pageMade>>

PageMoves ==
    /\ pageMoves < MaxPageMoves /\ pageMoves' = pageMoves + 1
    /\ pageHere' \in [wallet : PageWallets, net : PageNets] \ {pageHere}
    /\ UNCHANGED <<loads, pageRows, popupAt, pageMade, siteAllowed>>

(* The worker stops: what it did for the popup is not done.                *)
PageWorkerStops ==
    /\ popupAt.row # NoRow /\ pageMoves < MaxPageMoves /\ pageMoves' = pageMoves + 1
    /\ popupAt' = [row |-> NoRow]
    /\ UNCHANGED <<loads, pageRows, pageHere, pageMade, siteAllowed>>

SignPageNext ==
    \/ \E l \in PageLoads :
          \/ \E q \in Queries : OpenSignRequest(l, q)
          \/ ListAccounts(l) \/ StartPreparing(l) \/ PrepareEnds(l) \/ LoadFails(l)
          \/ PressConfirm(l) \/ SignEnds(l) \/ SubmitEnds(l) \/ PageApproves(l) \/ PageFails(l)
          \/ PressReject(l) \/ RejectAnswered(l) \/ ClosePage(l)
    \/ \E r \in DOMAIN pageRows : PopupConfirms(r) \/ RowEnds(r)
    \/ PopupEnds \/ SiteLeaves \/ PageMoves \/ PageWorkerStops

-----------------------------------------------------------------------------
SignPageTypeOK ==
    /\ \A l \in PageLoads :
          /\ loads[l].at \in {"unopened", "listing", "preparing", "asking", "review",
                              "redirecting", "error", "closed"}
          /\ loads[l].job \in {"none", "signing", "submitting", "approving", "failing",
                               "done", "dropped"}
          /\ loads[l].told.status \in {"none", "signed", "rejected", "error"}
          /\ loads[l].row \in 0 .. Len(pageRows)
    /\ \A r \in DOMAIN pageRows :
          pageRows[r].status \in LiveStatuses \cup {"approved", "rejected", "expired"}
    /\ pageHere \in [wallet : PageWallets, net : PageNets]
    /\ popupAt.row \in 0 .. Len(pageRows)
    /\ \A s \in pageMade : s.row \in DOMAIN pageRows /\ s.load \in PageLoads \cup {0}
    /\ siteAllowed \in BOOLEAN /\ pageMoves \in 0 .. MaxPageMoves

(* The callback gets the truth: "signed" means that this page signed what  *)
(* it showed, with the key of the account shown, and the hash is that      *)
(* signature's; a request that is not to be submitted is not; the result   *)
(* goes where the website that opened the page asked for it; an approved   *)
(* row has the result of a signature of its own.                           *)
CallbackIsTrue ==
    /\ \A l \in PageLoads :
          LET load == loads[l]
              told == load.told
          IN /\ told.status # "none" => told.to = load.q.callback
             /\ told.status = "signed" =>
                   \E s \in pageMade :
                      /\ s.load = l /\ s.row = load.row
                      /\ s.wallet = pageRows[load.row].wallet
                      /\ {told.result, told.fragment} \subseteq {s.id, NoResult}
             /\ told.status = "rejected" => pageRows[load.row].result # <<load.row, l>>
    /\ \A s \in pageMade :
          pageRows[s.row].submit = s.submitted /\ ~pageRows[s.row].blocked
    /\ \A r \in DOMAIN pageRows :
          pageRows[r].status = "approved" =>
             \E s \in pageMade : s.row = r /\ pageRows[r].result \in {s.id, NoResult}
=============================================================================
