----------------------------- MODULE SwapQuotes -----------------------------
(***************************************************************************)
(* Swap quotes from the typed amount to Confirm: the preview of the swap   *)
(* screen (ui/screens/SwapScreen.tsx), the worker's quote cache            *)
(* (background/swap/quoteCache.ts, handlers.ts), and the confirm screen    *)
(* that refreshes a quote near its expiry, prepares the transaction to     *)
(* show its fee, and refuses to sign anything else                         *)
(* (ui/swap/useSwapConfirmQuote.ts, swapQuoteRefresh.ts,                   *)
(* SwapRouteViews.tsx).  Answers come back in any order.                   *)
(* A quote is an amount and a number; the number stands for its expiry.    *)
(***************************************************************************)
EXTENDS Naturals, FiniteSets

CONSTANTS Amounts,     \* what the user may type: amount, pair and account as one
          MaxQuotes,   \* bound on the quotes the provider gives
          MaxAsks,     \* bound on the requests of the two screens
          Providers    \* whose quotes: "soroswap" asks again on entry, "other" does not

ASSUME SwapAssumption == 0 \notin Amounts /\ MaxQuotes \in Nat /\ MaxAsks \in Nat

VARIABLES
    typed,       \* the amount in the field, 0 when there is none
    preview,     \* the quote the swap screen shows
    asking,      \* the swap screen: current request (0 none), loading, debounced
    asks,        \* requests in flight: <<who, id, amount, answer, 0 before one>>
    quoteCache,  \* Amounts -> the cached answer, 0 when there is none
    quoteAge,    \* quote numbers -> "good", "lead" or "expired"
    page,        \* which screen of the swap is up
    shown,       \* the quote on the confirm screen
    confirming,  \* its state: current refresh (0 none), loading, error, forced, prepare
    attempted,   \* the expiry fetched within the dedupe time, 0 when none
    entryQuote,  \* the expiry this visit started from, 0 before the first refresh
                 \* and for the providers that do not look at it
    reviewedNo,  \* the quote whose prepared fee is on screen, 0 when none
    signing,     \* what the attempt that runs signs (busy), NoQuote when none does
    asksMade,    \* requests made so far
    provider     \* whose quotes they are

swapVars == <<provider, typed, preview, asking, asks, quoteCache, quoteAge, page, shown, confirming,
              attempted, entryQuote, reviewedNo, signing, asksMade>>

NoQuote == [amount |-> 0, no |-> 0]
QuoteNos == 1 .. MaxQuotes
Failed == MaxQuotes + 1      \* in place of a quote number: the request failed
Made == {n \in QuoteNos : quoteAge[n] # "unmade"}
Fresh == CHOOSE n \in QuoteNos : n \notin Made /\ \A m \in QuoteNos : m < n => m \in Made

editVars == <<typed, preview, asking>>
confirmVars == <<shown, confirming, attempted, entryQuote, reviewedNo, signing>>

SwapInit ==
    /\ typed = 0 /\ preview = NoQuote
    /\ asking = [id |-> 0, loading |-> FALSE, due |-> FALSE]
    /\ asks = {}
    /\ quoteCache = [a \in Amounts |-> 0]
    /\ quoteAge = [n \in QuoteNos |-> "unmade"]
    /\ page = "edit"
    /\ shown = NoQuote
    /\ confirming = [gen |-> 0, loading |-> FALSE, error |-> FALSE, forced |-> FALSE,
                     prepare |-> "none"]
    /\ attempted = 0 /\ entryQuote = 0 /\ reviewedNo = 0
    /\ signing = NoQuote
    /\ asksMade = 0
    /\ provider \in Providers

-----------------------------------------------------------------------------
(* The worker: one request per amount within the dedupe time, whatever     *)
(* its outcome.  The answer waits in flight until the screen takes it.     *)

Asked(r) == r \in asks /\ r[4] = 0
Answer(r, no) == asks' = (asks \ {r}) \cup {<<r[1], r[2], r[3], no>>}

(* runGetSwapQuote: no entry, or one whose time (QUOTE_DEDUPE_TTL_MS) is   *)
(* over: the provider is asked, and its answer or failure kept.            *)
FetchQuote(r) ==
    /\ Asked(r)
    /\ \/ /\ Made # QuoteNos
          /\ quoteAge' = [quoteAge EXCEPT ![Fresh] = "good"]
          /\ quoteCache' = [quoteCache EXCEPT ![r[3]] = Fresh]
          /\ Answer(r, Fresh)
       \/ /\ quoteCache' = [quoteCache EXCEPT ![r[3]] = Failed]
          /\ Answer(r, Failed)
          /\ UNCHANGED quoteAge
    /\ UNCHANGED <<editVars, page, confirmVars, asksMade, provider>>

(* getOrCreateQuote: the kept answer.                                      *)
CachedQuote(r) ==
    /\ Asked(r) /\ quoteCache[r[3]] # 0
    /\ Answer(r, quoteCache[r[3]])
    /\ UNCHANGED <<editVars, quoteCache, quoteAge, page, confirmVars, asksMade, provider>>

(* Time passes for a quote: within the lead of its expiry, then expired.   *)
(* Only the confirm screen looks.                                          *)
QuoteAges(n) ==
    /\ page = "confirm" /\ n = shown.no /\ quoteAge[n] \in {"good", "lead"}
    /\ quoteAge' = [quoteAge EXCEPT ![n] = IF @ = "good" THEN "lead" ELSE "expired"]
    /\ UNCHANGED <<editVars, asks, quoteCache, page, confirmVars, asksMade, provider>>

-----------------------------------------------------------------------------
(* The swap screen.                                                        *)

(* The user types: the old request is cancelled and a debounced one is due *)
(* (an empty amount only clears).                                          *)
Type(a) ==
    /\ page = "edit" /\ a # typed
    /\ typed' = a
    /\ IF a = 0
       THEN /\ preview' = NoQuote
            /\ asking' = [id |-> 0, loading |-> FALSE, due |-> FALSE]
       ELSE /\ asking' = [id |-> 0, loading |-> TRUE, due |-> TRUE]
            /\ UNCHANGED preview
    /\ UNCHANGED <<asks, quoteCache, quoteAge, page, confirmVars, asksMade, provider>>

AskPreview ==
    /\ page = "edit" /\ asking.due /\ asksMade < MaxAsks
    /\ asksMade' = asksMade + 1
    /\ asking' = [asking EXCEPT !.id = asksMade + 1, !.due = FALSE]
    /\ asks' = asks \cup {<<"edit", asksMade + 1, typed, 0>>}
    /\ UNCHANGED <<typed, preview, quoteCache, quoteAge, page, confirmVars, provider>>

(* Variant: any answer is applied while the field has an amount. *)
AppliesAnyPreview(id) == typed # 0

(* shouldApplyBackgroundResult: the answer of the current request, and not *)
(* one that was cancelled.                                                 *)
AppliesPreview(id) == asking.id = id

TakePreview(r) ==
    /\ r \in asks /\ r[1] = "edit" /\ r[4] # 0
    /\ asks' = asks \ {r}
    /\ IF page = "edit" /\ AppliesPreview(r[2])
       THEN /\ preview' = IF r[4] = Failed THEN NoQuote ELSE [amount |-> r[3], no |-> r[4]]
            /\ asking' = [asking EXCEPT !.loading = FALSE]
       ELSE UNCHANGED <<preview, asking>>
    /\ UNCHANGED <<typed, quoteCache, quoteAge, page, confirmVars, asksMade, provider>>

(* The confirm screen comes up with a quote.  Its effects run before any   *)
(* click: nothing is reviewed yet, and it loads.                           *)
ShowConfirm(quote) ==
    /\ page' = "confirm"
    /\ shown' = quote
    /\ confirming' = [confirming EXCEPT !.prepare = "due", !.loading = TRUE, !.error = FALSE]
    /\ reviewedNo' = 0
    /\ UNCHANGED <<editVars, asks, quoteCache, quoteAge, attempted, entryQuote, signing, asksMade, provider>>

(* Approve Swap: a quote is shown and none is loading.                     *)
Approve ==
    /\ page = "edit" /\ typed # 0 /\ preview # NoQuote /\ ~asking.loading
    /\ ShowConfirm(preview)

TryAgain == page = "failed" /\ ShowConfirm(shown)

-----------------------------------------------------------------------------
(* The confirm screen.                                                     *)

(* swapQuoteRefreshAction: due near the expiry, a Soroswap quote once on   *)
(* entry too, but not again for an expiry fetched within the dedupe time.  *)
RefreshDue ==
    /\ page = "confirm"
    /\ \/ confirming.forced
       \/ /\ attempted # shown.no
          /\ \/ quoteAge[shown.no] # "good"
             \/ provider = "soroswap" /\ entryQuote \in {0, shown.no}

Refreshing == confirming.gen # 0

(* The refresh effect: a new generation, and the fee on screen is gone.    *)
StartRefresh ==
    /\ RefreshDue /\ signing = NoQuote /\ ~Refreshing /\ asksMade < MaxAsks
    /\ asksMade' = asksMade + 1
    /\ confirming' = [confirming EXCEPT !.gen = asksMade + 1, !.loading = TRUE,
                                          !.prepare = "none"]
    /\ entryQuote' = IF entryQuote = 0 /\ provider = "soroswap" THEN shown.no ELSE entryQuote
    /\ reviewedNo' = 0
    /\ asks' = asks \cup {<<"confirm", asksMade + 1, typed, 0>>}
    /\ UNCHANGED <<editVars, quoteCache, quoteAge, page, shown, attempted, signing, provider>>

(* Variant: the generation is not compared. *)
AppliesLateRefresh(gen) == page = "confirm"

(* shouldApplySwapQuoteRefresh: still the current generation, not signing. *)
AppliesRefresh(gen) == gen = confirming.gen /\ signing = NoQuote

TakeRefresh(r) ==
    /\ r \in asks /\ r[1] = "confirm" /\ r[4] # 0
    /\ asks' = asks \ {r}
    /\ IF AppliesRefresh(r[2])
       THEN /\ attempted' = shown.no
            /\ confirming' = [confirming EXCEPT !.forced = FALSE, !.prepare = "due",
                  !.gen = 0, !.loading = r[4] # Failed, !.error = r[4] = Failed]
            /\ shown' = IF r[4] = Failed THEN shown ELSE [amount |-> r[3], no |-> r[4]]
       ELSE UNCHANGED <<attempted, confirming, shown>>
    /\ UNCHANGED <<editVars, quoteCache, quoteAge, page, entryQuote, reviewedNo, signing, asksMade, provider>>

(* QUOTE_CACHE_DEDUPE_MS after an attempt the same expiry may be retried.  *)
RetryDue ==
    /\ attempted # 0 /\ attempted' = 0
    /\ UNCHANGED <<editVars, asks, quoteCache, quoteAge, page, shown, confirming, entryQuote,
                   reviewedNo, signing, asksMade, provider>>

(* The prepare effect: one live prepare, of the quote on screen.           *)
StartPrepare ==
    /\ page = "confirm" /\ confirming.prepare = "due" /\ ~RefreshDue
    /\ confirming' = [confirming EXCEPT !.prepare = "asked", !.loading = TRUE, !.error = FALSE]
    /\ reviewedNo' = 0
    /\ UNCHANGED <<editVars, asks, quoteCache, quoteAge, page, shown, attempted, entryQuote,
                   signing, asksMade, provider>>

(* Its answer: a fee to show, a refusal, or a failure that leaves Confirm  *)
(* enabled without a fee.  A refresh that fell due meanwhile cancels it.   *)
TakePrepare ==
    /\ page = "confirm" /\ confirming.prepare = "asked"
    /\ IF RefreshDue
       THEN confirming' = [confirming EXCEPT !.prepare = "due"] /\ UNCHANGED reviewedNo
       ELSE \E answer \in {"fee", "refused", "failed"} :
              /\ confirming' = [confirming EXCEPT !.prepare = "none", !.loading = FALSE,
                                                  !.error = answer = "refused"]
              /\ reviewedNo' = IF answer = "fee" THEN shown.no ELSE 0
    /\ UNCHANGED <<editVars, asks, quoteCache, quoteAge, page, shown, attempted, entryQuote,
                   signing, asksMade, provider>>

(* checkBeforeConfirm and beginSubmit: nothing loads, no refresh is due,   *)
(* the quote has not expired and is of the amount on screen.               *)
ConfirmSwap ==
    /\ page = "confirm" /\ signing = NoQuote
    /\ ~confirming.loading /\ ~confirming.error /\ ~RefreshDue
    /\ quoteAge[shown.no] # "expired" /\ shown.amount = typed
    /\ signing' = shown
    /\ confirming' = [confirming EXCEPT !.gen = 0]
    /\ UNCHANGED <<editVars, asks, quoteCache, quoteAge, page, shown, attempted, entryQuote,
                   reviewedNo, asksMade, provider>>

(* An expired quote is refused and a fresh one is loaded before anything.  *)
RefuseStale ==
    /\ page = "confirm" /\ signing = NoQuote /\ quoteAge[shown.no] = "expired"
    /\ ~confirming.forced /\ ~Refreshing
    /\ confirming' = [confirming EXCEPT !.forced = TRUE]
    /\ reviewedNo' = 0
    /\ UNCHANGED <<editVars, asks, quoteCache, quoteAge, page, shown, attempted, entryQuote,
                   signing, asksMade, provider>>

(* The fee on screen is too old, or the worker refused to sign because the *)
(* fee changed: nothing was signed, and it is prepared again.              *)
ReviewAgain ==
    /\ page = "confirm" /\ reviewedNo # 0 /\ ~confirming.loading
    /\ signing' = NoQuote
    /\ confirming' = [confirming EXCEPT !.prepare = "due", !.loading = TRUE, !.error = FALSE]
    /\ reviewedNo' = 0
    /\ UNCHANGED <<editVars, asks, quoteCache, quoteAge, page, shown, attempted, entryQuote,
                   asksMade, provider>>

(* The confirm screen goes: the answers of its visit are dropped.          *)
VisitOver ==
    /\ confirming' = [confirming EXCEPT !.gen = 0, !.forced = FALSE, !.prepare = "none"]
    /\ attempted' = 0 /\ entryQuote' = 0
    /\ UNCHANGED <<asks, quoteCache, quoteAge, reviewedNo, asksMade, provider>>

(* The attempt ends on the success or the failure screen.                  *)
SwapSettles ==
    /\ signing # NoQuote
    /\ signing' = NoQuote
    /\ page' \in {"done", "failed"}
    /\ VisitOver
    /\ UNCHANGED <<editVars, shown>>

(* Back: the swap screen starts over with the draft's amount.              *)
BackToEdit ==
    /\ page = "confirm" /\ signing = NoQuote
    /\ page' = "edit" /\ preview' = NoQuote
    /\ asking' = [id |-> 0, loading |-> TRUE, due |-> TRUE]
    /\ VisitOver
    /\ UNCHANGED <<typed, shown, signing>>

(* resetSwapFlow: the draft is gone.                                       *)
LeaveSwap ==
    /\ page \in {"done", "failed"}
    /\ page' = "edit" /\ typed' = 0 /\ preview' = NoQuote /\ shown' = NoQuote
    /\ asking' = [id |-> 0, loading |-> FALSE, due |-> FALSE]
    /\ VisitOver
    /\ UNCHANGED signing

SwapNext ==
    \/ \E r \in asks : FetchQuote(r) \/ CachedQuote(r) \/ TakePreview(r) \/ TakeRefresh(r)
    \/ \E a \in Amounts \cup {0} : Type(a)
    \/ \E n \in QuoteNos : QuoteAges(n)
    \/ AskPreview \/ Approve \/ StartRefresh \/ RetryDue \/ StartPrepare \/ TakePrepare
    \/ ConfirmSwap \/ RefuseStale \/ ReviewAgain \/ SwapSettles
    \/ TryAgain \/ BackToEdit \/ LeaveSwap

-----------------------------------------------------------------------------
SwapTypeOK ==
    /\ typed \in Amounts \cup {0}
    /\ {preview.amount, shown.amount, signing.amount} \subseteq Amounts \cup {0}
    /\ quoteCache \in [Amounts -> 0 .. Failed]
    /\ page \in {"edit", "confirm", "done", "failed"}
    /\ reviewedNo \in 0 .. MaxQuotes /\ asksMade \in 0 .. MaxAsks

(* The quote a user can approve is a quote of what is in the field,        *)
(* whatever order the answers of earlier amounts come back in.             *)
PreviewIsOfTheField ==
    page = "edit" /\ ~asking.loading /\ preview # NoQuote => preview.amount = typed

(* What is signed is what the confirm screen shows from the press to the   *)
(* end: no refresh, prepare or late answer replaces the quote meanwhile,   *)
(* it is a quote of the amount typed, and a fee shown is that quote's.     *)
SignedQuoteIsShown ==
    /\ signing # NoQuote => shown = signing /\ signing.amount = typed
    /\ page = "confirm" /\ reviewedNo # 0 => reviewedNo = shown.no
=============================================================================
