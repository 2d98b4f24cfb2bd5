----------------------------- MODULE WalletUse ------------------------------
(***************************************************************************)
(* The store of wallets with its sync, and what is done with one wallet of *)
(* it: swaps, the review of websites' transactions, backup passkeys, the   *)
(* screens its balances and rows are seen on, the page websites open for a *)
(* signature, the calls of their own pages, the prompts of its passkeys,   *)
(* the entries that are signed of its transactions, the toolbar button, the*)
(* icons and prices of its tokens.                                         *)
(* These share no state with each other: a behaviour exercises one.        *)
(***************************************************************************)
EXTENDS MultisigSync, SwapQuotes, SwapBuilds, Review, Signers, Views, SignPage, PageCalls,
        PasskeySigning, AuthEntries, Toolbar, TokenLists, Prices

VARIABLE use      \* what this behaviour exercises

useVars == <<use, syncVars, swapVars, swapBuildVars, reviewVars, signersVars, viewsVars,
             signPageVars, pageCallsVars, passkeySigningVars, authEntriesVars, toolbarVars, listVars,
             priceVars>>

Uses == {"store", "swap", "builds", "review", "signers", "views", "pages", "calls",
         "prompts", "entries", "toolbar", "icons", "prices"}

UseInit ==
    /\ use \in Uses
    /\ SyncInit /\ (use # "store" => scene = CHOOSE s \in Scenes : TRUE)
    /\ SwapInit /\ SignersInit
    /\ SwapBuildsInit /\ (use # "builds" => swapNet = "mainnet" /\ swapRules)
    /\ ReviewInit /\ (use # "review" => here.of \in KeyWallets)
    /\ ViewsInit /\ (use # "views" => stored.rows = {} /\ view = FreshView("home"))
    /\ SignPageInit /\ PageCallsInit /\ PasskeySigningInit
    /\ AuthEntriesInit
    /\ ToolbarInit
    /\ ListInit
    /\ PricesInit /\ (use # "prices" => priceStored = NoPrices)
    /\ (use # "toolbar" => funded = {} /\ toolNet = CHOOSE n \in ToolNets : TRUE)

(* The step of one: the others stand still.                                *)
Using(u) ==
    /\ use = u /\ use' = u
    /\ IF u = "store" THEN TRUE ELSE UNCHANGED syncVars
    /\ IF u = "swap" THEN TRUE ELSE UNCHANGED swapVars
    /\ IF u = "builds" THEN TRUE ELSE UNCHANGED swapBuildVars
    /\ IF u = "review" THEN TRUE ELSE UNCHANGED reviewVars
    /\ IF u = "signers" THEN TRUE ELSE UNCHANGED signersVars
    /\ IF u = "views" THEN TRUE ELSE UNCHANGED viewsVars
    /\ IF u = "pages" THEN TRUE ELSE UNCHANGED signPageVars
    /\ IF u = "calls" THEN TRUE ELSE UNCHANGED pageCallsVars
    /\ IF u = "prompts" THEN TRUE ELSE UNCHANGED passkeySigningVars
    /\ IF u = "entries" THEN TRUE ELSE UNCHANGED authEntriesVars
    /\ IF u = "toolbar" THEN TRUE ELSE UNCHANGED toolbarVars
    /\ IF u = "icons" THEN TRUE ELSE UNCHANGED listVars
    /\ IF u = "prices" THEN TRUE ELSE UNCHANGED priceVars

UseNext ==
    \/ Using("store") /\ SyncNext
    \/ Using("swap") /\ SwapNext
    \/ Using("builds") /\ SwapBuildsNext
    \/ Using("review") /\ ReviewNext
    \/ Using("signers") /\ SignersNext
    \/ Using("views") /\ ViewsNext
    \/ Using("pages") /\ SignPageNext
    \/ Using("calls") /\ PageCallsNext
    \/ Using("prompts") /\ PasskeySigningNext
    \/ Using("entries") /\ AuthEntriesNext
    \/ Using("toolbar") /\ ToolbarNext
    \/ Using("icons") /\ ListNext
    \/ Using("prices") /\ PricesNext

UseSpec == UseInit /\ [][UseNext]_useVars

-----------------------------------------------------------------------------
UseTypeOK ==
    /\ use \in Uses
    /\ use = "store" => WTypeOK
    /\ use = "swap" => SwapTypeOK
    /\ use = "builds" => SwapBuildsTypeOK
    /\ use = "review" => ReviewTypeOK
    /\ use = "signers" => SignersTypeOK
    /\ use = "views" => ViewsTypeOK
    /\ use = "pages" => SignPageTypeOK
    /\ use = "calls" => PageCallsTypeOK
    /\ use = "prompts" => PasskeySigningTypeOK
    /\ use = "entries" => AuthEntriesTypeOK
    /\ use = "toolbar" => ToolbarTypeOK
    /\ use = "icons" => ListTypeOK
    /\ use = "prices" => PricesTypeOK

(* What the user is shown is so: what is signed is what its screen showed, *)
(* the quote of a swap, with the least it pays, and, as the backend        *)
(* prepared it, the transaction of a website; a preview is of the amount   *)
(* in its field; a key signs the entry that is its own; the passkeys that  *)
(* can sign are listed; whoever has an account is not shown the set-up; a  *)
(* website's callback gets what came of its request, and its page what its *)
(* user gave it; the toolbar button opens what was chosen, an icon is of   *)
(* the network it is shown on and of a recent list, and a call for prices  *)
(* has the prices it asked for.                                            *)
UseIsAsShown ==
    /\ use = "swap" => PreviewIsOfTheField /\ SignedQuoteIsShown
    /\ use = "builds" => SwapPaysAsShown
    /\ use = "review" => ReviewedIsPrepared /\ SetupIsNamed /\ KeySignsItsEntry
    /\ use = "signers" => SignersAreListed
    /\ use = "views" => SetupOnlyWhenEmpty
    /\ use = "pages" => CallbackIsTrue
    /\ use = "calls" => PageIsAnswered
    /\ use = "toolbar" => ButtonOpensTheWallet
    /\ use = "icons" => IconIsOfItsNetwork /\ ListIsRecent
    /\ use = "prices" => AnswerHasThePrices

(* What is signed is right to the byte: the signature a prompt sends is of *)
(* the passkey it names and in the form its contract takes, and a local    *)
(* build keeps every entry as it was but for the signature it adds to its  *)
(* own.                                                                    *)
SignaturesAreTheirOwn ==
    /\ use = "prompts" => PasskeySignsForItsOwn
    /\ use = "entries" => EntriesAreAsSigned
=============================================================================
