----------------------------- MODULE SwapBuilds -----------------------------
(***************************************************************************)
(* A swap from the rows of the catalog to the signed transaction: which    *)
(* tokens can be picked (background/swap/catalog.ts, providerRegistry.ts), *)
(* what the provider of the network answers (packages/swap), the minimum   *)
(* the transaction is built with, and its signing.  The price and the      *)
(* network may change between any two steps; the overlap of answers is     *)
(* module SwapQuotes.                                                      *)
(***************************************************************************)
EXTENDS Naturals, Sequences

CONSTANTS TokenOrder,     \* the tokens of all networks, by priority
          BySymbol,       \* the same by symbol
          HeldOn,         \* network -> tokens the account holds there
          PooledOn,       \* testnet: tokens with a pool
          ListItems,      \* mainnet: <<token, how its item names the contract>>
          Preferred,      \* tokens a swap receives by default, best first
          FeePayerOn,     \* networks whose fee payer is configured
          MaxOut,         \* the most a swap pays, in raw units
          KeptOf4,        \* slippage: what of four units it may still pay
          MaxPriceMoves, MaxSwitches

SwapNets == {"mainnet", "testnet"}
SwapTokens == {TokenOrder[i] : i \in DOMAIN TokenOrder}

ASSUME SwapBuildsAssumption ==
    /\ \A n \in SwapNets : HeldOn[n] \subseteq SwapTokens
    /\ PooledOn \subseteq SwapTokens
    /\ ListItems \subseteq SwapTokens \X {"issuer", "address", "hex", "malformed", "nothing"}
    /\ "xlm" \in SwapTokens /\ SwapTokens = {BySymbol[i] : i \in DOMAIN BySymbol}
    /\ FeePayerOn \subseteq SwapNets /\ MaxOut \in Nat /\ KeptOf4 \in 0..4
    /\ {MaxPriceMoves, MaxSwitches} \subseteq Nat

VARIABLES
    swapNet,      \* the active network
    keptRegistry, \* the network whose registry is kept, NoNet when none is
    menu,         \* the catalog on the swap screen: its network, NoNet before it is loaded
    picked,       \* the tokens chosen: <<pay, receive>>
    market,       \* what the swap pays on chain now
    quoting,      \* the request for a quote under way
    offer,        \* the quote on screen
    swapTx,       \* the prepared transaction
    swapRules,    \* the account's rules let it sign swaps
    swapPaid,     \* what the signed swap paid, with its transaction
    priceMoves, switches

swapBuildVars == <<swapNet, keptRegistry, menu, picked, market, quoting, offer, swapTx, swapRules,
                   swapPaid, priceMoves, switches>>

NoNet == "none"
NotQuoting == [at |-> "idle"]
NoOffer == [route |-> "none"]
Outs == 0..MaxOut

SwapBuildsInit ==
    /\ swapNet \in SwapNets /\ keptRegistry = NoNet /\ menu = NoNet
    /\ picked = <<"xlm", "xlm">>
    /\ market = MaxOut - 1 /\ quoting = NotQuoting /\ offer = NoOffer /\ swapTx = NoOffer
    /\ swapRules \in BOOLEAN /\ swapPaid = NoOffer
    /\ priceMoves = 0 /\ switches = 0

-----------------------------------------------------------------------------
(* The catalog: a row is a token of the registry of its network.           *)

EarliestOf(S, order) ==
    order[CHOOSE i \in DOMAIN order :
            order[i] \in S /\ \A j \in DOMAIN order : j < i => order[j] \notin S]

(* resolveTokenListContractId: from the issuer, else from the field of the *)
(* item, which may be raw hex (normalizeStellarContractId).                *)
HasContract(item) == item[1] = "xlm" \/ item[2] \in {"issuer", "address", "hex"}

(* entriesFromTokenList: the native token, and what has a contract.        *)
ListEntries == {"xlm"} \cup {item[1] : item \in {it \in ListItems : HasContract(it)}}

(* What a provider can trade: tokens with a pool, or those of the lists.   *)
ListedOn(n) == IF n = "testnet" THEN PooledOn ELSE ListEntries

(* buildPayTokensFromBalances: what is held and listed, or the native token*)
(* at a balance of nothing.                                                *)
PayRows(n) ==
    LET held == HeldOn[n] \cap ListedOn(n)
    IN IF held = {} THEN {"xlm"} \cap ListedOn(n) ELSE held

(* buildReceiveTokensFromRegistry: all that is listed.                     *)
ReceiveRows(n) == ListedOn(n)

(* sortReceiveTokens: what is held, then by priority and symbol.           *)
FirstShown(rows, n) ==
    EarliestOf(IF rows \cap HeldOn[n] # {} THEN rows \cap HeldOn[n] ELSE rows, TokenOrder)

(* pickDefaultReceiveTokenId.                                              *)
DefaultReceive(pay, rows, n) ==
    LET others == rows \ {pay}
        preferred == others \cap {Preferred[i] : i \in DOMAIN Preferred}
    IN IF preferred # {} THEN EarliestOf(preferred, Preferred)
       ELSE IF others # {} THEN FirstShown(others, n) ELSE pay

(* The tokens the screen works with: those chosen, or, when the catalog    *)
(* does not have them, its first ones.                                     *)
PayToken ==
    IF picked[1] \in PayRows(menu) THEN picked[1] ELSE EarliestOf(PayRows(menu), BySymbol)
ReceiveToken ==
    IF picked[2] \in ReceiveRows(menu) THEN picked[2]
    ELSE IF ReceiveRows(menu) \ {PayToken} # {}
         THEN FirstShown(ReceiveRows(menu) \ {PayToken}, menu) ELSE PayToken

(* openSwapFromNav: the defaults are of the catalog that is loaded, and    *)
(* before there is one, the native token on both sides.                    *)
OpenSwap ==
    /\ quoting = NotQuoting /\ swapPaid = NoOffer
    /\ LET pay == EarliestOf(PayRows(menu), BySymbol)
       IN picked' = IF menu = NoNet THEN <<"xlm", "xlm">>
                    ELSE <<pay, DefaultReceive(pay, ReceiveRows(menu), menu)>>
    /\ offer' = NoOffer /\ swapTx' = NoOffer
    /\ UNCHANGED <<swapNet, keptRegistry, menu, market, quoting, swapRules, swapPaid, priceMoves,
                   switches>>

(* GET_SWAP_TOKEN_CATALOG: the swap screen asks for a quote again, the     *)
(* confirm screen keeps its own.                                           *)
LoadMenu ==
    /\ quoting = NotQuoting /\ menu # swapNet /\ PayRows(swapNet) # {}
    /\ menu' = swapNet /\ keptRegistry' = swapNet
    /\ offer' \in {offer, NoOffer}
    /\ swapTx' = IF offer' = NoOffer THEN NoOffer ELSE swapTx
    /\ UNCHANGED <<swapNet, picked, market, quoting, swapRules, swapPaid, priceMoves, switches>>

(* handleSelectToken: the token of the other side changes sides.           *)
PickToken(side, t) ==
    /\ menu # NoNet /\ swapPaid = NoOffer
    /\ t \in (IF side = 1 THEN PayRows(menu) ELSE ReceiveRows(menu)) \ {picked[side]}
    /\ picked' = IF t = picked[3 - side] THEN <<picked[2], picked[1]>>
                 ELSE [picked EXCEPT ![side] = t]
    /\ quoting' = NotQuoting /\ offer' = NoOffer /\ swapTx' = NoOffer
    /\ UNCHANGED <<swapNet, keptRegistry, menu, market, swapRules, swapPaid, priceMoves, switches>>

-----------------------------------------------------------------------------
(* The quote (runGetSwapQuote).                                            *)

(* getActiveSwapProvider.                                                  *)
ProviderOf(n) == IF n = "mainnet" THEN "soroswap" ELSE "aquarius"

(* applySlippageMin, rounded down.                                         *)
Slip(out) == (out * KeptOf4) \div 4
LesserOf(a, b) == IF a < b THEN a ELSE b

QuoteKeeps == <<swapNet, menu, picked, market, swapTx, swapRules, swapPaid, priceMoves, switches>>

AskQuote ==
    /\ menu # NoNet /\ quoting = NotQuoting /\ swapPaid = NoOffer
    /\ quoting' = [at |-> "registry", net |-> swapNet, from |-> NoNet, late |-> FALSE,
                   pay |-> PayToken, receive |-> ReceiveToken]
    /\ swapTx' = NoOffer
    /\ UNCHANGED <<swapNet, keptRegistry, menu, picked, market, offer, swapRules, swapPaid,
                   priceMoves, switches>>

(* loadSwapProviderRegistry reads the network again, and loads unless the  *)
(* registry of that network is kept.                                       *)
ReadRegistry ==
    /\ quoting.at = "registry"
    /\ quoting' = [quoting EXCEPT !.from = swapNet,
                                  !.at = IF keptRegistry = swapNet THEN "found" ELSE "loading"]
    /\ UNCHANGED <<keptRegistry, offer, QuoteKeeps>>

(* What was loaded is kept if it is of the active network still, and the   *)
(* load was not forgotten by a switch.                                     *)
RegistryLoaded ==
    /\ quoting.at = "loading"
    /\ quoting' = [quoting EXCEPT !.at = "found"]
    /\ keptRegistry' = IF quoting.late THEN keptRegistry ELSE quoting.from
    /\ UNCHANGED <<offer, QuoteKeeps>>

(* No quote: an unknown token, the same on both sides, no route, an answer *)
(* of the provider that cannot be read.                                    *)
QuoteFails ==
    /\ quoting.at = "found" \/ quoting.at = "loading"
    /\ quoting' = NotQuoting /\ offer' = NoOffer
    /\ UNCHANGED <<keptRegistry, QuoteKeeps>>

(* Soroswap's routes: one with a pool whose hashes are missing, and one the*)
(* local build cannot encode.                                              *)
RouteKinds == {"plain", "unhashed", "odd"}

(* fetchAquariusQuote, parseAquariusFindPathResponse.                      *)
ChainAnswers == [route : {"chain"}, out : Outs \ {0}, least : {MaxOut}]

(* soroswapProvider.quote: a route with missing hashes is asked again      *)
(* without Aquarius, and the second answer is the quote.                   *)
RouterAnswers == [route : RouteKinds \ {"unhashed"}, out : Outs \ {0}, least : Outs]

AnswersOf(provider) == IF provider = "aquarius" THEN ChainAnswers ELSE RouterAnswers

(* parseSoroswapQuote: the threshold of the API counts when it is lower.   *)
QuoteAnswered(a) ==
    /\ quoting.at = "found" /\ quoting.from = quoting.net
    /\ quoting.pay \in PayRows(quoting.net) /\ quoting.receive \in ReceiveRows(quoting.net)
    /\ quoting.pay # quoting.receive
    /\ a \in AnswersOf(ProviderOf(quoting.net))
    /\ offer' = [pay |-> quoting.pay, receive |-> quoting.receive, net |-> quoting.net,
                 route |-> a.route, out |-> a.out, min |-> LesserOf(Slip(a.out), a.least)]
    /\ quoting' = NotQuoting
    /\ UNCHANGED <<keptRegistry, QuoteKeeps>>

-----------------------------------------------------------------------------
(* The transaction (runPrepareSwapTx, buildSoroswapAggregatorUnsignedTx).  *)

(* Variant: the minimum of the probe is left in. *)
ProbedMin(quoteMin, simulated) == 0

(* The lower of the quote's minimum and that of what the probe paid.       *)
FinalMin(quoteMin, simulated) ==
    IF quoteMin > 0 /\ quoteMin < Slip(simulated) THEN quoteMin ELSE Slip(simulated)

(* An Aquarius quote is built by the backend as it is; a Soroswap quote    *)
(* here, by the provider of the network as it is now.                      *)
BuiltMin ==
    IF offer.route = "chain" THEN offer.min ELSE FinalMin(offer.min, market)

(* What stands in the way: another network than the quote's, no account to *)
(* pay the fee, a route that cannot be encoded, a probe that pays nothing, *)
(* a simulation below the minimum.                                         *)
Builds(seedAccount) ==
    /\ swapNet = offer.net
    /\ offer.route # "chain" => /\ seedAccount \/ swapNet \in FeePayerOn
                                /\ offer.route # "odd" /\ market > 0
    /\ market >= BuiltMin

(* Without its rules the account gets no build, or one only the bundler    *)
(* could sign for it (swapBuildNeedsSignerReconfigure).                    *)
PrepareSwap(seedAccount) ==
    /\ offer # NoOffer /\ quoting = NotQuoting /\ swapTx = NoOffer /\ swapPaid = NoOffer
    /\ swapRules /\ Builds(seedAccount)
    /\ swapTx' = [offer |-> offer, net |-> swapNet, min |-> BuiltMin, simulated |-> market,
                  route |-> offer.route]
    /\ UNCHANGED <<swapNet, keptRegistry, menu, picked, market, quoting, offer, swapRules,
                   swapPaid, priceMoves, switches>>

(* setupSwapRulesForAccount, when a build reports that they are missing.   *)
SetUpSwapRules ==
    /\ offer # NoOffer /\ quoting = NotQuoting /\ ~swapRules
    /\ swapRules' = TRUE
    /\ UNCHANGED <<swapNet, keptRegistry, menu, picked, market, quoting, offer, swapTx, swapPaid,
                   priceMoves, switches>>

(* The prepare that was reviewed is signed as it is, and pays what the     *)
(* market gives then, or fails.                                            *)
SwapRuns ==
    /\ swapTx # NoOffer /\ swapPaid = NoOffer /\ quoting = NotQuoting
    /\ market >= swapTx.min
    /\ swapPaid' = [tx |-> swapTx, paid |-> market]
    /\ UNCHANGED <<swapNet, keptRegistry, menu, picked, market, quoting, offer, swapTx, swapRules,
                   priceMoves, switches>>

-----------------------------------------------------------------------------
PriceMoves(to) ==
    /\ priceMoves < MaxPriceMoves /\ to # market
    /\ market' = to /\ priceMoves' = priceMoves + 1
    /\ UNCHANGED <<swapNet, keptRegistry, menu, picked, quoting, offer, swapTx, swapRules,
                   swapPaid, switches>>

(* Another page toggles developer mode: the kept registry and the loads    *)
(* under way are forgotten (clearNetworkScopedMemoryCaches).               *)
SwitchesNetwork ==
    /\ switches < MaxSwitches
    /\ switches' = switches + 1 /\ keptRegistry' = NoNet
    /\ swapNet' = CHOOSE n \in SwapNets : n # swapNet
    /\ quoting' = IF quoting = NotQuoting THEN NotQuoting ELSE [quoting EXCEPT !.late = quoting.at = "loading"]
    /\ UNCHANGED <<menu, picked, market, offer, swapTx, swapRules, swapPaid, priceMoves>>

SwapBuildsNext ==
    \/ OpenSwap \/ LoadMenu \/ AskQuote \/ ReadRegistry \/ RegistryLoaded \/ QuoteFails
    \/ \E side \in 1..2, t \in SwapTokens : PickToken(side, t)
    \/ quoting.at = "found" /\ \E a \in AnswersOf(ProviderOf(quoting.net)) : QuoteAnswered(a)
    \/ \E seedAccount \in BOOLEAN : PrepareSwap(seedAccount)
    \/ SetUpSwapRules \/ SwapRuns \/ SwitchesNetwork
    \/ \E to \in Outs : PriceMoves(to)

SwapBuildsTypeOK ==
    /\ swapNet \in SwapNets /\ {keptRegistry, menu} \subseteq SwapNets \cup {NoNet}
    /\ picked \in SwapTokens \X SwapTokens /\ market \in Outs
    /\ swapTx # NoOffer => swapTx.min \in Outs

(* What a signed swap is: of the tokens on its screen, on the network its  *)
(* quote was made on, along the route that was priced; and it pays at      *)
(* least the minimum on that screen, unless the quote had promised more    *)
(* than the chain gave already when the transaction was prepared           *)
(* (soroswapBuild.ts:241-263, handlers.ts:180-249).                        *)
SwapPaysAsShown ==
    swapPaid # NoOffer =>
        LET tx == swapPaid.tx quote == tx.offer
        IN /\ quote.pay # quote.receive /\ tx.net = quote.net /\ tx.route = quote.route
           /\ swapPaid.paid < quote.min => tx.simulated < quote.out
           /\ swapPaid.paid >= LesserOf(quote.min, Slip(tx.simulated))
=============================================================================
