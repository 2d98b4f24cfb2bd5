---------------------------- MODULE MCWalletUse -----------------------------
(***************************************************************************)
(* Values for the use of a wallet: a token and a swap router that websites *)
(* call, fees in a token Latch charges and in another, builds whose entry  *)
(* for the key is named, elsewhere, somebody else's or missing.            *)
(***************************************************************************)
EXTENDS MCWallet, WalletUse

CONSTANT b1

MCCalls == {<<"transfer", "sac">>, <<"call", "router">>}
MCFeeTerms == {<<"xlm", 1>>, <<"odd", 1>>}
MCShapes ==
    [entries : {<<"smart", "seed">>, <<"smart", "bundler", "seed">>, <<"seed", "smart">>, << >>},
     natives : {<< >>, <<2>>, <<2, 3>>}, smart : {0, 2},
     template : {NoSigner, "seed", "bundler", "unsaid"},
     method : {"delegated", "none"}, synthesized : BOOLEAN]

MCTokenOrder == <<"usdc", "eurc", "xlm", "odd">>
MCBySymbol == <<"eurc", "odd", "usdc", "xlm">>
MCHeldOn == [n \in SwapNets |-> IF n = "mainnet" THEN {"odd", "eurc", "usdc"} ELSE {"eurc"}]
MCListItems == {<<"eurc", "hex">>, <<"usdc", "issuer">>, <<"odd", "malformed">>}
MCPreferred == <<"usdc">>

Query(net, wallet, tx, callback, submit) ==
    [net |-> net, wallet |-> wallet, tx |-> tx, callback |-> callback, submit |-> submit]
MCQueries == {Query("testnet", 1, "xdr", "app", "unsaid"), Query("testnet", 2, "ref", "app", "false"),
              Query("mainnet", 2, "both", "app", "true"), Query("testnet", 1, "xdr", "script", "0")}
MCStashes ==
    [net : {"testnet"}, wallet : {2}, callback : {"app", "elsewhere"}, submit : {"unsaid", "true"}]

MCFrames == {[origin |-> o, url |-> o, tab |-> IF o = "frame" THEN "site" ELSE o] :
                o \in {"site", "frame", "plain"}}
PageShape(how, net, key, submit, payload) ==
    [how |-> how, net |-> net, key |-> key, submit |-> submit, payload |-> payload]
MCCallShapes ==
    {PageShape("sep", "unsaid", 0, "unsaid", "fine"), PageShape("sep", "odd", 0, "unsaid", "fine"),
     PageShape("sep", "mainnet", 2, "true", "fine"), PageShape("kit", "unsaid", 0, "unsaid", "fine"),
     PageShape("native", "testnet", 1, "unsaid", "fine"),
     PageShape("native", "mainnet", 2, "false", "large"),
     PageShape("address", "unsaid", 0, "unsaid", "fine")}

MCPasskeys == [c \in {"p", "q"} |-> [synced |-> c = "q"]]
BeginOptions(create, rp, challenge, allow) ==
    [create |-> create, rp |-> rp, challenge |-> challenge, allow |-> allow, exclude |-> {"p"}]
AllowItem(id, via) == [id |-> id, via |-> via]
PromptBegin(purpose, cred, text, options) ==
    [purpose |-> purpose, cred |-> cred, digest |-> [text |-> text, of |-> 1], options |-> options]
NoOptions == BeginOptions(FALSE, "domain", 0, << >>)
Login(allow) == BeginOptions(FALSE, "domain", 2, allow)
MCPromptBegins ==
    {PromptBegin("sign", "p", "plain", NoOptions), PromptBegin("sign", "q", "prefixed", NoOptions),
     PromptBegin("sign", "p", "odd", NoOptions), PromptBegin("sign", "gone", "plain", NoOptions),
     PromptBegin("v1", "q", "plain", NoOptions), PromptBegin("v1", "q", "plain", Login(<< >>)),
     PromptBegin("member", "q", "plain", Login(<<AllowItem("p", "none"), AllowItem("q", "none")>>)),
     PromptBegin("member", "q", "plain", Login(<<AllowItem("q", "internal")>>)),
     PromptBegin("member", "p", "plain", Login(<< >>)),
     PromptBegin("login", "p", "plain", Login(<<AllowItem("p", "internal")>>)),
     PromptBegin("login", "p", "plain", BeginOptions(FALSE, "other", 2, << >>)),
     PromptBegin("create", "p", "plain", BeginOptions(TRUE, "domain", 2, << >>)),
     PromptBegin("create", "p", "plain", Login(<< >>))}
MCRawSignatures == (1..12) \X (1..12)

Calling(node, subs) == [node |-> node, subs |-> subs]
MCTree == Calling(1, <<Calling(2, <<Calling(3, << >>)>>), Calling(4, << >>)>>)
AuthEntry(who, creds, tree) == [who |-> who, creds |-> creds, tree |-> tree, sig |-> NoSig]
SmartEntry1 == AuthEntry("smart", "address", MCTree)
KeyEntry == AuthEntry("seed", "address", Calling(1, << >>))
OtherEntry == AuthEntry("other", "address", Calling(1, << >>))
TxOf(auth, read) ==
    [op |-> "invoke", auth |-> auth, needs |-> [NoResources EXCEPT !.keys = 1, !.fee = 1],
     resources |-> [NoResources EXCEPT !.keys = read, !.fee = read]]
MCSealings ==
    [by : {"passkey", "seed"}, index : {0, 2, 4}, rule : {0, 7}, smart : {SmartEntry1},
     listed : {<<SmartEntry1, OtherEntry, KeyEntry>>, <<OtherEntry, SmartEntry1>>,
               <<KeyEntry, SmartEntry1, KeyEntry>>, << >>},
     template : {KeyEntry, AuthEntry("seed", "source", Calling(1, << >>))},
     tx : {TxOf(<<SmartEntry1>>, 0), TxOf(<<SmartEntry1>>, 1)}]
MCLocalTxs ==
    {TxOf(<<AuthEntry("seed", "source", Calling(1, << >>))>>, 0),
     TxOf(<<SetSignature(SmartEntry1, AuthPayload("seed", <<7, 7, 7, 7>>)), OtherEntry>>, 0)}
=============================================================================
