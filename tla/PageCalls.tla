------------------------------ MODULE PageCalls ------------------------------
(***************************************************************************)
(* What a website does with the wallet (packages/sdk, scripts/inpage.ts,   *)
(* scripts/sep0043.ts): it asks for the address, has a transaction signed  *)
(* natively, by SEP-0043 or through the wallets kit, listens to events     *)
(* (dappProviderEvents.ts) and disconnects.  A call is several messages,   *)
(* each checked by the bridge and by the gate of the worker                *)
(* (dapp/publicDappPayload.ts, trustedOrigin.ts, messageSource.ts); the    *)
(* account and the network change between them.  The rows and their        *)
(* windows in detail are modules DappApproval and DappSystem.              *)
(***************************************************************************)
EXTENDS Naturals, Sequences

CONSTANTS PageKeys,     \* addresses of the wallet's accounts
          Frames,       \* who calls: its origin, and what Chrome says of the sender
          CallShapes,   \* what is called
          MaxCalls,     \* bound on calls of the page
          MaxChanges    \* bound on changes a listening page sees, a calling one sees one

WebOrigins == {"site", "frame"}   \* https, or http of this machine
CallNets == {"testnet", "mainnet"}

ASSUME PageCallsAssumption ==
    /\ MaxCalls \in Nat /\ MaxChanges \in Nat
    /\ \A f \in Frames : DOMAIN f = {"origin", "url", "tab"}
    /\ \A shape \in CallShapes : shape.how \in {"native", "address", "kit", "sep"}

VARIABLES
    pageActive, \* the active account and network
    grants,     \* origins that may see the address
    parted,     \* origins that disconnected and have not been loaded again
    asked,      \* rows of the request store
    call,       \* the call of the page
    answers,    \* what calls came to, oldest first
    broadcasts, \* events on their way
    listening,  \* listeners of the page, the one its handler maps to, and whether no
                \* change came while the events of another were on their way
    heard,      \* the last event the page's handler got
    changes

pageCallsVars == <<pageActive, grants, parted, asked, call, answers, broadcasts, listening,
                   heard, changes>>

NoKey == 0
NoCall == [at |-> "idle"]
Silent == [listeners |-> {}, map |-> 0, oneByOne |-> TRUE]
NotHeard == [key |-> NoKey, net |-> "testnet"]

PageCallsInit ==
    /\ pageActive = [key |-> CHOOSE k \in PageKeys : TRUE, net |-> "testnet"]
    /\ grants = {} /\ parted = {} /\ asked = << >> /\ call = NoCall /\ answers = << >>
    /\ broadcasts = {} /\ listening = Silent /\ heard = NotHeard /\ changes = 0

-----------------------------------------------------------------------------
(* Who calls, and with what.                                               *)

(* trustedDappOriginFromSender: the frame, or else its tab.                *)
SenderOrigin(f) == IF f.url # "none" THEN f.url ELSE f.tab

(* resolveTrustedDappOrigin.                                               *)
Trusted(f) == SenderOrigin(f) \in WebOrigins

(* What Chrome says of a sender it does not get wrong. *)
ASSUME FramesAssumption == \A f \in Frames : Trusted(f) => SenderOrigin(f) = f.origin

(* Variant: the origin is the one of the tab. *)
OriginOfTab(f) == f.tab

(* pinDappOrigin: what the payload says of its origin is replaced, by the  *)
(* bridge and, with what Chrome attests, by the gate.                      *)
OriginOf(f) == SenderOrigin(f)

(* parseXdrString.                                                         *)
FitXdr(payload) == payload # "large"

(* assertExactKeys.                                                        *)
NoOtherField(payload) == payload # "extra"

(* parseSignTransactionRequest: a known network, an address, a transaction *)
(* of a bearable size and no other field.                                  *)
WellFormed(c) ==
    /\ c.net \in CallNets /\ c.key \in PageKeys
    /\ FitXdr(c.shape.payload) /\ NoOtherField(c.shape.payload)

(* gateBackgroundMessage: a website may send the public messages only, and *)
(* only from an origin Chrome attests.                                     *)
Passes(f) == Trusted(f)

(* toSep0043Error: the user's refusal is told from an invalid request and  *)
(* from all else.                                                          *)
SepCode(code) ==
    CASE code = "user_rejected" -> "-4"
      [] code \in {"account_mismatch", "validation_error", "not_connected"} -> "-3"
      [] OTHER -> "-1"

(* The call is over: with an error, which the SEP methods translate.       *)
Fails(c, code) ==
    /\ answers' = Append(answers,
          [call |-> c, status |-> "error", signer |-> NoKey,
           code |-> IF c.shape.how \in {"sep", "address"} THEN SepCode(code) ELSE code])
    /\ call' = NoCall

Succeeds(c, status, signer) ==
    /\ answers' = Append(answers, [call |-> c, status |-> status, signer |-> signer,
                                   code |-> "none"])
    /\ call' = NoCall

Moves(c) == call' = c /\ UNCHANGED answers

-----------------------------------------------------------------------------
(* The calls.                                                              *)

(* passphraseToNetwork: no passphrase means the active network.            *)
SepNet(passphrase) == IF passphrase \in CallNets THEN passphrase ELSE "unsaid"

(* networkFromPassphrase of the kit: all but the public network's.         *)
KitNet(passphrase) == IF passphrase = "mainnet" THEN "mainnet" ELSE "testnet"

CallWallet(f, shape) ==
    LET c == [at |-> "send", frame |-> f, shape |-> shape, net |-> shape.net, key |-> shape.key,
              row |-> 0]
    IN /\ call = NoCall /\ Len(answers) < MaxCalls /\ listening = Silent
       /\ CASE shape.how = "native" -> Moves(c)
            [] shape.how = "address" -> Moves([c EXCEPT !.at = "key"])
            [] shape.how = "kit" ->
                  Moves([c EXCEPT !.net = KitNet(@),
                                  !.at = IF shape.key = NoKey THEN "key" ELSE "send"])
            [] shape.how = "sep" ->
                  IF shape.net = "odd" THEN Fails(c, "validation_error")
                  ELSE Moves([c EXCEPT
                                 !.net = SepNet(@),
                                 !.at = IF SepNet(shape.net) = "unsaid" THEN "net" ELSE "key"])
       /\ UNCHANGED <<pageActive, grants, parted, asked, broadcasts, listening, heard, changes>>

(* GET_ACTIVE_NETWORK.                                                     *)
NetAnswered ==
    /\ call # NoCall /\ call.at = "net"
    /\ IF Passes(call.frame) THEN Moves([call EXCEPT !.net = pageActive.net, !.at = "key"])
       ELSE Fails(call, "invalid_origin")
    /\ UNCHANGED <<pageActive, grants, parted, asked, broadcasts, listening, heard, changes>>

(* What the call does with the address it was given: signTransaction(xdr)  *)
(* looks at its options only now (validateSepSignOptions), and signs with  *)
(* the address it was told, if any.                                        *)
KeyKnown(c, key) ==
    CASE c.shape.how = "address" -> Succeeds(c, "address", key)
      [] c.shape.how = "kit" -> Moves([c EXCEPT !.key = key, !.at = "send"])
      [] c.shape.how = "sep" /\ c.shape.submit = "true" -> Fails(c, "validation_error")
      [] c.shape.how = "sep" /\ c.shape.submit # "true" ->
            Moves([c EXCEPT !.key = IF @ = NoKey THEN key ELSE @, !.at = "send"])

NewAsk(kind, c) ==
    [kind |-> kind, origin |-> OriginOf(c.frame), key |-> c.key, net |-> c.net,
     submit |-> c.shape.how = "native" /\ c.shape.submit # "false",
     blocked |-> c.net # pageActive.net, status |-> "awaiting_user", signer |-> NoKey]

(* assertDappConnectPromptAllowed: a prompt is also not repeated at once.  *)
Refused(o) == \E r \in DOMAIN asked : /\ asked[r].kind = "connect" /\ asked[r].origin = o
                                      /\ asked[r].status = "rejected"

(* DAPP_GET_PUBLIC_KEY: an origin that is not connected asks, in the row   *)
(* that already asks if there is one; not when it disconnected or, shortly *)
(* before, the user said no.                                               *)
AskKey ==
    LET o == OriginOf(call.frame)
        live == {r \in DOMAIN asked : /\ asked[r].kind = "connect" /\ asked[r].origin = o
                                      /\ asked[r].status = "awaiting_user"}
    IN /\ call # NoCall /\ call.at = "key"
       /\ \/ /\ ~Passes(call.frame)
             /\ Fails(call, "invalid_origin") /\ UNCHANGED asked
          \/ /\ Passes(call.frame) /\ o \in grants
             /\ KeyKnown(call, pageActive.key) /\ UNCHANGED asked
          \/ /\ Passes(call.frame) /\ o \notin grants
             /\ o \in parted \/ Refused(o)
             /\ Fails(call, "not_connected") /\ UNCHANGED asked
          \/ /\ Passes(call.frame) /\ o \notin grants \cup parted
             /\ asked' = IF live = {} THEN Append(asked, NewAsk("connect", call)) ELSE asked
             /\ Moves([call EXCEPT !.at = "connecting",
                          !.row = IF live = {} THEN Len(asked) + 1 ELSE CHOOSE r \in live : TRUE])
       /\ UNCHANGED <<pageActive, grants, parted, broadcasts, listening, heard, changes>>

(* The code a row that was not approved is reported with.                  *)
Refusal(row) == IF row.status = "rejected" THEN "user_rejected" ELSE row.status

(* DAPP_POLL_REQUEST_RESULT of an address: the origin is connected, and    *)
(* the address is that of the account active now.                          *)
ConnectPolled ==
    /\ call # NoCall /\ call.at = "connecting" /\ asked[call.row].status # "awaiting_user"
    /\ IF asked[call.row].status = "approved"
       THEN /\ grants' = grants \cup {asked[call.row].origin}
            /\ KeyKnown(call, pageActive.key)
       ELSE Fails(call, Refusal(asked[call.row])) /\ UNCHANGED grants
    /\ UNCHANGED <<pageActive, parted, asked, broadcasts, listening, heard, changes>>

(* DAPP_SIGN_TRANSACTION: its row is stored once the transaction of the    *)
(* active account is prepared.                                             *)
SendSign ==
    /\ call # NoCall /\ call.at = "send"
    /\ LET problem == CASE ~WellFormed(call) -> "validation_error"
                        [] WellFormed(call) /\ ~Passes(call.frame) -> "invalid_origin"
                        [] WellFormed(call) /\ Passes(call.frame)
                              /\ OriginOf(call.frame) \notin grants -> "not_connected"
                        [] WellFormed(call) /\ Passes(call.frame)
                              /\ OriginOf(call.frame) \in grants /\ call.key # pageActive.key ->
                              "account_mismatch"
                        [] OTHER -> "none"
       IN IF problem # "none" THEN Fails(call, problem) /\ UNCHANGED asked
          ELSE \/ /\ asked' = Append(asked, NewAsk("sign", call))
                  /\ Moves([call EXCEPT !.at = "signing", !.row = Len(asked) + 1])
               \/ Fails(call, "error") /\ UNCHANGED asked
    /\ UNCHANGED <<pageActive, grants, parted, broadcasts, listening, heard, changes>>

(* mapNativeSignResponseToSep, the kit's answer: signed by the address the *)
(* request named; sometimes nothing to hand over came of it.               *)
SignPolled ==
    LET row == asked[call.row] IN
    /\ call # NoCall /\ call.at = "signing" /\ row.status # "awaiting_user"
    /\ IF row.status = "approved" THEN Succeeds(call, "signed", call.key) \/ Fails(call, "error")
       ELSE Fails(call, Refusal(row))
    /\ UNCHANGED <<pageActive, grants, parted, asked, broadcasts, listening, heard, changes>>

(* No answer in two minutes; the row stays.                                *)
CallTimesOut ==
    /\ call # NoCall /\ call.at \in {"net", "key", "connecting", "send", "signing"}
    /\ Fails(call, "timeout")
    /\ UNCHANGED <<pageActive, grants, parted, asked, broadcasts, listening, heard, changes>>

(* Bound on changes of account or network, and on disconnects.             *)
MayChange == changes < IF listening.listeners = {} THEN 1 ELSE MaxChanges

(* disconnect of the page: its rows are dropped, its listeners stay.       *)
Disconnect(f) ==
    /\ Passes(f) /\ MayChange /\ changes' = changes + 1
    /\ grants' = grants \ {OriginOf(f)} /\ parted' = parted \cup {OriginOf(f)}
    /\ asked' = [r \in DOMAIN asked |->
                    IF asked[r].origin = OriginOf(f) /\ asked[r].status = "awaiting_user"
                    THEN [asked[r] EXCEPT !.status = "not_connected"] ELSE asked[r]]
    /\ UNCHANGED <<pageActive, call, answers, broadcasts, listening, heard>>

(* DAPP_PAGE_SESSION_START of a fresh document.                            *)
NewDocument(f) ==
    /\ Passes(f) /\ OriginOf(f) \in parted /\ call = NoCall
    /\ parted' = parted \ {OriginOf(f)}
    /\ UNCHANGED <<pageActive, grants, asked, call, answers, broadcasts, listening, heard, changes>>

-----------------------------------------------------------------------------
(* The user: GrantAccessScreen and the review.  Confirm signs with the     *)
(* account active now, which the chain takes for the account of the row.   *)

Decide(r) ==
    /\ asked[r].status = "awaiting_user"
    /\ \E status \in {"approved", "rejected", "expired", "sign_failed"} :
          /\ status = "sign_failed" => asked[r].kind = "sign"
          /\ status = "approved" /\ asked[r].kind = "sign" =>
                ~asked[r].blocked /\ pageActive.key = asked[r].key
          /\ asked' = [asked EXCEPT ![r].status = status,
                          ![r].signer = IF status = "approved" THEN pageActive.key ELSE NoKey]
    /\ UNCHANGED <<pageActive, grants, parted, call, answers, broadcasts, listening, heard, changes>>

-----------------------------------------------------------------------------
(* Events.                                                                 *)

(* broadcastActiveAccountChanged reads the account, then the network;      *)
(* broadcastNetworkChanged the network, unless it is told, then the account*)
Broadcast(event, net) == [event |-> event, key |-> NoKey, net |-> net]

(* SET_ACTIVE_ACCOUNT and applyDeveloperMode announce it, and so does the  *)
(* listener of the storage; it is followed here once the page listens.     *)
ActiveChanges ==
    /\ MayChange /\ changes' = changes + 1
    /\ pageActive' \in [key : PageKeys, net : CallNets] \ {pageActive}
    /\ broadcasts' = broadcasts
          \cup (IF listening = Silent THEN {} ELSE {Broadcast("accountChanged", "unread")})
          \cup (IF listening = Silent \/ pageActive'.net = pageActive.net THEN {}
                ELSE {Broadcast("networkChanged", pageActive'.net),
                      Broadcast("networkChanged", "unread")})
    /\ listening' = [listening EXCEPT !.oneByOne = @ /\ broadcasts = {}]
    /\ UNCHANGED <<grants, parted, asked, call, answers, heard>>

ReadForEvent(b) ==
    /\ broadcasts' = (broadcasts \ {b}) \cup
          {IF b.event = "networkChanged" /\ b.net = "unread" THEN [b EXCEPT !.net = pageActive.net]
           ELSE IF b.key = NoKey THEN [b EXCEPT !.key = pageActive.key]
           ELSE [b EXCEPT !.net = pageActive.net]}
    /\ b.key = NoKey \/ b.net = "unread"
    /\ UNCHANGED <<pageActive, grants, parted, asked, call, answers, listening, heard, changes>>

(* The page's handler is called by each of its listeners for the event.    *)
DeliverEvent(b) ==
    /\ b.key # NoKey /\ b.net # "unread"
    /\ broadcasts' = broadcasts \ {b}
    /\ heard' = IF \E l \in listening.listeners : l[1] = b.event
                THEN [key |-> b.key, net |-> b.net] ELSE heard
    /\ UNCHANGED <<pageActive, grants, parted, asked, call, answers, listening, changes>>

(* onChange of the kit registers one handler for both events: the map      *)
(* keeps its last listener only.  A page that listens is explored apart    *)
(* from one that calls.                                                    *)
OnChange ==
    /\ listening = Silent /\ answers = << >> /\ call = NoCall
    /\ listening' = [listening EXCEPT !.map = 2,
                        !.listeners = {<<"accountChanged", 1>>, <<"networkChanged", 2>>}]
    /\ UNCHANGED <<pageActive, grants, parted, asked, call, answers, broadcasts, heard, changes>>

(* off: the listener the handler maps to, if it listens to the event.      *)
Off(event) ==
    /\ listening.map # 0
    /\ listening' = [listening EXCEPT !.listeners = @ \ {<<event, listening.map>>}, !.map = 0]
    /\ UNCHANGED <<pageActive, grants, parted, asked, call, answers, broadcasts, heard, changes>>

PageCallsNext ==
    \/ \E f \in Frames : (\E shape \in CallShapes : CallWallet(f, shape))
                         \/ Disconnect(f) \/ NewDocument(f)
    \/ NetAnswered \/ AskKey \/ ConnectPolled \/ SendSign \/ SignPolled \/ CallTimesOut
    \/ \E r \in DOMAIN asked : Decide(r)
    \/ ActiveChanges
    \/ \E b \in broadcasts : ReadForEvent(b) \/ DeliverEvent(b)
    \/ OnChange \/ \E event \in {"accountChanged", "networkChanged"} : Off(event)

-----------------------------------------------------------------------------
PageCallsTypeOK ==
    /\ pageActive \in [key : PageKeys, net : CallNets]
    /\ grants \cup parted \subseteq WebOrigins /\ heard.net \in CallNets
    /\ \A r \in DOMAIN asked :
          asked[r].status \in {"awaiting_user", "approved", "rejected", "expired", "sign_failed",
                               "not_connected"}
    /\ \A i \in DOMAIN answers : answers[i].status \in {"error", "address", "signed"}
    /\ listening.map \in 0..2 /\ changes \in 0..MaxChanges

(* A website gets what its user gave it: "signed" comes of a row of its    *)
(* own origin that the user approved and the account named in the answer   *)
(* signed, for the network that was said; only a native call submits; an   *)
(* address goes to an origin the user connected; a call fails with the     *)
(* user's refusal only when the user refused; and a page that listens has, *)
(* once the events have arrived, the account and the network that are      *)
(* active, unless a change came before the events of another.              *)
PageIsAnswered ==
    /\ (/\ heard # NotHeard /\ listening.oneByOne /\ broadcasts = {}
        /\ \E l \in listening.listeners : l[1] = "accountChanged") => heard = pageActive
    /\ \A i \in DOMAIN answers :
          LET a == answers[i]
              row == asked[a.call.row]
          IN /\ a.status = "signed" =>
                   /\ row.kind = "sign" /\ row.status = "approved"
                   /\ row.origin = a.call.frame.origin
                   /\ row.signer = a.signer /\ row.key = a.signer
                   /\ a.call.shape.net \in CallNets => row.net = a.call.shape.net
                   /\ row.submit => a.call.shape.how = "native"
             /\ a.status \in {"signed", "address"} =>
                   \E r \in DOMAIN asked : /\ asked[r].kind = "connect"
                                           /\ asked[r].status = "approved"
                                           /\ asked[r].origin = a.call.frame.origin
             /\ a.code \in {"-4", "user_rejected"} =>
                   /\ a.call.row # 0 /\ row.status = "rejected"
                   /\ row.origin = a.call.frame.origin
=============================================================================
