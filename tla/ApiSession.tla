----------------------------- MODULE ApiSession -----------------------------
(***************************************************************************)
(* What identifies the wallet to the Latch API: the bearer tokens of the   *)
(* v1 routes (api/v1Client.ts, v1TokenStorage.ts, v1Auth/handlers.ts and   *)
(* ui/lib/v1Auth.ts) and the session cookie of a passkey ceremony          *)
(* (api/webauthn.ts, webauthnSession.ts), under developer mode, which      *)
(* moves the wallet to another host (api/developerMode.ts, config.ts).     *)
(* The token store and the ceremony slot are each read and written whole;  *)
(* calls overlap, tokens expire and the host changes under them.           *)
(***************************************************************************)
EXTENDS Naturals, FiniteSets

CONSTANTS ApiCalls,      \* v1 calls that may run at once
          Ceremonies,    \* passkey ceremonies that may run at once
          ApiWallets,    \* wallets that sign in
          MaxApiTokens,  \* bound on the tokens the API issues
          MaxFetches,    \* bound on the calls made
          MaxToggles     \* bound on switches of developer mode

ASSUME ApiAssumption == {MaxApiTokens, MaxFetches, MaxToggles} \subseteq Nat

VARIABLES
    host,        \* the deployment the wallet talks to: the developer mode flag
    tokens,      \* latch.v1TokensByWallet: <<network, wallet>> -> token pair
    expired,     \* numbers of tokens no longer fresh
    spent,       \* numbers of tokens whose refresh token the API has used up
    issued,      \* how many token pairs the API has issued
    call,        \* ApiCalls -> the v1 call
    fetches,
    slot,        \* latch.webauthn.session.v1: the ceremony whose finish is due
    cookie,      \* hosts whose sid cookie the browser holds
    rite,        \* Ceremonies -> the passkey ceremony
    switching,   \* developer mode: the ceremony slot is still to be cleared
    toggles

tokenVars == <<tokens, expired, spent, issued, call, fetches>>
riteVars == <<slot, cookie, rite>>
apiVars == <<host, tokenVars, riteVars, switching, toggles>>

Hosts == {"production", "staging"}
Other(h) == IF h = "production" THEN "staging" ELSE "production"
Nets == {"mainnet", "testnet"}

\* getActiveNetwork: the network is the deployment's.
NetOf(h) == IF h = "production" THEN "mainnet" ELSE "testnet"

NoToken == [no |-> 0, of |-> "none", at |-> "none", stray |-> FALSE]
NoSlot == [sid |-> "none", base |-> "none", kind |-> "none", stray |-> FALSE]
IdleCall == [at |-> "idle", op |-> "none", of |-> "none", token |-> NoToken,
             base |-> <<>>, again |-> FALSE, stray |-> FALSE]
IdleRite == [at |-> "idle", kind |-> "none", host |-> "none", sid |-> "none", stray |-> FALSE]

(* Variant: the key is the bare wallet, as before the networks were split. *)
BareWalletKey(h, w) == <<"mainnet", w>>

(* v1TokenStorageKey: the pair of a wallet on a network.                   *)
TokenKey(h, w) == <<NetOf(h), w>>

ApiInit ==
    /\ host = "production"
    /\ tokens = [k \in Nets \X ApiWallets |-> NoToken]
    /\ expired = {} /\ spent = {} /\ issued = 0
    /\ call = [c \in ApiCalls |-> IdleCall]
    /\ fetches = 0
    /\ slot = NoSlot /\ cookie = {}
    /\ rite = [k \in Ceremonies |-> IdleRite]
    /\ switching = FALSE /\ toggles = 0

-----------------------------------------------------------------------------
(* The API (external): tokens of its own wallets, until they are used up.  *)

Accepts(h, token) == token.at = h /\ token.no \notin expired
Refreshes(h, token) == token.at = h /\ token.no \notin spent
Minted(h, w) == [NoToken EXCEPT !.no = issued + 1, !.of = w, !.at = h]

TokenExpires(n) ==
    /\ n \in 1 .. issued /\ n \notin expired
    /\ expired' = expired \cup {n}
    /\ UNCHANGED <<host, tokens, spent, issued, call, fetches, riteVars, switching, toggles>>

-----------------------------------------------------------------------------
(* The calls of the worker.                                                *)

Call(c, step) == call' = [call EXCEPT ![c] = step]
CallOver(c) == Call(c, IdleCall)
TokensKept == UNCHANGED <<host, tokens, expired, spent, issued, fetches, riteVars, switching, toggles>>

(* v1FetchForWallet, or ensureV1Auth from the Fund screen.                 *)
StartCall(c, op, w) ==
    /\ call[c].at = "idle" /\ fetches < MaxFetches
    /\ fetches' = fetches + 1
    /\ Call(c, [IdleCall EXCEPT !.at = "resolve", !.op = op, !.of = w])
    /\ UNCHANGED <<host, tokens, expired, spent, issued, riteVars, switching, toggles>>

(* A call ends with an error: COSIGN_ENSURE_V1_AUTH answers false the      *)
(* first time, and the page goes on to sign in with the passkey.           *)
CallFails(c) ==
    IF call[c].op = "ensure" /\ ~call[c].again
    THEN Call(c, [call[c] EXCEPT !.at = "challenge", !.token = NoToken, !.base = <<>>])
    ELSE CallOver(c)

(* resolveAccessToken: a fresh token is used, a stale one refreshed.       *)
ResolveAccessToken(c) ==
    /\ call[c].at = "resolve"
    /\ LET pair == tokens[TokenKey(host, call[c].of)] IN
        CASE pair = NoToken -> CallFails(c)
          [] pair # NoToken /\ pair.no \notin expired ->
                IF call[c].op = "fetch" THEN Call(c, [call[c] EXCEPT !.at = "send", !.token = pair])
                                        ELSE CallOver(c)
          [] OTHER -> Call(c, [call[c] EXCEPT !.at = "refresh", !.token = pair])
    /\ TokensKept

(* The second half of a 401: a failure clears the pair.                    *)
RefreshFails(c) ==
    IF call[c].op = "fetch" /\ call[c].again
    THEN Call(c, [call[c] EXCEPT !.at = "clear"]) ELSE CallFails(c)

(* refreshV1Tokens: the API issues the next pair; it may retire the old    *)
(* one, and the answer may be lost on the way.                             *)
RefreshV1Tokens(c) ==
    /\ call[c].at = "refresh"
    /\ IF Refreshes(host, call[c].token) /\ issued < MaxApiTokens
       THEN /\ issued' = issued + 1
            /\ spent' \in {spent, spent \cup {call[c].token.no}}
            /\ \/ Call(c, [call[c] EXCEPT !.at = "store",
                                          !.token = Minted(host, call[c].token.of)])
               \/ RefreshFails(c)
       ELSE RefreshFails(c) /\ UNCHANGED <<issued, spent>>
    /\ UNCHANGED <<host, tokens, expired, fetches, riteVars, switching, toggles>>

(* setV1TokenPair and clearV1TokenPair read the whole store ...            *)
ReadTokens(c) ==
    /\ call[c].at \in {"store", "clear"}
    /\ Call(c, [call[c] EXCEPT !.at = IF @ = "store" THEN "write" ELSE "erase",
                               !.base = [of |-> tokens, key |-> TokenKey(host, call[c].of)]])
    /\ TokensKept

(* ... and write it back with the pair of this wallet set,                 *)
SetV1TokenPair(c) ==
    /\ call[c].at = "write"
    /\ tokens' = [call[c].base.of EXCEPT ![call[c].base.key] =
                      [call[c].token EXCEPT !.stray = call[c].stray]]
    /\ IF call[c].op = "fetch" THEN Call(c, [call[c] EXCEPT !.at = "send", !.base = <<>>])
       ELSE IF call[c].again
       THEN Call(c, [call[c] EXCEPT !.at = "resolve", !.base = <<>>, !.token = NoToken])
       ELSE CallOver(c)
    /\ UNCHANGED <<host, expired, spent, issued, fetches, riteVars, switching, toggles>>

(* or removed.                                                             *)
ClearV1TokenPair(c) ==
    /\ call[c].at = "erase"
    /\ tokens' = [call[c].base.of EXCEPT ![call[c].base.key] = NoToken]
    /\ CallOver(c)
    /\ UNCHANGED <<host, expired, spent, issued, fetches, riteVars, switching, toggles>>

(* v1Fetch with the token: an answer, a 401, or another failure, which     *)
(* clears the pair when it meets the retry.                                *)
V1Fetch(c) ==
    /\ call[c].at = "send"
    /\ \/ Accepts(host, call[c].token) /\ CallOver(c)
       \/ ~Accepts(host, call[c].token) /\ ~call[c].again
              /\ Call(c, [call[c] EXCEPT !.at = "retry"])
       \/ IF call[c].again THEN Call(c, [call[c] EXCEPT !.at = "clear"]) ELSE CallOver(c)
    /\ TokensKept

(* retryV1FetchAfter401: refresh what is stored now, once.                 *)
RetryV1FetchAfter401(c) ==
    /\ call[c].at = "retry"
    /\ LET pair == tokens[TokenKey(host, call[c].of)] IN
       Call(c, [call[c] EXCEPT !.at = IF pair = NoToken THEN "clear" ELSE "refresh",
                               !.token = pair, !.again = TRUE])
    /\ TokensKept

(* signInWithPasskey: a challenge of the current host, refused when the    *)
(* network moved; the prompt; and the sign-in, which the API accepts for   *)
(* its own challenge.                                                      *)
RequestChallenge(c) ==
    /\ call[c].at = "challenge"
    /\ \/ Call(c, [call[c] EXCEPT !.at = "prompt", !.again = TRUE, !.base = host])
       \/ CallOver(c)
    /\ TokensKept

CompleteWalletSignIn(c) ==
    /\ call[c].at = "prompt"
    /\ \/ /\ call[c].base = host /\ issued < MaxApiTokens
          /\ issued' = issued + 1
          /\ Call(c, [call[c] EXCEPT !.at = "store", !.token = Minted(host, call[c].of)])
       \/ CallOver(c) /\ UNCHANGED issued
    /\ UNCHANGED <<host, tokens, expired, spent, fetches, riteVars, switching, toggles>>

-----------------------------------------------------------------------------
(* A ceremony with the API's session cookie.                               *)

Rite(k, step) == rite' = [rite EXCEPT ![k] = step]
RitesOnly == UNCHANGED <<host, tokenVars, switching, toggles>>

(* passkeyBegin, first half: the host answers with its cookie.             *)
PasskeyBegin(k, kind) ==
    /\ rite[k].at = "idle"
    /\ cookie' = cookie \cup {host}
    /\ Rite(k, [IdleRite EXCEPT !.at = "begun", !.kind = kind, !.host = host, !.sid = host])
    /\ RitesOnly /\ UNCHANGED slot

(* persistWebauthnCeremony: under the base URL of this moment.             *)
PersistCeremony(k) ==
    /\ rite[k].at = "begun"
    /\ slot' = [sid |-> rite[k].sid, base |-> host, kind |-> rite[k].kind, stray |-> rite[k].stray]
    /\ Rite(k, [rite[k] EXCEPT !.at = "prompt"])
    /\ RitesOnly /\ UNCHANGED cookie

(* getWebauthnSession: the slot is taken when host and kind are those of   *)
(* this finish.                                                            *)
SessionUsable(kind) == slot.base = host /\ slot.kind = kind

(* passkeyFinish: the cookie header, from the slot or from the browser.    *)
PasskeyFinish(k) ==
    /\ rite[k].at = "prompt"
    /\ Rite(k, [rite[k] EXCEPT !.at = "finishing", !.host = host,
           !.sid = IF SessionUsable(rite[k].kind) THEN slot.sid
                   ELSE IF host \in cookie THEN host ELSE "none",
           !.stray = @ \/ (SessionUsable(rite[k].kind) /\ slot.stray)])
    /\ RitesOnly /\ UNCHANGED <<slot, cookie>>

(* Its answer, or its failure: the slot is cleared, whoever filled it.     *)
FinishEnds(k) ==
    /\ rite[k].at = "finishing"
    /\ slot' = NoSlot
    /\ cookie' \in {cookie, cookie \cup {rite[k].host}}
    /\ Rite(k, IdleRite)
    /\ RitesOnly

(* The user gives the prompt up: the slot stays.                           *)
PromptRefused(k) ==
    /\ rite[k].at = "prompt"
    /\ Rite(k, IdleRite)
    /\ RitesOnly /\ UNCHANGED <<slot, cookie>>

(* clearLatchApiSession, on logout.                                        *)
ClearLatchApiSession ==
    /\ slot' = NoSlot
    /\ cookie' = cookie \ {host}
    /\ RitesOnly /\ UNCHANGED rite

-----------------------------------------------------------------------------
(* applyDeveloperMode, once the other host reported its network.  What is  *)
(* under way is marked (ghost): it was begun for the host before.          *)
SwitchHost ==
    /\ toggles < MaxToggles
    /\ host' = Other(host) /\ switching' = TRUE /\ toggles' = toggles + 1
    /\ call' = [c \in ApiCalls |-> IF call[c].at = "idle" THEN call[c]
                                   ELSE [call[c] EXCEPT !.stray = TRUE]]
    /\ rite' = [k \in Ceremonies |-> IF rite[k].at = "begun"
                                     THEN [rite[k] EXCEPT !.stray = TRUE] ELSE rite[k]]
    /\ UNCHANGED <<tokens, expired, spent, issued, fetches, slot, cookie>>

ClearCeremonySlot ==
    /\ switching
    /\ switching' = FALSE /\ slot' = NoSlot
    /\ UNCHANGED <<host, tokenVars, cookie, rite, toggles>>

CallStep(c) ==
    \/ ResolveAccessToken(c) \/ RefreshV1Tokens(c) \/ ReadTokens(c) \/ SetV1TokenPair(c)
    \/ ClearV1TokenPair(c) \/ V1Fetch(c) \/ RetryV1FetchAfter401(c)
    \/ RequestChallenge(c) \/ CompleteWalletSignIn(c)

\* The two halves meet in the host alone.
TokensNext ==
    \/ \E c \in ApiCalls :
        \/ CallStep(c)
        \/ \E w \in ApiWallets, op \in {"fetch", "ensure"} : StartCall(c, op, w)
    \/ \E n \in 1 .. MaxApiTokens : TokenExpires(n)
    \/ SwitchHost

RitesNext ==
    \/ \E k \in Ceremonies :
        \/ \E kind \in {"registration", "authentication"} : PasskeyBegin(k, kind)
        \/ PersistCeremony(k) \/ PasskeyFinish(k) \/ FinishEnds(k) \/ PromptRefused(k)
    \/ SwitchHost \/ ClearCeremonySlot \/ ClearLatchApiSession

-----------------------------------------------------------------------------
ApiTypeOK ==
    /\ host \in Hosts /\ cookie \subseteq Hosts
    /\ \A k \in Nets \X ApiWallets : tokens[k].of \in ApiWallets \cup {"none"}
    /\ expired \cup spent \subseteq 1 .. issued
    /\ slot.sid \in Hosts \cup {"none"} /\ toggles \in 0 .. MaxToggles

(* What a request carries was issued for it: a bearer token goes out for   *)
(* the wallet and to the host that it was issued for, and a ceremony ends  *)
(* with the cookie of the host it ends at, whatever expires, overlaps or   *)
(* is stored late.  What was under way when the host changed is excepted.  *)
CredentialsKeepTheirHost ==
    /\ \A c \in ApiCalls : call[c].at = "send" /\ ~call[c].stray /\ ~call[c].token.stray =>
           call[c].token.of = call[c].of /\ call[c].token.at = host
    /\ \A k \in Ceremonies : rite[k].at = "finishing" /\ ~rite[k].stray =>
           rite[k].sid \in {rite[k].host, "none"}
=============================================================================
