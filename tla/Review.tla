------------------------------- MODULE Review -------------------------------
(***************************************************************************)
(* The review of a website's transaction and its signature                 *)
(* (background/externalSign/orchestrator.ts, packages/stellar's decoder,   *)
(* background/tx/signBuiltTx.ts): the transaction the site sent is         *)
(* prepared by the backend, after a one-time setup if the account has no   *)
(* rule for it, compared with what came back, and signed in the entry of   *)
(* the account.  The user switches account and network meanwhile.          *)
(***************************************************************************)
EXTENDS Naturals, Sequences, FiniteSets, SequencesExt

CONSTANTS ReviewWallets,  \* smart accounts of this device
          KeyWallets,     \* those that sign with a seed's key, not a passkey
          ReviewNets,     \* networks
          Catalog,        \* token contracts of the catalog
          Routers,        \* swap contracts the wallet knows
          Callees,      \* all contracts but the fee forwarder
          Calls,          \* <<function, contract>> a transaction may call
          FeeTerms,       \* <<token, cap>> a network fee may be stated in
          FeeAssets,      \* tokens Latch charges fees in
          Shapes          \* auth entries a build may carry

Forwarder == "forwarder"    \* the fee forwarder of this network
NoSigner == "nobody"
NoTerms == <<"none", 0>>

ASSUME ReviewAssumption ==
    /\ KeyWallets \subseteq ReviewWallets /\ NoSigner \notin ReviewWallets
    /\ Catalog \cup Routers \subseteq Callees /\ Forwarder \notin Callees
    /\ Calls \subseteq {"transfer", "call"} \X Callees
    /\ FeeTerms \subseteq STRING \X Nat /\ NoTerms \notin FeeTerms
    /\ \A b \in Shapes : DOMAIN b.entries \cup DOMAIN b.natives \subseteq Nat

VARIABLES
    here,       \* the active account and network
    session,    \* the request under review
    sealed      \* the entry that was signed, by whom, at which index

reviewVars == <<here, session, sealed>>

-----------------------------------------------------------------------------
(* What the decoder reads of a transaction: one operation, the call and,   *)
(* when the forwarder wraps it, who pays which fee at most.                *)

ACall(fn, on, payer, fee) == [fn |-> fn, on |-> on, payer |-> payer, fee |-> fee]
NotRead == ACall("unreadable", NoSigner, NoSigner, NoTerms)
Opaque == ACall("opaque", NoSigner, NoSigner, NoTerms)       \* a host function that is not a call

(* A forward() with other arguments is a call of the forwarder itself.     *)
Txs ==
    {NotRead, Opaque, ACall("call", Forwarder, NoSigner, NoTerms)}
        \cup {ACall(c[1], c[2], NoSigner, NoTerms) : c \in Calls}
        \cup {ACall(c[1], c[2], u, f) : c \in Calls, u \in ReviewWallets, f \in FeeTerms}

IsCall(tx) == tx \notin {NotRead, Opaque}
Wrapped(tx) == IsCall(tx) /\ tx.payer # NoSigner

(* The contracts invoked, the forwarder's own included.                    *)
InvokeContractIds(tx) ==
    IF ~IsCall(tx) THEN {} ELSE {tx.on} \cup IF Wrapped(tx) THEN {Forwarder} ELSE {}

ForwardUsers(tx) == IF Wrapped(tx) THEN {tx.payer} ELSE {}
FeeRows(tx) == IF Wrapped(tx) THEN {tx.fee} ELSE {}
TransferOf(tx) == IF IsCall(tx) /\ tx.fn = "transfer" THEN {tx.on} ELSE {}

(* A fee in another token than Latch charges is pointed out.               *)
FeeTokenWarnings(tx) == {f[1] : f \in FeeRows(tx)} \ FeeAssets

(* Variant: as many contracts as the site's. *)
SameNumberOfContracts(a, b) == Cardinality(a \ {Forwarder}) = Cardinality(b \ {Forwarder})

ContractIdSetsEqual(a, b) == a \ {Forwarder} = b \ {Forwarder}

NoReview == [code |-> "none", tx |-> Opaque, prep |-> Opaque, fees |-> {}, warned |-> FALSE]

(* assessExternalSignReview: what the review shows of the transaction tx   *)
(* and of prep, what the backend made of it, and why it refuses Confirm.   *)
Assess(s, prep) ==
    LET same(a, b, c) == a = b /\ b = c
        warns == FeeTokenWarnings(s.tx)
        shown == [code |-> "ok", tx |-> s.tx, prep |-> prep.tx, fees |-> FeeRows(s.tx),
                  warned |-> warns # {}]
        blocked(code) == [shown EXCEPT !.code = code]
        repriced == FeeRows(s.tx) # {} /\ FeeRows(s.tx) # FeeRows(prep.tx)
        final == [shown EXCEPT !.fees = FeeRows(prep.tx),
                               !.warned = @ \/ repriced \/ FeeTokenWarnings(prep.tx) # {}]
    IN CASE ~same(s.net, prep.net, here.net) -> blocked("network_mismatch")
         [] ~same(s.of, prep.of, s.mine) -> blocked("account_mismatch")
         [] NotRead \in {s.tx, prep.tx} -> blocked("unparsable_xdr")
         [] (ForwardUsers(s.tx) \cup ForwardUsers(prep.tx)) \ {s.mine} # {} ->
              [final EXCEPT !.code = "user_mismatch"]
         [] ~ContractIdSetsEqual(InvokeContractIds(s.tx), InvokeContractIds(prep.tx)) ->
              [final EXCEPT !.code = "contract_mismatch"]
         [] OTHER -> final

-----------------------------------------------------------------------------
(* prepareExternalSignSession.                                             *)

NoSession ==
    [at |-> "idle", tx |-> Opaque, net |-> "none", of |-> NoSigner, mine |-> NoSigner,
     err |-> "none", tries |-> 0, setup |-> "none", review |-> NoReview]

Unsealed == [entry |-> NoSigner, by |-> NoSigner, index |-> 0, all |-> << >>]

Seal(s) == [NoSession EXCEPT !.at = "signed", !.of = s.of]

ReviewInit ==
    /\ here \in [net : {CHOOSE n \in ReviewNets : TRUE}, of : ReviewWallets]
    /\ session = NoSession /\ sealed = Unsealed

EndsAs(s, err) == [s EXCEPT !.at = "failed", !.err = err]

(* getActiveAccountOrThrow: the account is the active one now.             *)
Preparing(s) ==
    IF s.of # here.of THEN EndsAs(s, "account_mismatch")
    ELSE [s EXCEPT !.at = "preparing", !.mine = here.of, !.tries = 1]

(* A site asks, with its transaction or with a reference to one.           *)
RequestReview(tx, net, of) ==
    /\ session.at = "idle"
    /\ \/ session' = Preparing([session EXCEPT !.tx = tx, !.net = net, !.of = of])
       \/ session' = [session EXCEPT !.at = "resolving", !.net = net, !.of = of]
    /\ UNCHANGED <<here, sealed>>

(* The stored payload has to be of the network and account the link named. *)
ResolveUnsignedXdr(tx, net, of) ==
    /\ session.at = "resolving"
    /\ session' = IF net # session.net THEN EndsAs(session, "validation_error")
                  ELSE IF of # session.of THEN EndsAs(session, "account_mismatch")
                  ELSE Preparing([session EXCEPT !.tx = tx])
    /\ UNCHANGED <<here, sealed>>

(* resolveExternalSignContextSetup: the rules a transaction may have set   *)
(* up for it, the router's it calls or the catalog asset's it transfers.   *)
SetupFor(s) ==
    LET routers == InvokeContractIds(s.tx) \cap Routers
        tokens == TransferOf(s.tx) \cap Catalog
    IN IF s.tx = NotRead \/ ForwardUsers(s.tx) \ {s.mine} # {} THEN {}
       ELSE IF routers # {} THEN routers ELSE tokens

(* The backend prepares the transaction, or not: the account has no rule   *)
(* for it, it fails for a reason it does not state, or otherwise.          *)
PrepareSign(prep) ==
    /\ session.at = "preparing"
    /\ session' = [session EXCEPT !.at = "review", !.review = Assess(session, prep), !.tries = 0,
                                  !.setup = "none"]
    /\ UNCHANGED <<here, sealed>>

PrepareSignFails(err) ==
    /\ session.at = "preparing"
    /\ session' = IF err = "other" \/ session.tries = 2 THEN EndsAs(session, err)
                  ELSE IF SetupFor(session) = {} THEN EndsAs(session, "unsupported")
                  ELSE [session EXCEPT !.at = "settingUp", !.err = err,
                                       !.setup = CHOOSE t \in SetupFor(session) : TRUE]
    /\ UNCHANGED <<here, sealed>>

(* The setup is signed and confirmed, was not needed, or fails: when       *)
(* nothing was missing, only a rule known to be missing is tried again.    *)
RunContextRuleSetup(result) ==
    /\ session.at = "settingUp"
    /\ session' = CASE result = "failed" -> EndsAs(session, "setup")
                    [] result = "already" /\ session.err # "no_rule" -> EndsAs(session, session.err)
                    [] OTHER -> [session EXCEPT !.at = "preparing", !.tries = 2, !.err = "none"]
    /\ UNCHANGED <<here, sealed>>

(* The user turns to another account or network.                           *)
SwitchHere(h) ==
    /\ session.at \in {"resolving", "preparing", "settingUp", "review"} /\ h # here
    /\ here' = h /\ UNCHANGED <<session, sealed>>

Dismissed ==
    /\ session.at \in {"review", "failed", "signed"}
    /\ session' = NoSession /\ sealed' = Unsealed /\ UNCHANGED <<here>>

-----------------------------------------------------------------------------
(* signAndSubmitBuiltTxInBackground.  A shape is [entries, natives, smart, *)
(* template, method, synthesized]: whose each auth entry is, the indices   *)
(* of those a key signs, the account's (0: not said) and the key's entry   *)
(* when the backend names it, how it wants the build submitted.            *)

(* normalizeDelegatedBuildFields: the fields of either form of a build.    *)
SmartIndex(b) == IF b.smart = 0 THEN 1 ELSE b.smart
SmartEntry(b) ==
    IF SmartIndex(b) \in DOMAIN b.entries THEN b.entries[SmartIndex(b)] ELSE NoSigner
Template(b) ==
    IF b.template # NoSigner \/ b.natives = << >> THEN b.template
    ELSE IF b.natives[1] \in DOMAIN b.entries THEN b.entries[b.natives[1]] ELSE NoSigner

IsDelegatedSendBuild(b) ==
    /\ Template(b) # NoSigner /\ SmartEntry(b) # NoSigner
    /\ b.method = "delegated" \/ (b.synthesized /\ b.natives # << >>)

(* The entries whose credentials are the key g's.                          *)
EntriesOf(b, g) == {i \in DOMAIN b.entries : b.entries[i] = g}

Least(indices) == CHOOSE i \in indices : \A j \in indices : i <= j

(* resolveDelegatedAuthEntryForSigner: those named first, then any other,  *)
(* then the template if it is the key's or does not say whose it is.       *)
DelegatedEntry(b, g) ==
    LET named == {k \in DOMAIN b.natives : b.natives[k] \in EntriesOf(b, g)}
        first == IF named # {} THEN b.natives[Least(named)] ELSE Least(EntriesOf(b, g))
    IN IF EntriesOf(b, g) # {} THEN {<<b.entries[first], first>>}
       ELSE IF Template(b) \in {g, "unsaid"}
       THEN {<<Template(b), IF b.natives = << >> THEN 1 ELSE b.natives[1]>>}
       ELSE {}

(* The key of a seed account has its smart account's name here.            *)
SignedByKey(b) ==
    LET entry == DelegatedEntry(b, here.of)
    IN IF entry = {} THEN session' = EndsAs(session, "no_entry") /\ UNCHANGED sealed
       ELSE \E e \in entry :
              \/ /\ session' = Seal(session)
                 /\ sealed' = [entry |-> e[1], by |-> here.of, index |-> e[2], all |-> b.entries]
              \/ session' = EndsAs(session, "locked") /\ UNCHANGED sealed

(* A passkey's assertion goes into the account's entry; a build a key has  *)
(* to sign is refused.  The ceremony may fail.                             *)
SignedByPasskey(b) ==
    \/ session' = EndsAs(session, "refused") /\ UNCHANGED sealed
    \/ /\ ~(IsDelegatedSendBuild(b) /\ b.method = "delegated")
       /\ here.of \notin KeyWallets /\ SmartEntry(b) # NoSigner
       /\ session' = Seal(session)
       /\ sealed' = [entry |-> SmartEntry(b), by |-> here.of, index |-> SmartIndex(b),
                     all |-> b.entries]

(* Confirm: the active account signs, whichever it is by now.              *)
ConfirmReview(b) ==
    /\ session.at = "review" /\ session.review.code = "ok"
    /\ IF here.of \in KeyWallets /\ IsDelegatedSendBuild(b)
       THEN SignedByKey(b) ELSE SignedByPasskey(b)
    /\ UNCHANGED here

-----------------------------------------------------------------------------
ReviewNext ==
    \/ \E tx \in Txs, net \in ReviewNets, of \in ReviewWallets :
          RequestReview(tx, net, of) \/ ResolveUnsignedXdr(tx, net, of)
    \/ \E tx \in Txs : PrepareSign([tx |-> tx, net |-> session.net, of |-> session.of])
    \/ \E net \in ReviewNets, of \in ReviewWallets :
          PrepareSign([tx |-> session.tx, net |-> net, of |-> of])
    \/ \E err \in {"no_rule", "unstated", "other"} : PrepareSignFails(err)
    \/ \E r \in {"configured", "already", "failed"} : RunContextRuleSetup(r)
    \/ \E h \in [net : ReviewNets, of : ReviewWallets] : SwitchHere(h)
    \/ \E b \in Shapes : ConfirmReview(b)
    \/ Dismissed

ReviewTypeOK ==
    /\ here \in [net : ReviewNets, of : ReviewWallets]
    /\ session.at \in {"idle", "resolving", "preparing", "settingUp", "review", "signed", "failed"}
    /\ session.tx \in Txs /\ session.tries \in 0..2
    /\ session.setup \in {"none"} \cup Catalog \cup Routers

(* A website's transaction can be confirmed only if what will be signed    *)
(* calls the contracts the site's does, charges its fee to the account of  *)
(* the request, and that fee is the one shown, pointed out when it is not  *)
(* the site's own (assessExternalSignReview).                              *)
ReviewedIsPrepared ==
    LET r == session.review
    IN session.at = "review" /\ r.code = "ok" =>
         /\ InvokeContractIds(r.tx) \ {Forwarder} = InvokeContractIds(r.prep) \ {Forwarder}
         /\ Wrapped(r.prep) => r.prep.payer = session.of /\ r.fees = {r.prep.fee}
         /\ Wrapped(r.tx) /\ r.fees # {r.tx.fee} => r.warned

(* Rules are set up for a contract the transaction calls and no other; a   *)
(* key signs no entry that names somebody else, and the index submitted    *)
(* with an entry of its own is that entry's.                               *)
SetupIsNamed == session.setup # "none" => session.setup \in InvokeContractIds(session.tx)

KeySignsItsEntry ==
    session.at = "signed" /\ sealed.by \in KeyWallets =>
        /\ sealed.entry \in {sealed.by, "unsaid"}
        /\ sealed.by \in Range(sealed.all) => sealed.all[sealed.index] = sealed.by
=============================================================================
