---------------------------- MODULE AuthEntries -----------------------------
(***************************************************************************)
(* The authorization entries of a transaction: the signature put into the  *)
(* entry of the smart account and into the key's own, the transaction a    *)
(* migration assembles from its simulation, and the probe that compares,   *)
(* beside a submission, what the simulations with and without signatures   *)
(* ask for (packages/stellar sorobanAuth, sorobanPipeline,                 *)
(* sorobanResources; background/tx/enforcingSimProbe).  Which entry a key  *)
(* signs is module Review.                                                 *)
(***************************************************************************)
EXTENDS Naturals, Sequences, FiniteSets, SequencesExt

CONSTANTS Sealings,     \* what is submitted
          LocalTxs,     \* what is assembled here
          EntryNets,    \* networks
          VerifierOn,   \* networks a verifier is configured for
          CheckNeeds,   \* ledger keys the check of a signature reads
          MaxCallDepth  \* bound on the calls of an entry one below the other

ASSUME AuthEntriesAssumption ==
    VerifierOn \subseteq EntryNets /\ CheckNeeds \in Nat /\ MaxCallDepth \in Nat

VARIABLES
    sealing,    \* the submission in progress
    probe,      \* the probe beside it
    assembly    \* the local transaction

authEntriesVars == <<sealing, probe, assembly>>

NoEntries == [at |-> "none"]
NoSig == [by |-> "nobody", rules |-> << >>]
NoResources == [keys |-> 0, fee |-> 0, min |-> 0]

AuthEntriesInit == sealing = NoEntries /\ probe = NoEntries /\ assembly = NoEntries

-----------------------------------------------------------------------------
(* Entries.                                                                *)

(* The invocations an entry authorizes, level by level.                    *)
Invocations(inv) ==
    LET level[d \in 0..MaxCallDepth] ==
            IF d = 0 THEN {inv} ELSE UNION {Range(i.subs) : i \in level[d - 1]}
    IN UNION {level[d] : d \in 0..MaxCallDepth}
NodesOf(inv) == {i.node : i \in Invocations(inv)}

(* countAuthContexts: the root and every invocation below it.              *)
CountAuthContexts(inv) ==
    LET count[i \in Invocations(inv)] ==
            FoldLeft(LAMBDA n, sub : n + count[sub], 1, i.subs)
    IN count[inv]

(* Variant: of the root and what it calls itself. *)
OneRuleForEachCall(entry, rule) == [i \in 1..(1 + Len(entry.tree.subs)) |-> rule]

(* contextRuleIdsForEntry: the rule once for each of them.                 *)
ContextRuleIds(entry, rule) == [i \in 1..CountAuthContexts(entry.tree) |-> rule]

(* setAddressAuthSignature: of a copy.                                     *)
SetSignature(entry, sig) == [entry EXCEPT !.sig = sig]

(* buildWebAuthnAuthPayload, buildDelegatedAuthPayload.                    *)
AuthPayload(signer, rules) == [by |-> signer, rules |-> rules]

(* applyDelegatedGSignature.                                               *)
KeySigned(entry, signer) == SetSignature(entry, [by |-> signer, rules |-> << >>])

(* extractInvokeHostAuth.                                                  *)
InvokeHostAuth(tx) == IF tx.op = "invoke" THEN tx.auth ELSE << >>

(* txHasSignedAddressAuth.                                                 *)
HasSignedAuth(tx) ==
    \E i \in DOMAIN InvokeHostAuth(tx) : tx.auth[i].creds = "address" /\ tx.auth[i].sig # NoSig

(* replaceInvokeHostAuth.                                                  *)
ReplaceAuth(tx, entries) == [tx EXCEPT !.auth = entries]

-----------------------------------------------------------------------------
(* The transaction of a migration.                                         *)

(* What a simulation answers: with signatures their checks run.            *)
Simulated(tx) ==
    [keys |-> tx.needs.keys + (IF HasSignedAuth(tx) THEN CheckNeeds ELSE 0),
     fee |-> tx.needs.fee + (IF HasSignedAuth(tx) THEN CheckNeeds ELSE 0), min |-> 0]

(* assembleTransaction: the simulation's entries may take the place of the *)
(* transaction's, without their signatures.                                *)
AssembledFrom(tx, resources) ==
    LET bare == [i \in DOMAIN tx.auth |-> SetSignature(tx.auth[i], NoSig)]
    IN {[tx EXCEPT !.auth = auth, !.resources = resources] : auth \in {tx.auth, bare}}

(* simulateAndAssembleSoroban.                                             *)
StartAssembly(tx) ==
    /\ assembly = NoEntries
    /\ assembly' = [at |-> "simulating", tx |-> tx, enforcing |-> HasSignedAuth(tx)]
    /\ UNCHANGED <<sealing, probe>>

(* ... refused: an error, an answer of another kind, no data (the token is *)
(* not on this network).                                                   *)
AssemblyFails ==
    /\ assembly.at = "simulating"
    /\ assembly' = [assembly EXCEPT !.at = "failed"]
    /\ UNCHANGED <<sealing, probe>>

(* assembleWithEnforcingSimulation: the signed entries are put back.       *)
Assembled ==
    /\ assembly.at = "simulating"
    /\ \E tx \in AssembledFrom(assembly.tx, Simulated(assembly.tx)) :
          assembly' = [at |-> "ready", of |-> assembly.tx,
                       tx |-> IF assembly.enforcing /\ InvokeHostAuth(assembly.tx) # << >>
                              THEN ReplaceAuth(tx, InvokeHostAuth(assembly.tx)) ELSE tx]
    /\ UNCHANGED <<sealing, probe>>

-----------------------------------------------------------------------------
(* The submission, and the probe beside it.                                *)

(* resolveAuthEntries: all that the build lists, or those it names.        *)
AuthEntriesOf(b) ==
    CASE b.listed # << >> -> b.listed
      [] b.by = "passkey" -> <<b.smart>>
      [] OTHER -> <<b.smart, b.template>>

SmartAt(b) == IF b.index = 0 THEN 1 ELSE b.index

(* The entries with their signatures: the smart account's and, of a key,   *)
(* the one like its template, or the second, or one more.                  *)
CanSeal(b) ==
    /\ SmartAt(b) \in DOMAIN AuthEntriesOf(b) /\ b.rule # 0
    /\ AuthEntriesOf(b)[SmartAt(b)].creds = "address"

TemplateAt(b) ==
    LET es == AuthEntriesOf(b)
        same == {i \in DOMAIN es \ {SmartAt(b)} : es[i] = b.template}
    IN CASE same # {} -> CHOOSE i \in same : \A j \in same : i <= j
         [] same = {} /\ Len(es) > 1 /\ SmartAt(b) # 2 -> 2
         [] OTHER -> Len(es) + 1

Sealed(b) ==
    LET es == AuthEntriesOf(b)
        smart == es[SmartAt(b)]
        with == [es EXCEPT ![SmartAt(b)] =
                    SetSignature(smart, AuthPayload(b.by, ContextRuleIds(smart, b.rule)))]
        own == KeySigned(b.template, b.by)
    IN CASE b.by = "passkey" -> with
         [] TemplateAt(b) <= Len(es) -> [with EXCEPT ![TemplateAt(b)] = own]
         [] OTHER -> Append(with, own)

ProbeEnds(how) == probe' = [probe EXCEPT !.at = how]

(* signPasskeyPath, signDelegatedPath: the probe is started and left.  A   *)
(* template without address credentials has no signature to take.          *)
SubmitSealed(b) ==
    /\ sealing = NoEntries
    /\ IF b.by # "passkey" /\ b.template.creds # "address"
       THEN sealing' = [at |-> "failed", build |-> b] /\ UNCHANGED probe
       ELSE /\ sealing' = [at |-> "sent", build |-> b]
            /\ probe' = CASE b.by = "passkey" -> [at |-> "begun"]
                          [] CanSeal(b) -> [at |-> "sealed", entries |-> Sealed(b)]
                          [] OTHER -> [at |-> "failed"]
    /\ UNCHANGED assembly

SubmissionAnswered ==
    /\ sealing.at = "sent" /\ sealing' = [sealing EXCEPT !.at = "done"]
    /\ UNCHANGED <<probe, assembly>>

(* maybeProbeWebauthnEnforcingSim: once the network is read.               *)
ProbeFindsVerifier ==
    /\ probe.at = "begun"
    /\ \E net \in EntryNets :
          CASE net \notin VerifierOn -> ProbeEnds("skipped")
            [] net \in VerifierOn /\ ~CanSeal(sealing.build) -> ProbeEnds("failed")
            [] OTHER -> probe' = [at |-> "sealed", entries |-> Sealed(sealing.build)]
    /\ UNCHANGED <<sealing, assembly>>

(* compareResourceSummaries.                                               *)
Underestimated(recording, enforcing) ==
    LET Fee(r) == IF r.min # 0 THEN r.min ELSE r.fee
    IN enforcing.keys > recording.keys \/ Fee(enforcing) > Fee(recording)

(* probeEnforcingSim: the transaction as it was built, then with the       *)
(* signed entries.                                                         *)
ProbeCompares ==
    /\ probe.at = "sealed"
    /\ LET tx == sealing.build.tx
           with == ReplaceAuth(tx, probe.entries)
       IN IF tx.resources = NoResources THEN ProbeEnds("skipped")
          ELSE \/ ProbeEnds("failed")
               \/ probe' = [at |-> "compared", entries |-> probe.entries,
                            short |-> Underestimated(tx.resources, Simulated(with))]
    /\ UNCHANGED <<sealing, assembly>>

AuthEntriesNext ==
    \/ \E b \in Sealings : SubmitSealed(b)
    \/ SubmissionAnswered \/ ProbeFindsVerifier \/ ProbeCompares
    \/ \E tx \in LocalTxs : StartAssembly(tx)
    \/ AssemblyFails \/ Assembled

-----------------------------------------------------------------------------
AuthEntriesTypeOK ==
    /\ sealing.at \in {"none", "sent", "done", "failed"}
    /\ probe.at \in {"none", "begun", "sealed", "compared", "skipped", "failed"}
    /\ assembly.at \in {"none", "simulating", "ready", "failed"}

(* The entry of the smart account carries its rule once for each of the    *)
(* calls it authorizes and is otherwise as built; so is the entry like the *)
(* template of a key but for the key's signature, and every other entry,   *)
(* wherever the build lists them; what is assembled from a simulation      *)
(* keeps the signatures it came with and has room for their checks.        *)
EntriesAreAsSigned ==
    /\ probe.at \in {"sealed", "compared"} =>
          LET b == sealing.build
              es == AuthEntriesOf(b)
              smart == probe.entries[SmartAt(b)]
              changed == {i \in DOMAIN es \ {SmartAt(b)} : probe.entries[i] # es[i]}
          IN /\ Len(smart.sig.rules) = Cardinality(NodesOf(smart.tree))
             /\ SetSignature(smart, NoSig) = es[SmartAt(b)]
             /\ b.by = "passkey" \/ b.template \in {es[i] : i \in DOMAIN es \ {SmartAt(b)}} =>
                   \A i \in changed : /\ b.by # "passkey" /\ es[i] = b.template
                                      /\ probe.entries[i].sig.by = b.by
    /\ assembly.at = "ready" /\ HasSignedAuth(assembly.of) =>
          /\ assembly.tx.auth = assembly.of.auth
          /\ assembly.tx.resources.keys >= assembly.of.needs.keys + CheckNeeds
=============================================================================
