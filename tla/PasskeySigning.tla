--------------------------- MODULE PasskeySigning ---------------------------
(***************************************************************************)
(* The passkey prompt (ui/webauthn/passkey.ts): the options each use of it *)
(* is given, what the authenticator may answer to them, the checks of the  *)
(* answer, and what is made of its bytes: the compact low-S signature the  *)
(* wallet's contract takes and the key data of a new passkey.  The window  *)
(* of the prompt is module PasskeyBridge, the sessions of the server are   *)
(* module ApiSession, what follows an enrolment is module Enrolment.       *)
(***************************************************************************)
EXTENDS Naturals, Sequences, SequencesExt

CONSTANTS Passkeys,     \* the device's passkeys: id -> its public key and whether it is synced
          ByteBase,     \* digits of a scalar are below it: 256
          ScalarLen,    \* bytes of a scalar: 32
          CurveOrder,   \* order of the curve's group
          RawSignatures,  \* <<r, s>> that authenticators answer
          PromptBegins,   \* what is begun
          MaxPrompts    \* bound on prompts

ASSUME PasskeySigningAssumption ==
    /\ {ByteBase, ScalarLen, CurveOrder} \subseteq Nat \ {0}
    /\ RawSignatures \subseteq (1..(CurveOrder - 1)) \X (1..(CurveOrder - 1))
    /\ MaxPrompts \in Nat

VARIABLES
    passkeyPrompt,  \* the prompt in progress
    promptsDone     \* what prompts came to, oldest first

passkeySigningVars == <<passkeyPrompt, promptsDone>>

NoPrompt == [at |-> "none"]
NoBytes == << >>

PasskeySigningInit == passkeyPrompt = NoPrompt /\ promptsDone = << >>

-----------------------------------------------------------------------------
(* Options.                                                                *)

(* normalizeAllowCredentials: an empty list of transports says nothing.    *)
NormalizedAllow(allow) ==
    [i \in DOMAIN allow |-> [allow[i] EXCEPT !.via = IF @ = "none" THEN "unsaid" ELSE @]]

OnlyPasskey(cred) == <<[id |-> cred, via |-> "unsaid"]>>

(* normalizeAuthDigestHex: the digest of a build, with or without 0x; 0 is *)
(* not a digest.                                                           *)
NormalizedDigest(digest) == IF digest.text = "odd" THEN 0 ELSE digest.of

(* createLocalAuthenticationOptions: made here, for one passkey.           *)
LocalOptions(cred, challenge) ==
    [create |-> FALSE, rp |-> "domain", challenge |-> challenge, allow |-> OnlyPasskey(cred),
     exclude |-> {}]

(* assertBeginOptionsRpIdMatchesCanonicalDomain.                           *)
OfTheDomain(options) == options.rp = "domain"

(* narrowAuthenticationOptionsToCredential.                                *)
Narrowed(options, cred) ==
    LET mine == SelectSeq(options.allow, LAMBDA a : a.id = cred)
    IN [options EXCEPT !.allow = IF mine = << >> THEN OnlyPasskey(cred) ELSE NormalizedAllow(mine)]

(* prepareAuthenticationOptionsForGet.                                     *)
ForGet(options) == [options EXCEPT !.allow = NormalizedAllow(@)]

(* prepareDiscoverableAuthenticationOptions: the system's sheet offers     *)
(* every passkey of the domain.                                            *)
Discoverable(options) == [ForGet(options) EXCEPT !.allow = << >>]

(* prepareRegistrationOptionsForCreate: a device may hold many passkeys.   *)
ForCreate(options) == [options EXCEPT !.exclude = {}]

-----------------------------------------------------------------------------
(* Bytes.                                                                  *)

(* bigintTo32Bytes, and the digits of a DER integer.                       *)
ToBytes(x, n) == [i \in 1..n |-> (x \div ByteBase^(n - i)) % ByteBase]

FromBytes(bytes) == FoldLeft(LAMBDA x, b : x * ByteBase + b, 0, bytes)

(* The DER encoding that authenticators use: a leading zero keeps an       *)
(* integer positive.                                                       *)
DerInteger(x) ==
    LET len == CHOOSE n \in 1..ScalarLen : x < ByteBase^n /\ (n > 1 => x >= ByteBase^(n - 1))
        digits == ToBytes(x, len)
        bytes == IF 2 * digits[1] >= ByteBase THEN <<0>> \o digits ELSE digits
    IN <<2, Len(bytes)>> \o bytes

Der(r, s) ==
    LET body == DerInteger(r) \o DerInteger(s) IN <<48, Len(body)>> \o body

(* readInt of derToRs, at a place of the bytes.                            *)
ReadInt(der, at) ==
    [value |-> FromBytes(SubSeq(der, at + 2, at + 1 + der[at + 1])), next |-> at + 2 + der[at + 1]]

(* derToRs.                                                                *)
DerToRs(der) ==
    LET r == ReadInt(der, 3) IN <<r.value, ReadInt(der, r.next).value>>

(* Variant: the second scalar is kept as it was. *)
CompactAsIs(der) ==
    LET rs == DerToRs(der) IN ToBytes(rs[1], ScalarLen) \o ToBytes(rs[2], ScalarLen)

(* toLowSCompactSignatureP256.                                             *)
Compact(der) ==
    LET rs == DerToRs(der)
        lowS == IF rs[2] > CurveOrder \div 2 THEN CurveOrder - rs[2] ELSE rs[2]
    IN ToBytes(rs[1], ScalarLen) \o ToBytes(lowS, ScalarLen)

(* readUint16BE.                                                           *)
ReadUint16(bytes, at) == bytes[at] * ByteBase + bytes[at + 1]

(* extractRegistrationKeyData, of the attested data behind its fixed head: *)
(* the length of the id, the id, the key, and whatever follows.            *)
KeyData(attested) ==
    LET len == ReadUint16(attested, 1)
        id == SubSeq(attested, 3, 2 + len)
        key == attested[3 + len]
    IN IF key = 0 THEN NoBytes ELSE <<key>> \o id

(* normalizeWebauthnCredentialForApi: what crossed a message as bytes is   *)
(* text again; the raw id wins.                                            *)
SentId(answer) == IF answer.form = "bytes" \/ answer.id # answer.rawId THEN answer.rawId
                  ELSE answer.id

-----------------------------------------------------------------------------
(* The prompt.                                                             *)

PromptEnds(begin, status, answer) ==
    /\ passkeyPrompt' = NoPrompt
    /\ promptsDone' = Append(promptsDone, [begin |-> begin, status |-> status] @@ answer)

NoPromptAnswer == [id |-> "nobody", signed |-> NoBytes, keyData |-> NoBytes, by |-> "nobody",
             pair |-> <<1, 1>>]

PromptAsks(begin, options) ==
    /\ passkeyPrompt' = [at |-> "shown", begin |-> begin, options |-> options]
    /\ UNCHANGED promptsDone

(* passkeyAuthenticationOptionsForAuthDigest.                              *)
BeginSigning(b) ==
    /\ b.purpose = "sign"
    /\ IF NormalizedDigest(b.digest) = 0 THEN PromptEnds(b, "failed", NoPromptAnswer)
       ELSE PromptAsks(b, LocalOptions(b.cred, NormalizedDigest(b.digest)))

(* passkeyAuthenticationOptionsForV1Challenge.                             *)
BeginSignIn(b) ==
    /\ b.purpose = "v1"
    /\ IF b.options.challenge = 0 THEN PromptEnds(b, "failed", NoPromptAnswer)
       ELSE PromptAsks(b, ForGet(LocalOptions(b.cred, b.options.challenge)))

(* enrollExistingPasskeyForDraft, enrollExistingPasskeyForJoin.            *)
BeginMember(b) ==
    /\ b.purpose = "member"
    /\ IF ~OfTheDomain(b.options) THEN PromptEnds(b, "failed", NoPromptAnswer)
       ELSE PromptAsks(b, Narrowed(b.options, b.cred))

(* useOnboardingPasskeyAuthentication and the other places one logs in at. *)
BeginLogin(b) ==
    /\ b.purpose = "login"
    /\ IF ~OfTheDomain(b.options) THEN PromptEnds(b, "failed", NoPromptAnswer)
       ELSE PromptAsks(b, Discoverable(b.options))

(* enrollNewPasskeyForDraft and the other places a passkey is created at.  *)
BeginCreate(b) ==
    /\ b.purpose = "create"
    /\ IF ~OfTheDomain(b.options) \/ ~b.options.create THEN PromptEnds(b, "failed", NoPromptAnswer)
       ELSE PromptAsks(b, b.options)

BeginPrompt(b) ==
    /\ passkeyPrompt = NoPrompt /\ Len(promptsDone) < MaxPrompts
    /\ BeginSigning(b) \/ BeginSignIn(b) \/ BeginMember(b) \/ BeginLogin(b) \/ BeginCreate(b)

(* passkey-bridge.tsx: the window prepares the options once more.          *)
PreparedOptions(options) == IF options.create THEN ForCreate(options) ELSE ForGet(options)

(* What the system's sheet offers for the options: the passkeys it finds   *)
(* by the transports that are allowed.                                     *)
Offered(options) ==
    {c \in DOMAIN Passkeys :
        options.allow = << >> \/ \E i \in DOMAIN options.allow :
           /\ options.allow[i].id = c
           /\ \/ options.allow[i].via = "unsaid"
              \/ options.allow[i].via = "internal" /\ ~Passkeys[c].synced}

PromptAnswers(answer) ==
    /\ passkeyPrompt' = [passkeyPrompt EXCEPT !.at = "answered"] @@ [answer |-> answer]
    /\ UNCHANGED promptsDone

(* startAuthentication.                                                    *)
UserSigns ==
    /\ passkeyPrompt.at = "shown" /\ ~passkeyPrompt.options.create
    /\ \E c \in Offered(PreparedOptions(passkeyPrompt.options)),
          rs \in RawSignatures, form \in {"text", "bytes"} :
          PromptAnswers([type |-> "get", challenge |-> passkeyPrompt.options.challenge,
                   id |-> c, rawId |-> c, form |-> form, der |-> Der(rs[1], rs[2]), pair |-> rs, attested |-> NoBytes])

(* startRegistration: refused by a device that holds an excluded passkey.  *)
UserCreates ==
    /\ passkeyPrompt.at = "shown" /\ passkeyPrompt.options.create
    /\ PreparedOptions(passkeyPrompt.options).exclude \cap DOMAIN Passkeys = {}
    /\ \E len \in 1..ByteBase, key \in 0..1, more \in {<< >>, <<1>>} :
          PromptAnswers([type |-> "create", challenge |-> passkeyPrompt.options.challenge,
                   id |-> "new", rawId |-> "new", form |-> "text", der |-> NoBytes, pair |-> <<1, 1>>,
                   attested |-> ToBytes(len, 2) \o [i \in 1..len |-> i] \o <<key>> \o more])

(* Cancelled, timed out, or no passkey to offer.                           *)
PromptFails ==
    /\ passkeyPrompt.at = "shown"
    /\ \/ PromptEnds(passkeyPrompt.begin, "cancelled", NoPromptAnswer)
       \/ /\ IF passkeyPrompt.options.create
             THEN PreparedOptions(passkeyPrompt.options).exclude \cap DOMAIN Passkeys # {}
             ELSE Offered(PreparedOptions(passkeyPrompt.options)) = {}
          /\ PromptEnds(passkeyPrompt.begin, "impossible", NoPromptAnswer)

(* getWebauthnCeremonyTypeFromCredential.                                  *)
CeremonyType(answer) == answer.type

(* assertPasskeyAssertionMatchesAuthDigest.                                *)
MatchesDigest(answer, digest) ==
    answer.challenge = NormalizedDigest(digest) /\ CeremonyType(answer) # "create"

(* assertPasskeyAssertionMatchesV1Challenge.                               *)
MatchesNonce(answer, nonce) == answer.challenge = nonce

(* buildPasskeySigDataXdrFromAssertion: the authenticator's signature,     *)
(* made compact, beside the data it is over.                               *)
SigData(answer) == Compact(answer.der)

(* What is asked of the answer to what was begun.                          *)
Fits(b, answer) ==
    CASE b.purpose = "sign" -> MatchesDigest(answer, b.digest)
      [] b.purpose = "v1" -> MatchesNonce(answer, b.options.challenge)
      [] b.purpose = "create" -> CeremonyType(answer) = "create"
      [] OTHER -> TRUE

(* The answer is checked, made into what the chain or the server takes,    *)
(* and sent.                                                               *)
PromptChecked ==
    LET b == passkeyPrompt.begin
        answer == passkeyPrompt.answer
    IN /\ passkeyPrompt.at = "answered"
       /\ IF ~Fits(b, answer) THEN PromptEnds(b, "failed", NoPromptAnswer)
          ELSE PromptEnds(b, "sent",
                  [id |-> SentId(answer), by |-> answer.rawId, pair |-> answer.pair,
                   signed |-> IF b.purpose = "sign" THEN SigData(answer) ELSE NoBytes,
                   keyData |-> IF b.purpose = "create" THEN KeyData(answer.attested)
                               ELSE NoBytes])

PasskeySigningNext ==
    \/ \E b \in PromptBegins : BeginPrompt(b)
    \/ UserSigns \/ UserCreates \/ PromptFails \/ PromptChecked

-----------------------------------------------------------------------------
PasskeySigningTypeOK ==
    /\ passkeyPrompt.at \in {"none", "shown", "answered"}
    /\ \A i \in DOMAIN promptsDone : promptsDone[i].status \in {"sent", "failed", "cancelled", "impossible"}

(* The signature sent with a build is one its contract takes: of the       *)
(* account's passkey, the authenticator's own first scalar, and a second   *)
(* one that is low and says the same; a member or a session is answered    *)
(* for by the passkey it names; whoever logs in is offered every passkey   *)
(* of the domain; a passkey that is on the device is found, whatever lists *)
(* of transports the server sends but its own "internal", and one more can *)
(* be created; the data of a new key ends with the id of its credential.   *)
PasskeySignsForItsOwn ==
    \A i \in DOMAIN promptsDone :
       LET a == promptsDone[i]
           r == FromBytes(SubSeq(a.signed, 1, ScalarLen))
           s == FromBytes(SubSeq(a.signed, ScalarLen + 1, 2 * ScalarLen))
       IN /\ a.status = "sent" => a.id = a.by
          /\ a.status = "sent" /\ a.begin.purpose \in {"sign", "v1", "member"} =>
                a.by = a.begin.cred
          /\ a.status = "sent" /\ a.begin.purpose = "sign" =>
                /\ Len(a.signed) = 2 * ScalarLen /\ r = a.pair[1]
                /\ s \in {a.pair[2], CurveOrder - a.pair[2]} /\ 2 * s <= CurveOrder
          /\ a.status = "impossible" =>
                /\ a.begin.purpose \in {"sign", "v1", "member"}
                /\ \/ a.begin.cred \notin DOMAIN Passkeys
                   \/ \E k \in DOMAIN a.begin.options.allow :
                         a.begin.options.allow[k].via = "internal"
          /\ a.keyData # NoBytes =>
                \A k \in 2..Len(a.keyData) : a.keyData[k] = k - 1
=============================================================================
