----------------------------- MODULE Enrolment -----------------------------
(***************************************************************************)
(* Adding an account: the flow of the settings screen                      *)
(* (settings/add-account/AddAccountFlow.tsx), the set-up tab               *)
(* (ui/onboarding) and the login of the account views                      *)
(* (ui/accounts/AccountRouteViews.tsx).  Each asks the API for the options *)
(* of a passkey ceremony when its screen is entered, so that the click     *)
(* that follows finds them ready (ui/webauthn/passkey.ts, passkeyName.ts); *)
(* the screen may be left and entered again while an answer, a ceremony or *)
(* the call that finishes it is on its way.                                *)
(***************************************************************************)
EXTENDS Naturals

CONSTANTS MaxVisits,   \* bound on the times ceremony options are asked for
          MaxCreates   \* bound on clicks that hand over what was collected

ASSUME EnrolmentAssumption == MaxVisits \in Nat /\ MaxCreates \in Nat

VARIABLES
    flow,      \* "add" (settings), "setup" (the tab), "login" (the account views)
    step,      \* its screen
    method,    \* the method chosen in the add flow
    visit,     \* counts the entries into ceremony screens, retries included
    prefetches, \* what screens asked for: visit, kind of ceremony, how far
    options,   \* passkeyPrefetchRef: the options at hand, by the visit that asked
    busy,      \* a ceremony was begun on this screen
    rites,     \* ceremonies and calls that run: options, screen, how far
    collected, \* what the add flow hands over at its last screen
    creating,  \* that call runs
    words,     \* a valid recovery phrase is in the fields
    creates,   \* clicks that handed something over
    handed     \* visits -> times the authenticator was given their options

enrolVars == <<flow, step, method, visit, prefetches, options, busy, rites, collected, creating, words,
               creates, handed>>

Visits == 1 .. MaxVisits
None == 0                       \* no options, nothing collected
Phrase == MaxVisits + 1         \* a recovery phrase
Sources == Visits \cup {Phrase}
FirstStep == [add |-> "chooseMethod", setup |-> "welcome", login |-> "addAccount"]

(* The screens that ask for options when they are entered, and for which   *)
(* ceremony.                                                               *)
KindOf(s) ==
    CASE s \in {"passkey", "useExistingPasskey", "addAccountPasskey"} -> "authentication"
      [] s = "createPasskey" -> "registration"
      [] OTHER -> "none"

EnrolInit ==
    /\ flow \in DOMAIN FirstStep
    /\ step = FirstStep[flow] /\ method = "none"
    /\ visit = 0 /\ prefetches = {} /\ options = None
    /\ busy = FALSE /\ rites = {}
    /\ collected = None /\ creating = FALSE /\ words = FALSE /\ creates = 0
    /\ handed = [v \in Visits |-> 0]

-----------------------------------------------------------------------------
(* The prefetch.                                                           *)

(* The effect of a screen: what an earlier one asked for is cancelled, the *)
(* options are dropped, and a ceremony screen asks for its own.  A failed  *)
(* ceremony bumps the nonce, which runs the effect of the screen again.    *)
(* The number of a new passkey is looked up before its options.            *)
Enters(s) ==
    /\ step' = s
    /\ options' = None
    /\ busy' = FALSE
    /\ IF KindOf(s) = "none" THEN UNCHANGED <<visit, prefetches>>
       ELSE /\ visit < MaxVisits
            /\ visit' = visit + 1
            /\ prefetches' = prefetches \cup
                 {[visit |-> visit + 1, kind |-> KindOf(s),
                   at |-> IF KindOf(s) = "registration" THEN "name" ELSE "begin"]}

(* Variant: the flag of the effect's cleanup is not looked at. *)
WantedByAnyone(a) == KindOf(step) # "none"

(* The effect that asked has not been cleaned up.                          *)
Wanted(a) == a.visit = visit /\ KindOf(step) # "none"

(* reservePasskeyName: the number is peeked, never blocks, and is retired  *)
(* only by the commit after the passkey exists.                            *)
NameReserved(a) ==
    /\ a.at = "name"
    /\ prefetches' = (prefetches \ {a}) \cup IF Wanted(a) THEN {[a EXCEPT !.at = "begin"]} ELSE {}
    /\ UNCHANGED <<flow, method, step, visit, options, busy, rites, collected, creating, words, creates,
                   handed>>

(* Options the API may send: for which domain, for which ceremony.         *)
BeginOptions == [rp : {"latch", "other", "none"}, kind : {"registration", "authentication"}]

(* The domain must be the wallet's, or the extension could not claim it.   *)
RightDomain(o) == o.rp = "latch"

(* Options without the parameters of a key to create are refused for a     *)
(* registration; its list of excluded credentials is dropped.              *)
RegistrationReady(o) == o.kind = "registration"

Usable(a, o) == RightDomain(o) /\ (a.kind = "registration" => RegistrationReady(o))

(* The answer of the API: kept by the screen that asked when it is usable; *)
(* anything else is an error shown without options.                        *)
BeginAnswered(a, o) ==
    /\ a.at = "begin"
    /\ prefetches' = prefetches \ {a}
    /\ options' = IF ~Wanted(a) THEN options ELSE IF Usable(a, o) THEN a.visit ELSE None
    /\ UNCHANGED <<flow, method, step, visit, busy, rites, collected, creating, words, creates,
                   handed>>

(* The request failed or timed out; a lookup of the name never does.       *)
BeginFailed(a) ==
    /\ a.at = "begin"
    /\ prefetches' = prefetches \ {a}
    /\ options' = IF Wanted(a) THEN None ELSE options
    /\ UNCHANGED <<flow, method, step, visit, busy, rites, collected, creating, words, creates,
                   handed>>

-----------------------------------------------------------------------------
(* The ceremony.                                                           *)

(* The button of a ceremony screen: enabled with options and not busy.     *)
Authenticate ==
    /\ KindOf(step) # "none" /\ options # None /\ ~busy
    /\ busy' = TRUE
    /\ rites' = rites \cup {[of |-> step, with |-> options, at |-> "window"]}
    /\ handed' = [handed EXCEPT ![options] = @ + 1]
    /\ UNCHANGED <<flow, method, step, visit, prefetches, options, collected, creating, words, creates>>

(* What the authenticator may answer a registration: only an attestation   *)
(* of a new key goes to the API.                                           *)
RightCeremony(r, made) == KindOf(r.of) = "registration" => made = "attestation"

Advance(r, at) == rites' = (rites \ {r}) \cup {[r EXCEPT !.at = at]}

(* The authenticator answered.  The add flow keeps an assertion for its    *)
(* last screen and goes there, wherever the user is by now; the others     *)
(* send it to be finished.                                                 *)
CeremonyDone(r, made) ==
    /\ r.at = "window" /\ RightCeremony(r, made)
    /\ IF flow = "add" /\ KindOf(r.of) = "authentication"
       THEN /\ rites' = rites \ {r}
            /\ collected' = r.with
            /\ Enters("createAccount")
       ELSE /\ Advance(r, "finish")
            /\ UNCHANGED <<step, visit, prefetches, options, busy, collected>>
    /\ UNCHANGED <<flow, method, creating, words, creates, handed>>

(* The worker finished the ceremony with the API and stored the account.   *)
Finished(r) ==
    /\ r.at = "finish"
    /\ Advance(r, "after")
    /\ collected' = IF r.of = "createPasskey" THEN None ELSE collected
    /\ UNCHANGED <<flow, method, step, visit, prefetches, options, busy, creating, words, creates,
                   handed>>

Success(s) ==
    CASE flow = "add" -> "success"
      [] flow = "login" -> "home"
      [] s = "createPasskey" -> "passkeySuccess"
      [] OTHER -> "passkeyAuthSuccess"

(* The number was retired, the account named, made active or marked as set *)
(* up: the flow goes to its end, wherever the user is by now.              *)
Settled(r) ==
    /\ r.at = "after" /\ r.of \notin {"createAccount", "confirmPassword"}
    /\ rites' = rites \ {r}
    /\ Enters(Success(r.of))
    /\ UNCHANGED <<flow, method, collected, creating, words, creates, handed>>

(* The set-up tab has a hook for each of its two ceremonies; the others    *)
(* share one nonce and one busy flag.                                      *)
SameHook(r) == flow # "setup" \/ r.of = step

(* Variant: the nonce is left alone. *)
KeepOptions(r) ==
    /\ rites' = rites \ {r}
    /\ busy' = FALSE
    /\ UNCHANGED <<step, visit, prefetches, options>>

(* A failure asks for new options where the hook is on screen.             *)
Refetch(r) ==
    /\ rites' = rites \ {r}
    /\ IF KindOf(step) # "none" /\ SameHook(r) THEN Enters(step)
       ELSE UNCHANGED <<step, visit, prefetches, options, busy>>

(* The user dismissed the ceremony, the window timed out, the API refused  *)
(* the answer, or a call after it failed: the account may exist by then.   *)
RiteFails(r) ==
    /\ r.of \notin {"createAccount", "confirmPassword", "importRecoveryPhrase"}
    /\ Refetch(r)
    /\ UNCHANGED <<flow, method, collected, creating, words, creates, handed>>

-----------------------------------------------------------------------------
(* The add flow: a method, its credential, a name.                         *)

Goes(s) ==
    /\ Enters(s)
    /\ UNCHANGED <<flow, rites, creating, creates, handed>>

FirstOf == [passkey |-> "passkey", recoveryPhrase |-> "recoveryPhrase",
            createPasskey |-> "createAccount"]

(* Continue from the choice of the method; a new passkey is named first.   *)
ChooseMethod(m) ==
    /\ flow = "add" /\ step = "chooseMethod"
    /\ method' = m
    /\ Goes(FirstOf[m]) /\ UNCHANGED <<collected, words>>

(* Back from the name: not while the account is created.                   *)
BackFromName ==
    /\ flow = "add" /\ step = "createAccount" /\ ~creating
    /\ Goes(CASE method = "recoveryPhrase" -> "recoveryPhrase"
              [] method = "createPasskey"  -> "chooseMethod"
              [] OTHER                     -> "passkey")
    /\ UNCHANGED <<method, collected, words>>

(* Back from a credential: the method is forgotten.  A ceremony that runs  *)
(* does not keep the user.                                                 *)
BackToMethods ==
    /\ flow = "add" /\ step \in {"passkey", "recoveryPhrase"}
    /\ method' = "none"
    /\ Goes("chooseMethod") /\ UNCHANGED <<collected, words>>

(* Back from the ceremony of a new passkey: not while it runs.             *)
BackFromNewPasskey ==
    /\ flow = "add" /\ step = "createPasskey" /\ ~busy
    /\ Goes("createAccount") /\ UNCHANGED <<method, collected, words>>

(* The name of a new passkey is known: on to its ceremony.                 *)
NameNewPasskey ==
    /\ flow = "add" /\ step = "createAccount" /\ method = "createPasskey" /\ ~creating
    /\ Goes("createPasskey") /\ UNCHANGED <<method, collected, words>>

(* A phrase replaces an assertion that was collected.                      *)
CollectPhrase ==
    /\ flow = "add" /\ step = "recoveryPhrase"
    /\ words' = TRUE /\ collected' = Phrase
    /\ Goes("createAccount") /\ UNCHANGED method

(* finishCreateAccount: the same assertion may be sent again after an      *)
(* error; a late end of a new passkey may have emptied what was collected, *)
(* and the click then only shows an error.                                 *)
Create ==
    /\ flow = "add" /\ step = "createAccount" /\ method # "createPasskey" /\ ~creating
    /\ collected # None
    /\ creates < MaxCreates
    /\ creates' = creates + 1
    /\ creating' = TRUE
    /\ rites' = rites \cup {[of |-> "createAccount", with |-> collected, at |-> "finish"]}
    /\ UNCHANGED <<flow, method, step, visit, prefetches, options, busy, collected, words, handed>>

(* Named, made active, and shown: the last step of finishCreateAccount.    *)
Created(r) ==
    /\ r.at = "after" /\ r.of = "createAccount"
    /\ rites' = rites \ {r}
    /\ creating' = FALSE
    /\ Enters("success")
    /\ UNCHANGED <<flow, method, collected, words, creates, handed>>

(* The call, or the naming after it, failed: the screen stays.             *)
CreateFails(r) ==
    /\ r.of = "createAccount"
    /\ rites' = rites \ {r}
    /\ creating' = FALSE
    /\ UNCHANGED <<flow, method, step, visit, prefetches, options, busy, collected, words, creates, handed>>

-----------------------------------------------------------------------------
(* The set-up tab and the account views.                                   *)

(* The cards that only lead on.  The cross of the card that creates a      *)
(* passkey works while the ceremony runs; the card of an existing one has  *)
(* no cross.                                                               *)
SetupDoors ==
    {<<"welcome", "createAccount">>, <<"createAccount", "createPasskey">>,
     <<"createPasskey", "createAccount">>, <<"welcome", "haveWallet">>,
     <<"haveWallet", "importRecoveryPhrase">>, <<"haveWallet", "useExistingPasskey">>,
     <<"useExistingPasskey", "haveWallet">>, <<"importRecoveryPhrase", "haveWallet">>,
     <<"setPassword", "importRecoveryPhrase">>, <<"setPassword", "confirmPassword">>,
     <<"confirmPassword", "setPassword">>}

LoginDoors == {<<"addAccount", "addAccountPasskey">>, <<"addAccountPasskey", "addAccount">>}

(* The phrase is being verified: an overlay covers the card.               *)
Verifying == \E r \in rites : r.at = "verify"

Walk(s) ==
    /\ \/ flow = "setup" /\ <<step, s>> \in SetupDoors
       \/ flow = "login" /\ <<step, s>> \in LoginDoors
    /\ step = "useExistingPasskey" => ~busy
    /\ step = "importRecoveryPhrase" => ~Verifying
    /\ Goes(s) /\ UNCHANGED <<method, collected, words>>

(* goWelcome and the try after a failure: the fields are emptied.          *)
StartOver(s) ==
    /\ flow = "setup"
    /\ \/ /\ step \in {"createAccount", "haveWallet", "importRecoveryPhrase", "setPassword",
                       "confirmPassword", "importFailed"}
          /\ s = "welcome"
       \/ step = "importFailed" /\ s = "importRecoveryPhrase"
    /\ step = "importRecoveryPhrase" => ~Verifying
    /\ words' = FALSE
    /\ Goes(s) /\ UNCHANGED <<method, collected>>

(* The import of the phrase is asked for: a pause first, then its words    *)
(* are found valid or not.                                                 *)
VerifyPhrase ==
    /\ flow = "setup" /\ step = "importRecoveryPhrase" /\ ~Verifying
    /\ words' = TRUE
    /\ rites' = rites \cup {[of |-> "importRecoveryPhrase", with |-> Phrase, at |-> "verify"]}
    /\ UNCHANGED <<flow, method, step, visit, prefetches, options, busy, collected, creating, creates,
                   handed>>

PhraseVerified(r) ==
    /\ r.at = "verify"
    /\ rites' = rites \ {r}
    /\ Enters("setPassword")
    /\ UNCHANGED <<flow, method, collected, creating, words, creates, handed>>

(* The second password: the same as the first, and a phrase still in the   *)
(* fields, or the import has failed already.                               *)
ImportPhrase(same) ==
    /\ flow = "setup" /\ step = "confirmPassword"
    /\ \A r \in rites : r.of # "confirmPassword"
    /\ IF same /\ words
       THEN /\ creates < MaxCreates
            /\ creates' = creates + 1
            /\ rites' = rites \cup {[of |-> "confirmPassword", with |-> Phrase, at |-> "finish"]}
            /\ UNCHANGED <<step, visit, prefetches, options, busy>>
       ELSE Enters("importFailed") /\ UNCHANGED <<rites, creates>>
    /\ UNCHANGED <<flow, method, collected, creating, words, handed>>

(* The end of the import, on whichever card the user is by now.            *)
ImportEnds(r) ==
    /\ r.of = "confirmPassword"
    /\ rites' = rites \ {r}
    /\ Enters(IF r.at = "after" THEN "importSuccess" ELSE "importFailed")
    /\ UNCHANGED <<flow, method, collected, creating, words, creates, handed>>

-----------------------------------------------------------------------------
EnrolAnswers(v) ==
    \/ \E a \in prefetches : a.visit = v /\ NameReserved(a)
    \/ \E a \in prefetches : a.visit = v /\ (BeginFailed(a) \/ \E o \in BeginOptions : BeginAnswered(a, o))

RiteEnds(r) ==
    \/ RiteFails(r) \/ CreateFails(r) \/ ImportEnds(r) \/ Created(r) \/ Settled(r)
    \/ PhraseVerified(r)

EnrolNext ==
    \/ \E v \in Visits : EnrolAnswers(v)
    \/ Authenticate
    \/ \E r \in rites, made \in {"attestation", "assertion"} : CeremonyDone(r, made)
    \/ \E r \in rites : Finished(r) \/ RiteEnds(r)
    \/ \E m \in DOMAIN FirstOf : ChooseMethod(m)
    \/ BackFromName \/ BackToMethods \/ BackFromNewPasskey \/ NameNewPasskey \/ CollectPhrase \/ Create
    \/ \E d \in SetupDoors \cup LoginDoors : Walk(d[2])
    \/ \E s \in {"welcome", "importRecoveryPhrase"} : StartOver(s)
    \/ VerifyPhrase
    \/ \E same \in BOOLEAN : ImportPhrase(same)

-----------------------------------------------------------------------------
EnrolTypeOK ==
    /\ flow \in DOMAIN FirstStep
    /\ visit \in 0 .. MaxVisits
    /\ prefetches \subseteq [visit : Visits, kind : {"registration", "authentication"},
                         at : {"name", "begin"}]
    /\ options \in Visits \cup {None}
    /\ collected \in Sources \cup {None}
    /\ {busy, creating, words} \subseteq BOOLEAN
    /\ \A r \in rites : r.with \in Sources /\ r.at \in {"window", "finish", "after", "verify"}
    /\ handed \in [Visits -> Nat]
    /\ method \in DOMAIN FirstOf \cup {"none"}

(* The authenticator is given the options of a begin once, whatever screen *)
(* was left, entered or failed meanwhile: the API drops a challenge it has *)
(* seen answered or replaced, so options of an earlier visit can only fail *)
(* after the user has created a credential nobody knows of.                *)
ChallengeUsedOnce ==
    /\ options # None => options = visit
    /\ \A v \in Visits : handed[v] <= 1
=============================================================================
