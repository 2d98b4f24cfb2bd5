------------------------------ MODULE Sending ------------------------------
(***************************************************************************)
(* The send flow of the popup and the panel (ui/send/SendRouteViews.tsx,   *)
(* ui/screens/send): token, recipient, amount in units or dollars, Max     *)
(* with its fee probes, the summary with its estimate, Confirm and the     *)
(* answer.  Prices, probes, estimates and answers come late, after the     *)
(* user went elsewhere.                                                    *)
(***************************************************************************)
EXTENDS Naturals, Sequences, FiniteSets

CONSTANTS SendTokens,   \* tokens of the portfolio
          FeeToken,     \* the one network fees are charged in
          Funds,        \* [token -> balance]
          UnitsPerUsd,  \* [token -> market price, as units for a dollar]
          Fees,         \* fees the backend may quote, 0 for none
          Typed,        \* amounts the user types
          Payees,       \* addresses the user may pay
          MaxBook,      \* entries the address book keeps (20)
          MaxLate,      \* estimates on their way when the summary is opened
          MaxBegun      \* bound on token choices, Maxes, setups and Confirms

ASSUME SendAssumption ==
    /\ Funds \in [SendTokens -> Nat] /\ UnitsPerUsd \in [SendTokens -> Nat \ {0}]
    /\ FeeToken \in SendTokens /\ Fees \subseteq Nat /\ Typed \subseteq Nat
    /\ "none" \notin SendTokens
    /\ {MaxBook, MaxLate, MaxBegun} \subseteq Nat

VARIABLES
    send,       \* the state of the flow and of the screen it shows
    sendAsks,   \* messages on their way
    book,       \* the address book, newest first
    begun       \* how often a bounded operation was begun

sendVars == <<send, sendAsks, book, begun>>

NoPick == "none"
NoBody == [token |-> NoPick, amount |-> 0, to |-> NoPick]

(* resetSendFlow.                                                          *)
Reset(s) ==
    [s EXCEPT !.token = NoPick, !.amount = 0, !.usd = FALSE, !.to = NoPick, !.price = 0,
              !.reviewed = NoBody]

-----------------------------------------------------------------------------
(* What the screens make of the draft.                                     *)

(* The units of the draft: dollars at the price known, which may be none.  *)
Units(s) == IF s.usd THEN s.amount * s.price ELSE s.amount

(* The request a draft stands for, unless dollars cannot be converted.     *)
Body(s) ==
    IF s.usd /\ s.price = 0 THEN NoBody ELSE [token |-> s.token, amount |-> Units(s), to |-> s.to]

CanContinue(s) == Units(s) > 0 /\ Units(s) <= Funds[s.token]

ThisPrice(token) == [what |-> "price", token |-> token]
Estimate(body) == [what |-> "estimate", body |-> body, at |-> "build", live |-> TRUE]

(* The user has chosen a token and a recipient.                            *)
SendInit ==
    /\ \E multi \in BOOLEAN, to \in Payees :
          /\ send = [step |-> "enterAmount", token |-> FeeToken, amount |-> 0, usd |-> FALSE, to |-> to,
                     price |-> 0, reviewed |-> NoBody, multi |-> multi, maxing |-> FALSE,
                     estimating |-> FALSE, blocked |-> FALSE, setupFailed |-> FALSE,
                     sending |-> FALSE]
          /\ sendAsks = {ThisPrice(FeeToken)}
    /\ book = << >> /\ begun = 0

PriceAsked(s) == IF s.step = "away" \/ s.token = NoPick THEN {} ELSE {ThisPrice(s.token)}

(* Variant: the price of a token chosen before is still waited for. *)
RepricedTwice(s, asks) == asks \cup PriceAsked(s)

(* The effect on the token: its price is asked for, and the answer for the *)
(* token before will be ignored.                                           *)
Repriced(s, asks) == {a \in asks : a.what # "price"} \cup PriceAsked(s)

(* Answers that no screen awaits any more: the summary's when it is left   *)
(* or its estimate starts again, Max's when its screen is left.            *)
Unheard(asks, whats) ==
    {IF a.what \in whats THEN [a EXCEPT !.live = FALSE] ELSE a : a \in asks}

(* Variant: the summary does not estimate again for a price that comes late. *)
ChangedStep(s) == send.step # "summary"

(* What the estimate of the summary depends on has changed.                *)
Changed(s) == send.step # "summary" \/ s.price # send.price

(* The flow becomes s: effects run when what they depend on has changed,   *)
(* "again" when the draft is a new one.                                    *)
Becomes(s, asks, again) ==
    LET fresh == s.step = "summary" /\ (again \/ Changed(s))
        estimates == fresh /\ ~s.multi /\ Body(s) # NoBody
        left == (IF fresh \/ s.step # "summary" THEN {"estimate"} ELSE {})
                    \cup (IF s.step # "enterAmount" THEN {"max"} ELSE {})
        heard == Unheard(IF s.token = send.token THEN asks ELSE Repriced(s, asks), left)
        t == [s EXCEPT !.maxing = @ /\ s.step = "enterAmount"]
    IN /\ send' = IF fresh THEN [t EXCEPT !.reviewed = NoBody, !.blocked = FALSE,
                                          !.setupFailed = FALSE, !.estimating = estimates]
                  ELSE t
       /\ sendAsks' = heard \cup IF estimates THEN {Estimate(Body(s))} ELSE {}

GoTo(step) == Becomes([send EXCEPT !.step = step], sendAsks, FALSE)

(* Few estimates are late at a time: a bound of the model.                 *)
FewLate == Cardinality({a \in sendAsks : a.what = "estimate"}) <= MaxLate

BeginsOne == begun < MaxBegun /\ begun' = begun + 1

-----------------------------------------------------------------------------
(* The user.                                                               *)

OpenSend ==
    /\ send.step = "away"
    /\ Becomes([Reset(send) EXCEPT !.step = "selectToken"], sendAsks, FALSE)
    /\ UNCHANGED <<book, begun>>

(* Nothing but the token: an amount entered before stays.                  *)
SelectToken(t) ==
    /\ send.step = "selectToken" /\ BeginsOne
    /\ Becomes([send EXCEPT !.token = t, !.step = "selectRecipient"], sendAsks, TRUE)
    /\ UNCHANGED <<book>>

SelectRecipient(to) ==
    /\ send.step = "selectRecipient"
    /\ Becomes([send EXCEPT !.to = to, !.step = "enterAmount"], sendAsks, TRUE)
    /\ UNCHANGED <<book, begun>>

BackOfSend(step) ==
    CASE step = "selectRecipient" -> "selectToken"
      [] step = "enterAmount"     -> "selectRecipient"
      [] OTHER                    -> "enterAmount"

SendBack ==
    /\ \/ send.step \in {"selectRecipient", "enterAmount"}
       \/ send.step = "summary" /\ ~send.sending
    /\ GoTo(BackOfSend(send.step))
    /\ UNCHANGED <<book, begun>>

(* Back from the first screen, or the end of the flow: home, or the        *)
(* proposal that was created.                                              *)
LeaveSend ==
    /\ send.step \in {"selectToken", "success"}
    /\ Becomes([Reset(send) EXCEPT !.step = "away"], sendAsks, FALSE)
    /\ UNCHANGED <<book, begun>>

EntersAmount(amount, usd) ==
    /\ send.step = "enterAmount"
    /\ Becomes([send EXCEPT !.amount = amount, !.usd = usd], sendAsks, TRUE)
    /\ UNCHANGED <<book, begun>>

TypeAmount(n) == EntersAmount(n, send.usd)

(* A quick amount in dollars, in units when the price is known.            *)
PresetUsd(n) == send.price > 0 /\ EntersAmount(n * send.price, FALSE)

(* Dollars are rounded down to cents: what they stand for may shrink.      *)
ToggleMode ==
    \/ ~send.usd /\ send.price > 0 /\ EntersAmount(send.amount \div send.price, TRUE)
    \/ send.usd /\ EntersAmount(Units(send), FALSE)

ContinueToSummary ==
    /\ send.step = "enterAmount" /\ CanContinue(send) /\ FewLate
    /\ GoTo("summary")
    /\ UNCHANGED <<book, begun>>

(* Max: of a multisig the balance, else what is left when the fee of the   *)
(* build at that amount is paid.                                           *)
ClickMax ==
    /\ send.step = "enterAmount" /\ ~send.maxing
    /\ IF send.multi THEN EntersAmount(Funds[send.token], FALSE)
       ELSE /\ BeginsOne
            /\ send' = [send EXCEPT !.maxing = TRUE]
            /\ sendAsks' = sendAsks \cup {[what |-> "max", token |-> send.token, to |-> send.to,
                               at |-> 1, amount |-> 0, fee |-> 0, top |-> 0, live |-> TRUE]}
            /\ UNCHANGED <<book>>

(* Confirm: refused when the review is too old, else submitted with the    *)
(* draft, the price and the fee on screen.  After a failed setup the       *)
(* button starts the estimate again.                                       *)
ClickSend ==
    /\ send.step = "summary" /\ ~send.estimating /\ ~send.sending
    /\ send.blocked => send.setupFailed
    /\ IF send.setupFailed
       THEN Becomes(send, sendAsks, TRUE) /\ UNCHANGED begun
       ELSE \/ send.reviewed # NoBody /\ Becomes(send, sendAsks, TRUE) /\ UNCHANGED begun
            \/ /\ BeginsOne
               /\ send' = [send EXCEPT !.sending = TRUE]
               /\ sendAsks' = sendAsks \cup
                                 {[what |-> "confirm", at |-> "sent", body |-> Body(send)]}
    /\ UNCHANGED <<book>>

ViewReceipt ==
    /\ send.step = "success" /\ ~send.multi
    /\ GoTo("receipt")
    /\ UNCHANGED <<book, begun>>

TryAgainToSend ==
    /\ send.step \in {"failure", "receipt"} /\ FewLate
    /\ GoTo("summary")
    /\ UNCHANGED <<book, begun>>

-----------------------------------------------------------------------------
(* Prices.                                                                 *)

PriceAnswered(a) ==
    /\ a.what = "price"
    /\ \E p \in {0, UnitsPerUsd[a.token]} :
          Becomes([send EXCEPT !.price = p], sendAsks \ {a}, FALSE)
    /\ UNCHANGED <<book, begun>>

-----------------------------------------------------------------------------
(* maxSendAmountAfterFee: the balance less a fee of the same token.        *)
AfterFee(token, fee) ==
    IF token # FeeToken THEN Funds[token]
    ELSE IF fee < Funds[token] THEN Funds[token] - fee ELSE 0

Higher(m, n) == IF m > n THEN m ELSE n

(* Max ends with an amount, or leaves the draft alone; whatever the draft  *)
(* is by now, and whatever screen shows it.                                *)
MaxEnds(a, changes) ==
    LET s == [send EXCEPT !.maxing = @ /\ ~a.live]
    IN Becomes(IF changes THEN [s EXCEPT !.amount = a.amount, !.usd = FALSE] ELSE s,
               sendAsks \ {a}, changes)

(* Max goes on with a probe at the amount left, at most three of them.     *)
ProbesOn(a, next) ==
    /\ send' = send
    /\ sendAsks' = (sendAsks \ {a}) \cup {[next EXCEPT !.at = @ + (IF next.amount = 0 THEN 9 ELSE 1)]}

(* Variant: an amount that prices higher than the probe is not shrunk.     *)
ProbedKeepsAmount(a, fee) ==
    [a EXCEPT !.fee = fee, !.top = Higher(@, fee),
              !.amount = IF a.at = 1 THEN AfterFee(a.token, fee) ELSE @]

(* A higher fee than the one left room for shrinks the amount.             *)
Probed(a, fee) ==
    LET grows == a.at = 1 \/ (fee > a.fee /\ a.token = FeeToken)
    IN [a EXCEPT !.fee = IF grows THEN fee ELSE @, !.top = Higher(@, fee),
                 !.amount = IF grows THEN AfterFee(a.token, fee) ELSE @]

(* A probe was built.  Nothing else to verify when there is no fee, or one *)
(* in another token, or the amount left room for it.                       *)
ProbeBuilt(a) ==
    /\ a.what = "max" /\ a.at \in 1..3
    /\ \E fee \in Fees :
          LET next == Probed(a, fee)
              done == fee = 0 \/ a.token # FeeToken \/ (a.at > 1 /\ fee <= a.fee)
          IN ProbesOn(a, IF done THEN [next EXCEPT !.at = 3] ELSE next)
    /\ UNCHANGED <<book, begun>>

(* The probe was refused for want of the fee: nothing can be sent, or      *)
(* twice the first fee is left.                                            *)
ProbePoor(a) ==
    /\ a.what = "max" /\ a.at \in 1..3
    /\ ProbesOn(a, IF a.at = 1 THEN [a EXCEPT !.amount = 0]
                   ELSE [a EXCEPT !.fee = 2 * @, !.amount = AfterFee(a.token, 2 * a.fee)])
    /\ UNCHANGED <<book, begun>>

(* Max has its amount.                                                     *)
MaxAnswered(a) ==
    /\ a.what = "max" /\ a.at > 3
    /\ MaxEnds(a, TRUE)
    /\ UNCHANGED <<book, begun>>

(* Any other refusal: the first leaves the draft alone, a later one leaves *)
(* the amount as it is.                                                    *)
ProbeFails(a) ==
    /\ a.what = "max" /\ a.at \in 1..3
    /\ MaxEnds(a, a.at > 1)
    /\ UNCHANGED <<book, begun>>

-----------------------------------------------------------------------------
(* The estimate of the summary.                                            *)

Estimated(a, s) ==
    /\ send' = IF a.live THEN [s EXCEPT !.estimating = FALSE] ELSE send
    /\ sendAsks' = sendAsks \ {a}

EstimateBuilt(a) ==
    /\ a.what = "estimate" /\ a.at # "setup"
    /\ Estimated(a, [send EXCEPT !.reviewed = a.body])
    /\ UNCHANGED <<book, begun>>

(* Missing rules: the one-time setup runs, whether or not the summary is   *)
(* still there.                                                            *)
EstimateNeedsSetup(a) ==
    /\ a.what = "estimate" /\ a.at = "build" /\ BeginsOne
    /\ sendAsks' = (sendAsks \ {a}) \cup {[a EXCEPT !.at = "setup"]}
    /\ UNCHANGED <<send, book>>

SetupConfigures(a) ==
    /\ a.what = "estimate" /\ a.at = "setup"
    /\ sendAsks' = (sendAsks \ {a}) \cup {[a EXCEPT !.at = "rebuild"]}
    /\ UNCHANGED <<send, book, begun>>

SetupFails(a) ==
    /\ a.what = "estimate" /\ a.at = "setup"
    /\ Estimated(a, [send EXCEPT !.blocked = TRUE, !.setupFailed = TRUE])
    /\ UNCHANGED <<book, begun>>

(* A refusal for the fee blocks Confirm; any other leaves it, with nothing *)
(* reviewed.                                                               *)
EstimateRefused(a) ==
    /\ a.what = "estimate"
    /\ \E fee \in BOOLEAN :
          /\ fee => a.at # "setup"
          /\ Estimated(a, [send EXCEPT !.blocked = fee])
    /\ UNCHANGED <<book, begun>>

-----------------------------------------------------------------------------
(* Confirm in the worker, and its answer.                                  *)

ConfirmMoves(c, at) == sendAsks' = (sendAsks \ {c}) \cup {[c EXCEPT !.at = at]}

(* Signed and submitted; of a multisig, the proposal is created.           *)
Submits(c) ==
    /\ c.what = "confirm" /\ c.at = "sent" /\ c.body # NoBody
    /\ ConfirmMoves(c, "done")
    /\ UNCHANGED <<send, book, begun>>

(* Not signed, to be reviewed again: the build is gone, too old, priced    *)
(* differently, or the rules are missing.                                  *)
SendsBack(c) ==
    /\ c.what = "confirm" /\ c.at = "sent" /\ ~send.multi /\ c.body # NoBody
    /\ ConfirmMoves(c, "again")
    /\ UNCHANGED <<send, book, begun>>

(* Refused, or the answer is lost.                                         *)
ConfirmRefused(c) ==
    /\ c.what = "confirm" /\ c.at = "sent"
    /\ ConfirmMoves(c, "failed")
    /\ UNCHANGED <<send, book, begun>>

(* Of an opaque failure of an issued asset the cause is looked up.         *)
LooksUpTrustline(c) ==
    /\ c.what = "confirm" /\ c.at = "failed" /\ c.body.token # FeeToken
    /\ ConfirmMoves(c, "explained")
    /\ UNCHANGED <<send, book, begun>>

(* saveToAddressBook: an address is in the book once, moved to its head.   *)
Place(to) ==
    IF \E i \in 1..Len(book) : book[i] = to THEN CHOOSE i \in 1..Len(book) : book[i] = to
    ELSE Len(book) + 1

Saved(to) ==
    LET rest == SubSeq(book, 1, Place(to) - 1) \o SubSeq(book, Place(to) + 1, Len(book))
    IN SubSeq(<<to>> \o rest, 1, IF Len(rest) < MaxBook THEN Len(rest) + 1 ELSE MaxBook)

SendAnswered(c) ==
    /\ c.what = "confirm" /\ c.at # "sent"
    /\ LET s == [send EXCEPT !.sending = FALSE]
       IN IF c.at = "again" THEN Becomes(s, sendAsks \ {c}, TRUE)
          ELSE Becomes([s EXCEPT !.step = IF c.at = "done" THEN "success" ELSE "failure"],
                       sendAsks \ {c}, FALSE)
    /\ book' = IF c.at = "done" /\ ~send.multi THEN Saved(c.body.to) ELSE book
    /\ UNCHANGED <<begun>>

SendMoves(a) ==
    \/ PriceAnswered(a)
    \/ ProbeBuilt(a) \/ ProbePoor(a) \/ ProbeFails(a) \/ MaxAnswered(a)
    \/ EstimateBuilt(a) \/ EstimateNeedsSetup(a) \/ SetupConfigures(a) \/ SetupFails(a)
    \/ EstimateRefused(a)
    \/ Submits(a) \/ SendsBack(a) \/ ConfirmRefused(a)
    \/ LooksUpTrustline(a) \/ SendAnswered(a)

SendNext ==
    \/ \E a \in sendAsks : SendMoves(a)
    \/ OpenSend \/ SendBack \/ LeaveSend
    \/ \E t \in SendTokens : SelectToken(t)
    \/ \E to \in Payees : SelectRecipient(to)
    \/ \E n \in Typed : TypeAmount(n) \/ PresetUsd(n)
    \/ ToggleMode \/ ContinueToSummary \/ ClickMax \/ ClickSend \/ ViewReceipt
    \/ TryAgainToSend

-----------------------------------------------------------------------------
(* The user waits for the flow.                                            *)
SendBusy == send.maxing \/ send.sending \/ (send.step = "summary" /\ send.estimating)

Steps == {"away", "selectToken", "selectRecipient", "enterAmount", "summary", "success",
          "failure", "receipt"}

SendTypeOK ==
    /\ send.step \in Steps /\ send.token \in SendTokens \cup {NoPick}
    /\ send.amount \in Nat /\ send.price \in Nat /\ send.to \in Payees \cup {NoPick}
    /\ \A a \in sendAsks : a.what \in {"price", "max", "estimate", "confirm"}
    /\ \A i, j \in 1..Len(book) : book[i] \in Payees /\ (book[i] = book[j] => i = j)
    /\ Len(book) <= MaxBook

(* While Confirm can be clicked, the build reviewed is of the very token,  *)
(* amount and recipient on the summary, whatever price or Max came since.  *)
ReviewIsOfTheDraft ==
    send.step = "summary" /\ ~send.estimating /\ send.reviewed # NoBody =>
        send.reviewed = Body(send)

(* Max leaves room for the highest fee any of its probes was quoted, or    *)
(* sends nothing.                                                          *)
MaxLeavesTheFee ==
    \A a \in sendAsks : a.what = "max" /\ a.at > 3 /\ a.amount > 0 /\ a.token = FeeToken =>
        a.amount + a.top <= Funds[a.token]

(* Once the price of the token on screen was answered, the price used to   *)
(* convert dollars is of that token, not of one chosen before.             *)
PriceIsOfTheToken ==
    send.price = 0 \/ (\E a \in sendAsks : a.what = "price")
        \/ (send.token # NoPick /\ send.price = UnitsPerUsd[send.token])
=============================================================================
