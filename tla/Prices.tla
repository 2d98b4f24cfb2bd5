------------------------------- MODULE Prices -------------------------------
(***************************************************************************)
(* Market prices (background/marketPrices.ts, api/market.ts): one snapshot *)
(* in memory for all tokens, a copy in storage, and one request to the     *)
(* market per set of tokens.  Answers of overlapping requests are merged   *)
(* into the snapshot, requests fail, the worker stops.  A unit of time is  *)
(* the minute a snapshot stays fresh.                                      *)
(***************************************************************************)
EXTENDS Naturals

CONSTANTS Codes,        \* tokens
          Priced,       \* those the market has a price for
          PriceAsks,    \* numbers the concurrent calls
          StalePrices,  \* minutes an old snapshot may replace an answer (MAX_STALE_MS)
          MaxMinutes, MaxPriceStops

ASSUME PricesAssumption ==
    /\ Priced \subseteq Codes
    /\ StalePrices \in Nat \ {0} /\ {MaxMinutes, MaxPriceStops} \subseteq Nat

VARIABLES
    priceMemory,   \* the snapshot in memory: its tokens and its age
    priceStored,   \* the snapshot in storage
    flights,       \* sets of tokens asked of the market -> what came back
    priceAsk,      \* PriceAsks -> tokens, where the call is, its age, its answer
    minutes, priceStops

priceVars == <<priceMemory, priceStored, flights, priceAsk, minutes, priceStops>>

NoPrices == [kept |-> FALSE, codes |-> {}, age |-> 0]
HasPrices(s) == s.kept

(* A call for no tokens answers at once and is left out.                   *)
TokenSets == SUBSET Codes \ {{}}
Grounded == [at |-> "none"]
Resting == [at |-> "idle"]

PricesInit ==
    /\ priceMemory = NoPrices
    /\ priceStored \in {NoPrices} \cup
                       [kept : {TRUE}, codes : {Priced}, age : {0, StalePrices}]
    /\ flights = [T \in TokenSets |-> Grounded]
    /\ priceAsk = [k \in PriceAsks |-> Resting]
    /\ minutes = 0 /\ priceStops = 0

priceBounds == <<minutes, priceStops>>

-----------------------------------------------------------------------------
(* cacheFreshEnough, for every token asked for.                            *)
Covers(s, T) == HasPrices(s) /\ s.age = 0 /\ T \subseteq s.codes

(* cacheUsableAsStaleFallback, by the time of the call: the snapshot has   *)
(* aged with the call since then.                                          *)
Usable(s, sinceCall) == HasPrices(s) /\ s.age < StalePrices + sinceCall

(* Variant: the answer replaces the snapshot. *)
Replaced(s, add) == add

(* mergePrices: the newer of the two dates goes for all of them.           *)
MergedPrices(s, add) ==
    [kept  |-> TRUE,
     codes |-> s.codes \cup add.codes,
     age   |-> IF HasPrices(s) /\ s.age < add.age THEN s.age ELSE add.age]

(* The answer is the whole snapshot, whatever was asked for.               *)
PriceAnswer(T, s, how) == [at |-> how, asked |-> T, got |-> s.codes]

Aboard(k, T) == [at |-> "waiting", asked |-> T, since |-> 0, own |-> FALSE]

(* getMarketPrices with a snapshot at hand: it answers, or the call joins  *)
(* the request for the same tokens, or makes one.                          *)
Proceeds(k, T, s) ==
    \/ /\ Covers(s, T)
       /\ priceAsk' = [priceAsk EXCEPT ![k] = PriceAnswer(T, s, "answered")]
       /\ UNCHANGED flights
    \/ /\ ~Covers(s, T) /\ flights[T] # Grounded
       /\ priceAsk' = [priceAsk EXCEPT ![k] = Aboard(k, T)]
       /\ UNCHANGED flights
    \/ /\ ~Covers(s, T) /\ flights[T] = Grounded
       /\ priceAsk' = [priceAsk EXCEPT ![k] = [Aboard(k, T) EXCEPT !.own = TRUE]]
       /\ flights' = [flights EXCEPT ![T] = [at |-> "asked"]]

(* The memory is looked at first; without one the storage is read.         *)
AskPrices(k, T) ==
    /\ priceAsk[k].at = "idle"
    /\ \/ /\ HasPrices(priceMemory)
          /\ Proceeds(k, T, priceMemory)
       \/ /\ ~HasPrices(priceMemory)
          /\ priceAsk' = [priceAsk EXCEPT ![k] = [at |-> "reading", asked |-> T]]
          /\ UNCHANGED flights
    /\ UNCHANGED <<priceMemory, priceStored, priceBounds>>

(* readPersistedSnapshot becomes the memory, whatever is there by now.     *)
StoredPricesRead(k) ==
    /\ priceAsk[k].at = "reading"
    /\ LET s == IF HasPrices(priceStored) THEN priceStored ELSE priceMemory
       IN priceMemory' = s /\ Proceeds(k, priceAsk[k].asked, s)
    /\ UNCHANGED <<priceStored, priceBounds>>

ReadsOutstanding == \E k \in PriceAsks : priceAsk[k].at = "reading"

(* The market answers with what it has, which may lack a token; it is      *)
(* merged into the memory, and the write of the result begins.  A snapshot *)
(* that is being read was asked for before any request to the market and   *)
(* is there before an answer of it.                                        *)
MarketAnswers(T) ==
    /\ flights[T].at = "asked"
    /\ ReadsOutstanding => ~HasPrices(priceStored)
    /\ LET s == [kept |-> TRUE, codes |-> T \cap Priced, age |-> 0]
           m == MergedPrices(priceMemory, s)
       IN /\ priceMemory' = m
          /\ flights' = [flights EXCEPT ![T] = [at |-> "writing", snapshot |-> s, write |-> m]]
    /\ UNCHANGED <<priceStored, priceAsk, priceBounds>>

Waiting(T) == {k \in PriceAsks : priceAsk[k].at = "waiting" /\ priceAsk[k].asked = T}

(* The write is done, after the reads begun before it: the caller answers  *)
(* with the memory as it is now, and those who joined merge the answer of  *)
(* the market into it once more.                                           *)
PricesWritten(T) ==
    /\ flights[T].at = "writing" /\ ~ReadsOutstanding
    /\ LET joined == \E k \in Waiting(T) : ~priceAsk[k].own
           m == IF joined THEN MergedPrices(priceMemory, flights[T].snapshot) ELSE priceMemory
       IN /\ priceMemory' = m
          /\ priceAsk' = [k \in PriceAsks |->
              CASE k \notin Waiting(T) -> priceAsk[k]
                [] k \in Waiting(T) /\ priceAsk[k].own -> PriceAnswer(T, priceMemory, "answered")
                [] OTHER -> PriceAnswer(T, m, "answered")]
    /\ priceStored' = flights[T].write
    /\ flights' = [flights EXCEPT ![T] = Grounded]
    /\ UNCHANGED priceBounds

(* The market fails: the caller may still answer with a snapshot that is   *)
(* not too old; those who joined get the error.                            *)
MarketFails(T) ==
    /\ flights[T].at = "asked"
    /\ flights' = [flights EXCEPT ![T] = Grounded]
    /\ priceAsk' = [k \in PriceAsks |->
          CASE k \notin Waiting(T) -> priceAsk[k]
            [] k \in Waiting(T) /\ priceAsk[k].own /\ Usable(priceMemory, priceAsk[k].since)
                 -> PriceAnswer(T, priceMemory, "instead")
            [] OTHER -> PriceAnswer(T, NoPrices, "failed")]
    /\ UNCHANGED <<priceMemory, priceStored, priceBounds>>

TakePrices(k) ==
    /\ priceAsk[k].at \in {"answered", "instead", "failed"}
    /\ priceAsk' = [priceAsk EXCEPT ![k] = Resting]
    /\ UNCHANGED <<priceMemory, priceStored, flights, priceBounds>>

-----------------------------------------------------------------------------
Aged(s) == IF HasPrices(s) THEN [s EXCEPT !.age = @ + 1] ELSE s

(* A minute passes; reads and writes of the storage end within it.         *)
MinutePasses ==
    /\ minutes < MaxMinutes /\ ~ReadsOutstanding
    /\ \A T \in TokenSets : flights[T].at # "writing"
    /\ minutes' = minutes + 1
    /\ priceMemory' = Aged(priceMemory) /\ priceStored' = Aged(priceStored)
    /\ priceAsk' = [k \in PriceAsks |->
          IF priceAsk[k].at = "waiting" THEN [priceAsk[k] EXCEPT !.since = @ + 1]
          ELSE priceAsk[k]]
    /\ UNCHANGED <<flights, priceStops>>

(* The worker stops: memory, requests and calls are gone.  With nothing in *)
(* it the stop would change nothing.                                       *)
PricesStop ==
    /\ priceStops < MaxPriceStops
    /\ HasPrices(priceMemory) \/ \E k \in PriceAsks : priceAsk[k].at # "idle"
    /\ priceStops' = priceStops + 1
    /\ priceMemory' = NoPrices
    /\ flights' = [T \in TokenSets |-> Grounded]
    /\ priceAsk' = [k \in PriceAsks |-> Resting]
    /\ UNCHANGED <<priceStored, minutes>>

PricesNext ==
    \/ \E k \in PriceAsks, T \in TokenSets : AskPrices(k, T)
    \/ \E k \in PriceAsks : StoredPricesRead(k) \/ TakePrices(k)
    \/ \E T \in TokenSets : MarketAnswers(T) \/ PricesWritten(T) \/ MarketFails(T)
    \/ MinutePasses \/ PricesStop

-----------------------------------------------------------------------------
PricesTypeOK ==
    /\ \A s \in {priceMemory, priceStored} :
         s = NoPrices \/ (s.codes \subseteq Priced /\ s.age \in Nat)
    /\ \A T \in TokenSets : flights[T].at \in {"none", "asked", "writing"}
    /\ \A k \in PriceAsks :
         priceAsk[k].at \in {"idle", "reading", "waiting", "answered", "instead", "failed"}
    /\ minutes \in 0..MaxMinutes /\ priceStops \in 0..MaxPriceStops

(* A call the market answered has every price that was asked for, however  *)
(* requests for other tokens change the snapshot while it is written: the  *)
(* caller reads the shared memory after the write.                         *)
AnswerHasThePrices ==
    \A k \in PriceAsks : priceAsk[k].at = "answered" =>
        priceAsk[k].asked \cap Priced \subseteq priceAsk[k].got
=============================================================================
