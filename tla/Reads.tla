------------------------------- MODULE Reads -------------------------------
(***************************************************************************)
(* Reads of the wallet screen: the hook that asks for the balances of the  *)
(* account on screen (ui/hooks/usePortfolioAndHistory.ts with              *)
(* ui/lib/requestSession.ts and backgroundClient.ts), the registry that    *)
(* lets a view detach from its request (background/requestRegistry.ts,     *)
(* requestWaiter.ts) and the balances behind it                            *)
(* (background/smartAccountBalances.ts): a cache in memory, a snapshot in  *)
(* storage, one shared read per account.  Accounts change, requests are    *)
(* replaced, cancelled and timed out while their answers are on the way.   *)
(***************************************************************************)
EXTENDS Naturals, FiniteSets

CONSTANTS Accounts,   \* accounts the wallet can show
          MaxReads,   \* bound on the requests of the screen
          MaxStops    \* bound on stops of the service worker

ASSUME ReadsAssumption == Accounts # {} /\ MaxReads \in Nat /\ MaxStops \in Nat

VARIABLES
    active,    \* the account on screen
    pane,      \* what the screen shows: rows of whom, current request, loading, error
    requests,  \* request ids -> account and where it is
    cancels,   \* ids whose CANCEL_REQUEST is on its way
    registry,  \* the ids registered, aborted, and cancelled before they registered
    memory,    \* Accounts -> age of the cached balances, "none" without
    snapshot,  \* Accounts -> age of the stored balances
    reading,   \* Accounts -> the shared reads that run, by the request that began them
    readsMade,
    readStops

readsVars == <<active, pane, requests, cancels, registry, memory, snapshot, reading, readsMade,
               readStops>>

Nobody == "nobody"
NoRequest == 0
Ages == {"none", "fresh", "stale", "old"}
Ids == 1 .. MaxReads
Background == MaxReads + 1         \* begins a read for no request: revalidation
NoRead == [acct |-> Nobody, at |-> "unused"]
ReadOver == [acct |-> Nobody, at |-> "over"]

ReadsInit ==
    /\ active = CHOOSE a \in Accounts : TRUE
    /\ pane = [rows |-> Nobody, id |-> NoRequest, loading |-> FALSE, error |-> FALSE]
    /\ requests = [i \in Ids |-> NoRead]
    /\ cancels = {}
    /\ registry = [live |-> {}, aborted |-> {}, early |-> {}]
    /\ memory = [a \in Accounts |-> "none"]
    /\ snapshot = [a \in Accounts |-> IF a = active THEN "fresh" ELSE "none"]
    /\ reading = [a \in Accounts |-> {}]
    /\ readsMade = 0 /\ readStops = 0

paneVars == <<active, pane>>
cacheVars == <<memory, snapshot, reading>>

-----------------------------------------------------------------------------
(* The screen.                                                             *)

(* Variant: sent whether or not a request is current. *)
CancelCurrentAnyway == cancels' = cancels \cup {pane.id}

(* The current request is dropped and told so.                             *)
CancelCurrent == cancels' = IF pane.id = NoRequest THEN cancels ELSE cancels \cup {pane.id}

(* Another account is on screen: the rows of the old one go first.  The    *)
(* load that follows is the hook's next effect, on the home route.         *)
ShowAccount(a) ==
    /\ a # active
    /\ active' = a
    /\ pane' = [pane EXCEPT !.rows = Nobody, !.id = NoRequest, !.error = FALSE]
    /\ CancelCurrent
    /\ UNCHANGED <<requests, registry, cacheVars, readsMade, readStops>>

(* loadPortfolio: on the home route, on an error's backoff, or by hand.    *)
LoadPortfolio ==
    /\ readsMade < MaxReads
    /\ readsMade' = readsMade + 1
    /\ CancelCurrent
    /\ requests' = [requests EXCEPT ![readsMade + 1] = [acct |-> active, at |-> "sent"]]
    /\ pane' = [pane EXCEPT !.id = readsMade + 1, !.loading = TRUE, !.error = FALSE]
    /\ UNCHANGED <<active, registry, cacheVars, readStops>>

(* Variant: the request id is not compared. *)
AppliesAnyResult(i) == requests[i].at # "cancelled"

(* shouldApplyBackgroundResult: the answer of the current request, unless  *)
(* that request was cancelled.                                             *)
AppliesResult(i) == pane.id = i /\ requests[i].at # "cancelled"

TakeResult(i) ==
    /\ requests[i].at \in {"data", "error", "cancelled"}
    /\ requests' = [requests EXCEPT ![i] = ReadOver]
    /\ pane' = [rows |-> IF ~AppliesResult(i) THEN pane.rows
                         ELSE IF requests[i].at = "data" THEN requests[i].acct ELSE Nobody,
                id |-> pane.id,
                loading |-> pane.loading /\ pane.id # i,
                error |-> pane.error \/ (AppliesResult(i) /\ requests[i].at = "error")]
    /\ UNCHANGED <<active, cancels, registry, cacheVars, readsMade, readStops>>

(* Variant: the time runs in the worker, from the registration on. *)
TimedByTheWorker == {"warming", "joined", "won", "failed"}

(* sendToBackground's own timer runs from the call on, whatever the worker *)
(* does with the message.                                                  *)
Timed == {"sent", "warming", "joined", "won", "failed", "lost"}

(* sendToBackground gives up, or the worker went away with the request.    *)
ReadTimesOut(i) ==
    /\ requests[i].at \in Timed
    /\ requests' = [requests EXCEPT ![i] =
          IF i \notin registry.live THEN ReadOver ELSE [@ EXCEPT !.at = "late"]]
    /\ pane' = IF pane.id # i THEN pane
               ELSE [pane EXCEPT !.rows = Nobody, !.loading = FALSE, !.error = TRUE]
    /\ UNCHANGED <<active, cancels, registry, cacheVars, readsMade, readStops>>

-----------------------------------------------------------------------------
(* The worker: withCancellableWaiter around runGetSmartAccountBalances.    *)

Unregister(i) == registry' = [registry EXCEPT !.live = @ \ {i}, !.early = @ \ {i}]

(* The balances at hand answer at once; stale ones start a read too.       *)
Answers(i, age) == age \in {"fresh", "stale"}

(* A read is begun unless one of the account runs.                         *)
Begin(a, who) == IF reading[a] = {} THEN [reading EXCEPT ![a] = {who}] ELSE reading

(* registerRequest, then the cache: a fresh or stale entry answers, an old *)
(* one joins a read; without one the stored snapshot is read first.        *)
Register(i) ==
    /\ requests[i].at = "sent"
    /\ registry' = [live |-> registry.live \cup {i}, early |-> registry.early \ {i},
                    aborted |-> registry.aborted \cup ({i} \cap registry.early)]
    /\ LET a == requests[i].acct IN
        /\ requests' = [requests EXCEPT ![i].at =
              CASE memory[a] = "none" -> "warming"
                [] memory[a] = "old"  -> "joined"
                [] OTHER              -> "won"]
        /\ reading' = CASE memory[a] = "stale" -> Begin(a, Background)
                        [] memory[a] = "old"   -> Begin(a, i)
                        [] OTHER               -> reading
    /\ UNCHANGED <<paneVars, cancels, memory, snapshot, readsMade, readStops>>

(* The snapshot in storage was read: it is kept in memory, and used unless *)
(* it is too old.                                                          *)
Warmed(i) ==
    /\ requests[i].at = "warming"
    /\ LET a == requests[i].acct IN
        /\ memory' = IF snapshot[a] = "none" THEN memory
                     ELSE [memory EXCEPT ![a] = snapshot[a]]
        /\ requests' = [requests EXCEPT ![i].at = IF Answers(i, snapshot[a]) THEN "won"
                                                  ELSE "joined"]
        /\ reading' = CASE snapshot[a] = "fresh" -> reading
                        [] snapshot[a] = "stale" -> Begin(a, Background)
                        [] OTHER                 -> Begin(a, i)
    /\ UNCHANGED <<paneVars, cancels, registry, snapshot, readsMade, readStops>>

Joined(a) == {i \in Ids : requests[i].at = "joined" /\ requests[i].acct = a}

(* The shared read ends well: memory and storage are renewed, and everyone *)
(* who waits for it is answered.                                           *)
ReadSucceeds(a) ==
    /\ reading[a] # {}
    /\ memory' = [memory EXCEPT ![a] = "fresh"]
    /\ snapshot' = [snapshot EXCEPT ![a] = "fresh"]
    /\ reading' = [reading EXCEPT ![a] = {}]
    /\ requests' = [i \in Ids |-> IF i \in Joined(a) THEN [requests[i] EXCEPT !.at = "won"]
                                  ELSE requests[i]]
    /\ UNCHANGED <<paneVars, cancels, registry, readsMade, readStops>>

(* It fails after its retries: the request that began it may still fall    *)
(* back on a cache that has become usable, the others get the error.       *)
ReadFails(a) ==
    /\ reading[a] # {}
    /\ reading' = [reading EXCEPT ![a] = {}]
    /\ requests' = [i \in Ids |-> IF i \notin Joined(a) THEN requests[i]
          ELSE [requests[i] EXCEPT !.at = IF i \in reading[a] /\ Answers(i, memory[a])
                                          THEN "won" ELSE "failed"]]
    /\ UNCHANGED <<paneVars, cancels, registry, memory, snapshot, readsMade, readStops>>

(* The race is decided; an abort meanwhile still turns it into cancelled.  *)
Outcome(i, result) == IF i \in registry.aborted THEN "cancelled" ELSE result

WaiterEnds(i) ==
    /\ requests[i].at \in {"won", "failed"} /\ i \in registry.live
    /\ requests' = [requests EXCEPT ![i].at =
          Outcome(i, IF @ = "won" THEN "data" ELSE "error")]
    /\ Unregister(i)
    /\ UNCHANGED <<paneVars, cancels, cacheVars, readsMade, readStops>>

(* CANCEL_REQUEST: abort the registered request, or remember the id.       *)
CancelArrives(i) ==
    /\ i \in cancels
    /\ cancels' = cancels \ {i}
    /\ registry' = IF i \in registry.live
                   THEN [registry EXCEPT !.aborted = @ \cup {i}]
                   ELSE [registry EXCEPT !.early = @ \cup {i}]
    /\ UNCHANGED <<paneVars, requests, cacheVars, readsMade, readStops>>

(* The abort wins the race: the waiter leaves, the shared read goes on.    *)
AbortWins(i) ==
    /\ requests[i].at \in {"warming", "joined", "late"} /\ i \in registry.aborted
    /\ requests' = [requests EXCEPT ![i] = IF @.at = "late" THEN ReadOver
                                          ELSE [@ EXCEPT !.at = "cancelled"]]
    /\ Unregister(i)
    /\ UNCHANGED <<paneVars, cancels, cacheVars, readsMade, readStops>>

(* Nobody listens any more; the waiter still ends in the worker.           *)
LateWaiterEnds(i) ==
    /\ requests[i].at = "late" /\ reading[requests[i].acct] = {}
    /\ requests' = [requests EXCEPT ![i] = ReadOver]
    /\ Unregister(i)
    /\ UNCHANGED <<paneVars, cancels, cacheVars, readsMade, readStops>>

(* FRESH_TTL_MS and MAX_STALE_MS pass.                                     *)
Older(age) == CASE age = "fresh" -> "stale" [] age = "stale" -> "old" [] OTHER -> age

CacheAges(a) ==
    /\ memory[a] \in {"fresh", "stale"} \/ snapshot[a] \in {"fresh", "stale"}
    /\ memory' = [memory EXCEPT ![a] = Older(@)]
    /\ snapshot' = [snapshot EXCEPT ![a] = Older(@)]
    /\ UNCHANGED <<paneVars, requests, cancels, registry, reading, readsMade, readStops>>

(* The service worker stops: caches, reads, registry and waiters are gone. *)
(* Without a request in it, the next one finds a start as the first did.   *)
ReadsStop ==
    /\ readStops < MaxStops /\ registry.live # {}
    /\ readStops' = readStops + 1
    /\ memory' = [a \in Accounts |-> "none"]
    /\ reading' = [a \in Accounts |-> {}]
    /\ registry' = [registry EXCEPT !.live = {}, !.early = {}]
    /\ requests' = [i \in Ids |-> IF i \notin registry.live THEN requests[i]
                     ELSE IF requests[i].at = "late" THEN ReadOver
                     ELSE [requests[i] EXCEPT !.at = "lost"]]
    /\ UNCHANGED <<paneVars, cancels, snapshot, readsMade>>

RequestStep(i) ==
    \/ Register(i) \/ Warmed(i) \/ WaiterEnds(i) \/ AbortWins(i) \/ TakeResult(i)

ReadEnds(i) == TakeResult(i) \/ ReadTimesOut(i)

ReadsNext ==
    \/ \E a \in Accounts : ShowAccount(a) \/ ReadSucceeds(a) \/ ReadFails(a) \/ CacheAges(a)
    \/ \E i \in Ids : RequestStep(i) \/ ReadTimesOut(i) \/ CancelArrives(i) \/ LateWaiterEnds(i)
    \/ LoadPortfolio \/ ReadsStop

-----------------------------------------------------------------------------
ReadsTypeOK ==
    /\ active \in Accounts
    /\ pane.rows \in Accounts \cup {Nobody} /\ pane.id \in 0 .. MaxReads
    /\ \A i \in Ids : requests[i].acct \in Accounts \cup {Nobody}
    /\ cancels \cup registry.live \cup registry.aborted \cup registry.early \subseteq Ids
    /\ memory \in [Accounts -> Ages] /\ snapshot \in [Accounts -> Ages]
    /\ readsMade \in 0 .. MaxReads /\ readStops \in 0 .. MaxStops

(* The balances shown are those of the account on screen, whatever answers *)
(* of earlier accounts, replaced requests and timeouts come in late.       *)
RowsAreOfTheAccount == pane.rows \in {Nobody, active}
=============================================================================
