----------------------------- MODULE Migration -----------------------------
(***************************************************************************)
(* Moving the balances of a classic account (G) to its smart account (C):  *)
(* the discovery and its cache (background/migration/discover.ts,          *)
(* discoveryCache.ts), the two sweeps (sweep.ts) and the screen that runs  *)
(* them one after another (ui/screens/MigrationScreen.tsx).  Each sweep    *)
(* reads the account from Horizon, decides an amount, signs a transaction  *)
(* that carries the sequence number it read, submits it and polls.  Two    *)
(* surfaces may run the screen at once, a submitted transaction may land   *)
(* after the sweep has given up on it, and deposits may arrive.            *)
(***************************************************************************)
EXTENDS Naturals, FiniteSets

CONSTANTS Screens,      \* surfaces that may show the migration screen
          Coins,        \* issued assets of the classic account
          SweepFee,     \* DEFAULT_SOROBAN_BASE_FEE, in the unit of the model
          ResourceFee,  \* what the simulation adds to that bid when it assembles
          LingerXlm,    \* the larger of 1.5 XLM and the minimum reserve
          MaxXlm,       \* bound on the classic balance
          MaxTopUps     \* bound on deposits to the classic account

ASSUME MigrationAssumption ==
    /\ IsFiniteSet(Coins)
    /\ SweepFee \in Nat \ {0} /\ ResourceFee \in Nat
    /\ LingerXlm \in Nat /\ MaxXlm \in Nat /\ MaxTopUps \in Nat

VARIABLES
    classic,    \* the ledger: XLM and coins of G, and its sequence number
    seedLoaded, \* the seed's key is in the worker's memory
    cached,     \* the discovery the worker keeps: "none" or a set of assets
    screen,     \* Screens -> the screen: shown assets, what is left to sweep
    sweep,      \* Screens -> the sweep that runs for it in the worker
    mempool,    \* submitted transactions: <<screen, asset, amount, seq>>
    topUps      \* deposits so far

migrationVars == <<classic, seedLoaded, cached, screen, sweep, mempool, topUps>>

Xlm == "xlm"
Assets == Coins \cup {Xlm}
Opened == [at |-> "open", found |-> {}, left |-> {}]
NoSweep == [at |-> "idle", asset |-> Xlm, amount |-> 0, seq |-> 0]

(* migrableAssetsFromHorizonAccount: XLM above the reserve, coins above 0. *)
Migrable == classic.coins \cup (IF classic.xlm > LingerXlm THEN {Xlm} ELSE {})

(* runMigrationSweepXlm: what may leave and still cover the floor and the  *)
(* fees of the sweeps that follow; 0 when there is nothing to move.        *)
Transferable(xlm, pending) ==
    IF xlm > SweepFee + LingerXlm + SweepFee * pending
    THEN xlm - SweepFee - LingerXlm - SweepFee * pending ELSE 0

MigrationInit ==
    /\ \E x \in 0 .. MaxXlm, cs \in SUBSET Coins : classic = [xlm |-> x, coins |-> cs, seq |-> 0]
    /\ seedLoaded \in BOOLEAN
    /\ cached = {"none"}
    /\ screen = [s \in Screens |-> Opened]
    /\ sweep = [s \in Screens |-> NoSweep]
    /\ mempool = {}
    /\ topUps = 0

-----------------------------------------------------------------------------
(* Discovery.                                                              *)

ShowFound(s, found) ==
    screen' = [screen EXCEPT ![s] = [Opened EXCEPT !.at = IF found = {} THEN "empty" ELSE "shown",
                                        !.found = found, !.left = found]]

(* MIGRATION_DISCOVER: the cached answer, or what Horizon says now ...     *)
Discover(s) ==
    /\ screen[s].at = "open"
    /\ IF cached # {"none"} THEN ShowFound(s, cached)
       ELSE screen' = [screen EXCEPT ![s].at = "asking", ![s].found = Migrable]
    /\ UNCHANGED <<classic, seedLoaded, cached, sweep, mempool, topUps>>

(* ... which is cached when it arrives, though a sweep may have ended since.*)
Discovered(s) ==
    /\ screen[s].at = "asking"
    /\ cached' = screen[s].found
    /\ ShowFound(s, screen[s].found)
    /\ UNCHANGED <<classic, seedLoaded, sweep, mempool, topUps>>

(* Horizon cannot be reached: "not needed" is cached and shown for the next *)
(* minute.  An HTTP error is shown and not cached.                         *)
DiscoverUnreachable(s) ==
    /\ screen[s].at = "asking"
    /\ cached' \in {{}, cached}
    /\ ShowFound(s, {})
    /\ UNCHANGED <<classic, seedLoaded, sweep, mempool, topUps>>

(* The cached discovery is a minute old.                                   *)
DiscoveryExpires ==
    /\ cached # {"none"}
    /\ cached' = {"none"}
    /\ UNCHANGED <<classic, seedLoaded, screen, sweep, mempool, topUps>>

-----------------------------------------------------------------------------
(* The screen: XLM first, then each coin; the first failure stops the run. *)

NextAsset(s) == IF Xlm \in screen[s].left THEN {Xlm} ELSE screen[s].left

(* handleMigrateAll sends the next sweep of the run.                       *)
MigrateNext(s) ==
    /\ screen[s].at \in {"shown", "running"} /\ sweep[s].at = "idle"
    /\ \E a \in NextAsset(s) :
        sweep' = [sweep EXCEPT ![s] = [NoSweep EXCEPT !.at = "asked", !.asset = a]]
    /\ screen' = [screen EXCEPT ![s].at = "running"]
    /\ UNCHANGED <<classic, seedLoaded, cached, mempool, topUps>>

(* The run is over: the screen discovers again.                            *)
MigrateDone(s) ==
    /\ screen[s].at = "running" /\ screen[s].left = {} /\ sweep[s].at = "idle"
    /\ screen' = [screen EXCEPT ![s] = Opened]
    /\ UNCHANGED <<classic, seedLoaded, cached, sweep, mempool, topUps>>

(* The user leaves or comes back; the screen is asked for again.           *)
Reopen(s) ==
    /\ screen[s].at \in {"empty", "failed", "locked", "short"}
    /\ screen' = [screen EXCEPT ![s] = Opened]
    /\ UNCHANGED <<classic, seedLoaded, cached, sweep, mempool, topUps>>

(* Pressed again after a failure: the run starts over with the assets that *)
(* were found, the ones moved meanwhile included.                          *)
MigrateAgain(s) ==
    /\ screen[s].at \in {"failed", "locked", "short"}
    /\ screen' = [screen EXCEPT ![s] = [@ EXCEPT !.at = "shown", !.left = screen[s].found]]
    /\ UNCHANGED <<classic, seedLoaded, cached, sweep, mempool, topUps>>

UnlockSeed ==
    /\ ~seedLoaded /\ seedLoaded' = TRUE
    /\ UNCHANGED <<classic, cached, screen, sweep, mempool, topUps>>

-----------------------------------------------------------------------------
(* The sweeps in the worker.                                               *)

StopRun(s, why) ==
    /\ sweep' = [sweep EXCEPT ![s] = NoSweep]
    /\ screen' = [screen EXCEPT ![s].at = why]

(* requireMnemonicKeypair: no key, no sweep.                               *)
SweepLocked(s) ==
    /\ sweep[s].at = "asked" /\ ~seedLoaded
    /\ StopRun(s, "locked")
    /\ UNCHANGED <<classic, seedLoaded, cached, mempool, topUps>>

(* The account is read and the amount decided: XLM keeps the floor and the *)
(* fees of the coins still to come, a coin moves whole.                    *)
AmountOf(s) ==
    IF sweep[s].asset = Xlm
    THEN Transferable(classic.xlm, Cardinality(screen[s].left \cap Coins))
    ELSE IF /\ sweep[s].asset \in classic.coins
            /\ classic.xlm >= LingerXlm + SweepFee THEN 1 ELSE 0

SweepRead(s) ==
    /\ sweep[s].at = "asked" /\ seedLoaded /\ AmountOf(s) > 0
    /\ sweep' = [sweep EXCEPT ![s] = [@ EXCEPT !.at = "built", !.amount = AmountOf(s),
                                               !.seq = classic.seq + 1]]
    /\ UNCHANGED <<classic, seedLoaded, cached, screen, mempool, topUps>>

(* insufficient_xlm, insufficient_xlm_fee, zero_balance.                   *)
SweepRefused(s) ==
    /\ sweep[s].at = "asked" /\ seedLoaded /\ AmountOf(s) = 0
    /\ StopRun(s, IF sweep[s].asset # Xlm /\ classic.xlm < LingerXlm + SweepFee
                  THEN "short" ELSE "failed")
    /\ UNCHANGED <<classic, seedLoaded, cached, mempool, topUps>>

(* The simulation fails.                                                   *)
SimulationFails(s) ==
    /\ sweep[s].at = "built"
    /\ StopRun(s, "failed")
    /\ UNCHANGED <<classic, seedLoaded, cached, mempool, topUps>>

(* Variant: the sequence number is taken again just before the send. *)
SweepSendAnySeq(s) ==
    /\ sweep[s].at = "built"
    /\ mempool' = mempool \cup {<<s, sweep[s].asset, sweep[s].amount, classic.seq + 1>>}
    /\ sweep' = [sweep EXCEPT ![s].at = "polling", ![s].seq = classic.seq + 1]
    /\ UNCHANGED <<classic, seedLoaded, cached, screen, topUps>>

(* sendTransaction accepts a transaction of the next sequence number ...   *)
SweepSend(s) ==
    /\ sweep[s].at = "built" /\ sweep[s].seq = classic.seq + 1
    /\ mempool' = mempool \cup {<<s, sweep[s].asset, sweep[s].amount, sweep[s].seq>>}
    /\ sweep' = [sweep EXCEPT ![s].at = "polling"]
    /\ UNCHANGED <<classic, seedLoaded, cached, screen, topUps>>

(* ... and refuses any other.                                              *)
SendRefused(s) ==
    /\ sweep[s].at = "built" /\ sweep[s].seq # classic.seq + 1
    /\ StopRun(s, "failed")
    /\ UNCHANGED <<classic, seedLoaded, cached, mempool, topUps>>

MyTx(s) == <<s, sweep[s].asset, sweep[s].amount, sweep[s].seq>>

(* The ledger applies one transaction of the next sequence number and      *)
(* charges at most the fee of the assembled transaction: the bid and the   *)
(* resource fee, which no sweep kept back.  No balance goes below zero.    *)
LedgerApplies(tx) ==
    /\ tx \in mempool /\ tx[4] = classic.seq + 1
    /\ \E charge \in 0 .. SweepFee + ResourceFee :
        /\ charge + (IF tx[2] = Xlm THEN tx[3] ELSE 0) <= classic.xlm
        /\ classic' = [xlm |-> IF tx[2] = Xlm THEN classic.xlm - charge - tx[3]
                                              ELSE classic.xlm - charge,
                       coins |-> classic.coins \ {tx[2]}, seq |-> tx[4]]
    /\ mempool' = mempool \ {tx}
    /\ sweep' = IF sweep[tx[1]].at = "polling" /\ tx = MyTx(tx[1])
                THEN [sweep EXCEPT ![tx[1]].at = "applied"] ELSE sweep
    /\ UNCHANGED <<seedLoaded, cached, screen, topUps>>

(* A transaction whose sequence number has passed is dropped.              *)
LedgerDrops(tx) ==
    /\ tx \in mempool /\ tx[4] <= classic.seq
    /\ mempool' = mempool \ {tx}
    /\ UNCHANGED <<classic, seedLoaded, cached, screen, sweep, topUps>>

(* The poll finds the transaction applied: the cache is dropped and the    *)
(* screen goes on.                                                         *)
SweepConfirmed(s) ==
    /\ sweep[s].at = "applied"
    /\ cached' = {"none"}
    /\ sweep' = [sweep EXCEPT ![s] = NoSweep]
    /\ screen' = [screen EXCEPT ![s].left = @ \ {sweep[s].asset}]
    /\ UNCHANGED <<classic, seedLoaded, mempool, topUps>>

(* Failed on the ledger, or not confirmed in time: it may still land.      *)
SweepFails(s) ==
    /\ sweep[s].at \in {"polling", "applied"}
    /\ StopRun(s, "failed")
    /\ UNCHANGED <<classic, seedLoaded, cached, mempool, topUps>>

(* Someone pays XLM to the classic account.                                *)
TopUp ==
    /\ topUps < MaxTopUps /\ classic.xlm < MaxXlm
    /\ topUps' = topUps + 1
    /\ classic' = [classic EXCEPT !.xlm = @ + 1]
    /\ UNCHANGED <<seedLoaded, cached, screen, sweep, mempool>>

SweepStep(s) ==
    \/ SweepLocked(s) \/ SweepRead(s) \/ SweepRefused(s) \/ SweepSend(s) \/ SendRefused(s)
    \/ SweepConfirmed(s) \/ SweepFails(s)

MigrationNext ==
    \/ \E s \in Screens :
        \/ Discover(s) \/ Discovered(s) \/ DiscoverUnreachable(s) \/ MigrateNext(s) \/ MigrateDone(s)
        \/ MigrateAgain(s) \/ Reopen(s) \/ SimulationFails(s) \/ SweepStep(s)
    \/ \E tx \in mempool : LedgerApplies(tx) \/ LedgerDrops(tx)
    \/ DiscoveryExpires \/ UnlockSeed \/ TopUp

-----------------------------------------------------------------------------
MigrationTypeOK ==
    /\ classic.xlm \in Nat /\ classic.coins \subseteq Coins
    /\ cached = {"none"} \/ cached \subseteq Assets
    /\ \A s \in Screens : /\ screen[s].left \subseteq Assets
                          /\ sweep[s].at \in {"idle", "asked", "built", "polling", "applied"}
    /\ topUps \in 0 .. MaxTopUps

(* However many surfaces sweep at once and however late a transaction      *)
(* lands, the classic account is never taken below the floor its reserve   *)
(* needs by more than the one resource fee that no sweep keeps back.       *)
ReserveKept ==
    [][classic.xlm >= LingerXlm => classic'.xlm + ResourceFee >= LingerXlm]_migrationVars
=============================================================================
