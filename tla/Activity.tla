------------------------------ MODULE Activity ------------------------------
(***************************************************************************)
(* The activity list of an account: scans of the chain                     *)
(* (packages/stellar/src/smartAccountTransactions.ts), the list kept in    *)
(* storage (background/activityHistory.ts) and the requests that share,    *)
(* force or fall back on them (background/smartAccountTransactions.ts).    *)
(* No source is archival: each sees the latest transfers only, so what a   *)
(* scan no longer sees is known from storage alone.  Transfers are         *)
(* numbered as they happen; a row is a transfer.                           *)
(***************************************************************************)
EXTENDS Naturals, FiniteSets

CONSTANTS Scans,          \* requests of the list, one after another each
          MaxTransfers,   \* bound on the transfers of the account
          HorizonDepth,   \* how many transfers back the Horizon sources see
          EventsReach,    \* how far back events are asked for at first
          EventsMinReach, \* and at least
          MaxEntries      \* MAX_ACTIVITY_ENTRIES

ASSUME ActivityAssumption ==
    {MaxTransfers, HorizonDepth, EventsReach, EventsMinReach, MaxEntries} \subseteq Nat

VARIABLES
    transfers,   \* how many transfers the chain holds
    throughG,    \* those that Horizon shows: operations of G or of the bundler
    scan,        \* Scans -> the request
    listInMemory,\* the cached list: its age and whether it has rows
    listStored,  \* the rows in storage
    tracked      \* the scan others join, NoScan when none

activityVars == <<transfers, throughG, scan, listInMemory, listStored, tracked>>

NoScan == 0   \* in place of a scan
IdleScan == [at |-> "idle", reach |-> EventsReach, found |-> {}, base |-> {}, on |-> NoScan]
Happened == 1 .. transfers
Since(n) == {t \in Happened : t + n > transfers}

(* The newest rows up to the cap.                                          *)
Capped(rows) == {t \in rows : Cardinality({u \in rows : u > t}) < MaxEntries}

ActivityInit ==
    /\ transfers = 0 /\ throughG = {}
    /\ scan = [s \in Scans |-> IdleScan]
    /\ listInMemory = [age |-> "none", some |-> FALSE]
    /\ listStored = {}
    /\ tracked = NoScan

-----------------------------------------------------------------------------
(* What the sources show.                                                  *)

(* fetchGAddressOps and fetchBundlerOps: the latest operations.            *)
HorizonOps == Since(HorizonDepth) \cap throughG

(* fetchSacTransferEvents: the events of the last ledgers.                 *)
TransferEvents(reach) == Since(reach)

(* A transfer lands, through the account's G or the bundler, or not.       *)
TransferLands ==
    /\ transfers < MaxTransfers
    /\ transfers' = transfers + 1
    /\ throughG' \in {throughG, throughG \cup {transfers + 1}}
    /\ UNCHANGED <<scan, listInMemory, listStored, tracked>>

-----------------------------------------------------------------------------
(* runGetSmartAccountTransactions.                                         *)

StartScan(s) ==
    /\ scan' = [scan EXCEPT ![s] = [IdleScan EXCEPT !.at = "scanning"]]
    /\ tracked' = s
    /\ UNCHANGED <<transfers, throughG, listInMemory, listStored>>

(* Asked without force: a fresh list answers, a running scan is joined.    *)
AskList(s) ==
    /\ scan[s].at \in {"idle", "failed"}
    /\ IF listInMemory.age = "fresh"
       THEN /\ scan' = [scan EXCEPT ![s] = IdleScan]
            /\ UNCHANGED <<transfers, throughG, listInMemory, listStored, tracked>>
       ELSE IF tracked # NoScan
       THEN /\ scan' = [scan EXCEPT ![s] = [IdleScan EXCEPT !.at = "joined", !.on = tracked]]
            /\ UNCHANGED <<transfers, throughG, listInMemory, listStored, tracked>>
       ELSE StartScan(s)

(* Asked with force: a scan of its own, whatever runs.                     *)
ForceList(s) == scan[s].at \in {"idle", "failed"} /\ StartScan(s)

(* fetchTransferEvents: the node refuses the range, and half is asked.     *)
ShrinkReach(s) ==
    /\ scan[s].at = "scanning" /\ scan[s].reach > EventsMinReach
    /\ scan' = [scan EXCEPT ![s].reach =
          IF @ \div 2 < EventsMinReach THEN EventsMinReach ELSE @ \div 2]
    /\ UNCHANGED <<transfers, throughG, listInMemory, listStored, tracked>>

(* Every source answered: their rows are one list.                         *)
ScanComplete(s) ==
    /\ scan[s].at = "scanning"
    /\ scan' = [scan EXCEPT ![s].at = "found", ![s].reach = EventsReach,
                            ![s].found = HorizonOps \cup TransferEvents(scan[s].reach)]
    /\ UNCHANGED <<transfers, throughG, listInMemory, listStored, tracked>>

(* rememberSuccessfulScan: the stored list is read ...                     *)
ReadStored(s) ==
    /\ scan[s].at = "found"
    /\ scan' = [scan EXCEPT ![s].at = "merging", ![s].base = listStored]
    /\ UNCHANGED <<transfers, throughG, listInMemory, listStored, tracked>>

(* Variant: the stored list is what the last scan found. *)
MergeFreshOnly(fresh, old) == Capped(fresh)

(* mergeActivityRows: fresh rows and stored ones, the oldest dropped.      *)
Merge(fresh, old) == Capped(fresh \cup old)

Untrack(s) == tracked' = IF tracked = s THEN NoScan ELSE tracked

(* ... and written back whole; those who joined are answered with it.      *)
WriteStoredList(s) ==
    /\ scan[s].at = "merging"
    /\ LET rows == Merge(scan[s].found, scan[s].base) IN
        /\ listStored' = rows
        /\ listInMemory' = [age |-> "fresh", some |-> rows # {}]
        /\ scan' = [r \in Scans |->
              IF r = s \/ scan[r].on = s THEN IdleScan ELSE scan[r]]
    /\ Untrack(s)
    /\ UNCHANGED <<transfers, throughG>>

(* One source failed: the scan is incomplete and stores nothing; what is   *)
(* stored answers, or the cached list, or the error.  A request that       *)
(* joined gets the error.                                                  *)
ScanIncomplete(s) ==
    /\ scan[s].at = "scanning"
    /\ scan' = [r \in Scans |->
            IF r = s /\ (listStored # {} \/ listInMemory.some) THEN IdleScan
            ELSE IF r = s \/ scan[r].on = s THEN [IdleScan EXCEPT !.at = "failed"]
            ELSE scan[r]]
    /\ Untrack(s)
    /\ UNCHANGED <<transfers, throughG, listInMemory, listStored>>

ListAges ==
    /\ listInMemory.age = "fresh"
    /\ listInMemory' = [listInMemory EXCEPT !.age = "stale"]
    /\ UNCHANGED <<transfers, throughG, scan, listStored, tracked>>

(* The worker stops with its scans and its cache.                          *)
ScansStop ==
    /\ scan' = [s \in Scans |-> IF scan[s].at = "failed" THEN scan[s] ELSE IdleScan]
    /\ listInMemory' = [age |-> "none", some |-> FALSE]
    /\ tracked' = NoScan
    /\ UNCHANGED <<transfers, throughG, listStored>>

(* The account is deleted, or the wallet logged out.                       *)
ClearHistory ==
    /\ listStored' = {}
    /\ UNCHANGED <<transfers, throughG, scan, listInMemory, tracked>>

ScanStep(s) ==
    ScanComplete(s) \/ ScanIncomplete(s) \/ ReadStored(s) \/ WriteStoredList(s)

ActivityNext ==
    \/ \E s \in Scans : AskList(s) \/ ForceList(s) \/ ShrinkReach(s) \/ ScanStep(s)
    \/ TransferLands \/ ListAges \/ ScansStop \/ ClearHistory

-----------------------------------------------------------------------------
ActivityTypeOK ==
    /\ transfers \in 0 .. MaxTransfers /\ throughG \subseteq Happened
    /\ listStored \subseteq Happened /\ listInMemory.some \in BOOLEAN
    /\ \A s \in Scans : scan[s].found \cup scan[s].base \subseteq Happened
    /\ tracked \in Scans \cup {NoScan}

Cleared == listStored' = {} /\ UNCHANGED scan

(* A transfer once stored stays in the list, also when the chain shows it  *)
(* no longer and when scans fail: it leaves only past the cap, with the    *)
(* account, or when another scan wrote between a scan's read and its write.*)
HistoryKept ==
    [][\/ \A t \in listStored \ listStored' : Cardinality({u \in listStored' : u > t}) >= MaxEntries
       \/ Cleared
       \/ \E s \in Scans : scan[s].at = "merging" /\ scan[s].base # listStored]_activityVars
=============================================================================
