---------------------------- MODULE RequestState ----------------------------
(***************************************************************************)
(* The dApp request rows kept in chrome.storage.session by                 *)
(* background/dapp/requestState.ts, as values: the status lattice, the TTL *)
(* and the sweep that every operation of that file runs first.             *)
(*                                                                         *)
(* A request id is a fresh UUID in the code.  Here ids are handed out in   *)
(* increasing order, so the code's "sort by createdAt" is the order of the *)
(* ids.  A row keeps its status and, for its updatedAt, its age: the clock  *)
(* is unbounded and an age stops counting once it is past the TTL.  The    *)
(* fields that no write changes (origin, kind) are in DappApproval's       *)
(* `request'.                                                              *)
(***************************************************************************)
EXTENDS Integers

CONSTANTS
    MaxId,   \* bound: how many requests a behaviour creates
    TTL      \* DAPP_REQUEST_TTL_MS, in ticks of the clock

ASSUME MaxIdAssumption == MaxId \in Nat
ASSUME TTLAssumption == TTL \in Nat

Ids  == 1..MaxId
Ages == 0..TTL + 1

LiveStatuses     == {"awaiting_user", "signing"}
TerminalStatuses == {"approved", "rejected", "expired"}
Statuses         == LiveStatuses \cup TerminalStatuses

\* A row; "none" is the absence of a row under that id.
Rows   == [status : Statuses \cup {"none"}, age : Ages]
Absent == [status |-> "none", age |-> 0]

Stores     == [Ids -> Rows]
EmptyStore == [i \in Ids |-> Absent]

Live(row)     == row.status \in LiveStatuses
Terminal(row) == row.status \in TerminalStatuses
Fresh(row)    == row.age <= TTL

\* Variant: the sweep forgets the live rows.
SweptTerminalOnly(row) == IF Terminal(row) /\ ~Fresh(row) THEN Absent ELSE row

\* What the sweep makes of one row: a stale live row expires (and starts a
\* new TTL as a terminal row), a stale terminal row is dropped.
Swept(row) ==
    CASE Live(row) /\ ~Fresh(row)     -> [status |-> "expired", age |-> 0]
      [] Terminal(row) /\ ~Fresh(row) -> Absent
      [] OTHER                        -> row

Expire(rows) == [i \in Ids |-> Swept(rows[i])]

\* Variant: a status outside the lattice.
PutUnknownStatus(rows, i, status) == [rows EXCEPT ![i] = [status |-> "pending", age |-> 0]]

\* A write of one row's status on top of a copy of the whole bag.
Put(rows, i, status) == [rows EXCEPT ![i] = [status |-> status, age |-> 0]]

\* One tick later.
Older(rows) ==
    [i \in Ids |-> IF rows[i].status = "none" \/ rows[i].age > TTL THEN rows[i]
                   ELSE [rows[i] EXCEPT !.age = @ + 1]]

\* Variant: whoever resolves last decides.
DecidableAnyRow(row) == row.status # "none"

\* resolveDappRequest changes a live row only: "first writer wins".
Decidable(row) == ~Terminal(row) /\ row.status # "none"

LiveIds(rows) == {i \in Ids : Live(rows[i])}
=============================================================================
