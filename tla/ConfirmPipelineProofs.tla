----------------------- MODULE ConfirmPipelineProofs ------------------------
(***************************************************************************)
(* Types, runs, signatures and reports of ConfirmPipeline, any number of   *)
(* drafts, calls, builds and entries, with restarts and closed screens at  *)
(* any step: one run per key; a build is signed once and as it was         *)
(* reviewed; a result and a record say what the network took; a refusal as *)
(* out of date is earned.                                                  *)
(***************************************************************************)
EXTENDS ConfirmPipeline, SequenceTheorems, WellFoundedInduction, TLAPS

-----------------------------------------------------------------------------
(* The store's entries. *)

\* The least number of a set: the induction principle used below.
LEMMA Least ==
  ASSUME NEW T \in SUBSET Nat, T # {} PROVE \E m \in T : \A y \in T : ~(y < m)
<1>1. \E m \in T : \A y \in T : ~(<<y, m>> \in OpToRel(<, Nat))
  BY NatLessThanWellFounded, WFMin
<1> QED BY <1>1 DEF OpToRel

\* One more entry, or none.
More(e, bs, g) == IF e \in bs THEN Append(g, e) ELSE g
FirstOf(entries, bs, n, f) ==
    f = [i \in 0..n |-> IF i = 0 THEN <<>> ELSE More(entries[i], bs, f[i - 1])]

\* The function Kept is the last value of exists.
LEMMA FirstExists ==
  ASSUME NEW entries, NEW bs, Len(entries) \in Nat
  PROVE  \E f : FirstOf(entries, bs, Len(entries), f)
<1> DEFINE T == {n \in Nat : ~ \E f : FirstOf(entries, bs, n, f)}
<1>1. SUFFICES T = {} BY <1>1
<1>2. SUFFICES ASSUME T # {} PROVE FALSE OBVIOUS
<1>3. PICK m \in T : \A y \in T : ~(y < m)
  <2>1. T \in SUBSET Nat OBVIOUS
  <2> HIDE DEF T
  <2> QED BY <1>2, <2>1, Least
<1>4. CASE m = 0
  <2>1. FirstOf(entries, bs, 0, [i \in 0..0 |-> <<>>])
    BY DEF FirstOf, More
  <2> QED BY <2>1, <1>4
<1>5. CASE m # 0
  <2>1. m - 1 \in Nat /\ m - 1 < m BY <1>5
  <2>2. PICK g : FirstOf(entries, bs, m - 1, g) BY <1>3, <2>1
  <2> DEFINE f == [i \in 0..m |-> IF i < m THEN g[i] ELSE More(entries[m], bs, g[m - 1])]
  <2>3. \A i \in 0..m : f[i] = IF i = 0 THEN <<>> ELSE More(entries[i], bs, f[i - 1])
    <3> TAKE i \in 0..m
    <3>1. CASE i < m
      <4>1. i \in 0..(m - 1) /\ f[i] = g[i] BY <3>1
      <4>2. i # 0 => i - 1 \in 0..(m-1) /\ f[i - 1] = g[i - 1] BY <3>1
      <4>3. g[i] = IF i = 0 THEN <<>> ELSE More(entries[i], bs, g[i - 1])
        BY <2>2, <4>1 DEF FirstOf
      <4> QED BY <4>1, <4>2, <4>3
    <3>2. CASE i = m
      <4>1. f[m] = More(entries[m], bs, g[m - 1]) /\ f[m - 1] = g[m - 1] BY <2>1
      <4> QED BY <4>1, <3>2, <1>5
    <3> QED BY <3>1, <3>2
  <2>4. FirstOf(entries, bs, m, f)
    <3>1. f = [i \in 0..m |-> f[i]] OBVIOUS
    <3> HIDE DEF f
    <3> QED BY <3>1, <2>3, Zenon DEF FirstOf
  <2> QED BY <2>4
<1> QED BY <1>4, <1>5

\* The same function, as Kept writes it.
LEMMA KeptIsFirst ==
  ASSUME NEW entries, NEW bs, Len(entries) \in Nat
  PROVE  \E f : FirstOf(entries, bs, Len(entries), f) /\ Kept(entries, bs) = f[Len(entries)]
<1> DEFINE N == Len(entries)
           f == CHOOSE g : FirstOf(entries, bs, N, g)
<1>1. FirstOf(entries, bs, N, f) BY FirstExists
<1>2. Kept(entries, bs) = f[N] BY DEF Kept, FirstOf, More
<1> QED BY <1>1, <1>2

\* The entries of a list with one more at its end.
LEMMA AppendRange ==
  ASSUME NEW S, NEW s \in Seq(S), NEW e \in S
  PROVE  /\ Append(s, e) \in Seq(S) /\ Len(Append(s, e)) = Len(s) + 1
         /\ Range(Append(s, e)) = Range(s) \cup {e}
<1> DEFINE t == Append(s, e)
<1>1. /\ t \in Seq(S) /\ Len(t) = Len(s) + 1 /\ t[Len(s) + 1] = e /\ Len(s) \in Nat
      /\ \A i \in 1..Len(s) : t[i] = s[i]
  BY AppendProperties, LenProperties
<1>2. Range(t) = {t[i] : i \in 1..Len(t)} /\ Range(s) = {s[i] : i \in 1..Len(s)}
  BY <1>1, RangeEquality
<1>3. 1..Len(t) = 1..Len(s) \cup {Len(s) + 1} BY <1>1
<1> HIDE DEF t
<1>4. {t[i] : i \in 1..Len(t)} = {s[i] : i \in 1..Len(s)} \cup {e} BY <1>1, <1>3
<1> QED BY <1>1, <1>2, <1>4 DEF t

\* A filter keeps exactly the entries of the set.
LEMMA KeptProperties ==
  ASSUME NEW S, NEW entries \in Seq(S), NEW bs
  PROVE  /\ Kept(entries, bs) \in Seq(S) /\ Len(Kept(entries, bs)) <= Len(entries)
         /\ Range(Kept(entries, bs)) = Range(entries) \cap bs
<1> DEFINE N == Len(entries)
<1>n. N \in Nat /\ DOMAIN entries = 1..N /\ \A i \in 1..N : entries[i] \in S
  BY LenProperties, ElementOfSeq
<1>1. PICK f : FirstOf(entries, bs, N, f) /\ Kept(entries, bs) = f[N] BY <1>n, KeptIsFirst
<1> DEFINE Good(n) == /\ f[n] \in Seq(S) /\ Len(f[n]) <= n
                      /\ Range(f[n]) = {entries[i] : i \in 1..n} \cap bs
           T == {n \in 0..N : ~Good(n)}
<1>2. f[0] = <<>> /\ \A n \in 1..N : f[n] = More(entries[n], bs, f[n - 1])
  BY <1>1, <1>n DEF FirstOf
<1>3. Good(0)
  BY <1>2, EmptySeq DEF Range
<1>4. ASSUME NEW n \in 1..N, Good(n - 1) PROVE Good(n)
  <2>1. entries[n] \in S /\ f[n] = More(entries[n], bs, f[n - 1]) BY <1>n, <1>2
  <2>2. {entries[i] : i \in 1..n} = {entries[i] : i \in 1..(n - 1)} \cup {entries[n]}
    <3>1. 1..n = 1..(n - 1) \cup {n} BY <1>n
    <3> QED BY <3>1
  <2>3. CASE entries[n] \in bs
    <3>1. f[n] = Append(f[n - 1], entries[n]) BY <2>1, <2>3 DEF More
    <3>3. /\ f[n] \in Seq(S) /\ Len(f[n]) = Len(f[n - 1]) + 1 /\ Len(f[n - 1]) \in Nat
          /\ Range(f[n]) = Range(f[n - 1]) \cup {entries[n]}
      <4> DEFINE g == f[n - 1]
                 e == entries[n]
      <4>1. g \in Seq(S) /\ e \in S /\ f[n] = Append(g, e) BY <1>4, <2>1, <3>1
      <4> HIDE DEF g, e
      <4>2. /\ f[n] \in Seq(S) /\ Len(f[n]) = Len(g) + 1 /\ Len(g) \in Nat
            /\ Range(f[n]) = Range(g) \cup {e}
        BY <4>1, AppendRange, LenProperties
      <4> QED BY <4>2 DEF g, e
    <3>4. Len(f[n]) <= n BY <3>3, <1>4, <1>n
    <3> QED BY <3>3, <3>4, <2>2, <2>3, <1>4
  <2>4. CASE entries[n] \notin bs
    <3>1. f[n] = f[n - 1] BY <2>1, <2>4 DEF More
    <3>2. Len(f[n - 1]) \in Nat BY <1>4, LenProperties
    <3>3. Len(f[n]) <= n BY <3>1, <3>2, <1>4, <1>n
    <3> QED BY <3>1, <3>3, <2>2, <2>4, <1>4
  <2> QED BY <2>3, <2>4
<1>5. T = {}
  <2> SUFFICES ASSUME T # {} PROVE FALSE OBVIOUS
  <2>1. PICK m \in T : \A y \in T : ~(y < m)
    <3>1. T \in SUBSET Nat BY <1>n
    <3> HIDE DEF T
    <3> QED BY <3>1, Least
  <2>2. m \in 0..N /\ ~Good(m) OBVIOUS
  <2>3. m # 0 BY <2>2, <1>3
  <2>4. m - 1 \in 0..N /\ m - 1 < m /\ m \in 1..N BY <2>2, <2>3, <1>n
  <2>5. Good(m - 1) BY <2>1, <2>4
  <2> HIDE DEF Good
  <2> QED BY <1>4, <2>2, <2>4, <2>5
<1>6. Good(N)
  <2> HIDE DEF Good
  <2> QED BY <1>5, <1>n
<1>7. Range(entries) = {entries[i] : i \in 1..N} BY RangeEquality
<1> QED BY <1>1, <1>6, <1>7

\* A queue without its job i.
LEMMA RemoveAtProperties ==
  ASSUME NEW S, NEW s \in Seq(S), NEW i \in 1..Len(s)
  PROVE  /\ RemoveAt(s, i) \in Seq(S) /\ Len(RemoveAt(s, i)) = Len(s) - 1
         /\ \A j \in 1..(Len(s) - 1) :
               RemoveAt(s, i)[j] = IF j < i THEN s[j] ELSE s[j + 1]
<1> DEFINE a == SubSeq(s, 1, i - 1)
           b == SubSeq(s, i + 1, Len(s))
<1>1. Len(s) \in Nat /\ \A j \in 1..Len(s) : s[j] \in S BY LenProperties, ElementOfSeq
<1>2. /\ a \in Seq(S) /\ Len(a) = i - 1 /\ \A j \in 1..(i - 1) : a[j] = s[j]
  BY <1>1, SubSeqProperties
<1>3. /\ b \in Seq(S) /\ Len(b) = Len(s) - i
      /\ \A j \in 1..(Len(s) - i) : b[j] = s[i + j]
  BY <1>1, SubSeqProperties
<1> HIDE DEF a, b
<1>4. /\ a \o b \in Seq(S) /\ Len(a \o b) = Len(a) + Len(b)
      /\ \A j \in 1..(Len(a) + Len(b)) :
            (a \o b)[j] = IF j <= Len(a) THEN a[j] ELSE b[j - Len(a)]
  BY <1>2, <1>3, ConcatProperties
<1>5. ASSUME NEW j \in 1..(Len(s) - 1) PROVE (a \o b)[j] = IF j < i THEN s[j] ELSE s[j + 1]
  <2>1. CASE j < i BY <2>1, <1>1, <1>2, <1>3, <1>4
  <2>2. CASE ~(j < i)
    <3>1. j - (i - 1) \in 1..(Len(s) - i) /\ i + (j - (i - 1)) = j + 1 BY <2>2, <1>1
    <3> DEFINE k == j - (i - 1)
    <3>2. (a \o b)[j] = b[k] BY <2>2, <1>1, <1>2, <1>3, <1>4
    <3>3. b[k] = s[i + k] BY <3>1, <1>3
    <3> QED BY <2>2, <3>1, <3>2, <3>3
  <2> QED BY <2>1, <2>2
<1>6. RemoveAt(s, i) = a \o b BY DEF RemoveAt, a, b
<1> QED BY <1>1, <1>2, <1>3, <1>4, <1>5, <1>6

-----------------------------------------------------------------------------
(* The inductive type invariant.  TypeOK alone is not inductive: a call      *)
(* without a draft would reach a key that does not exist, a save of no       *)
(* build would hold one.  Each record fits the builds bs made so far.        *)

BuildRecords == [draft : Drafts, fee : Fees, age : 0..(BuildTTL + 1), ok : BOOLEAN]
JobRecords ==
    [op : {"save", "take"}, build : 0..MaxBuilds, call : Calls \cup {NoCall},
     read : BOOLEAN, copy : Seq(BuildIds)]
FeeIn(bs, b) == IF b = NoBuild THEN 0 ELSE bs[b].fee
MadeIn(bs) == 1..Len(bs)

\* What call r is at its place: who decides, what was reviewed, what is signed.
CallFits(r, bs) ==
    /\ r.shown # NoBuild => r.shown \in MadeIn(bs) /\ bs[r.shown].draft = r.draft
    /\ r.build # NoBuild => /\ r.build \in MadeIn(bs)
                            /\ bs[r.build].draft = r.draft /\ bs[r.build].fee = FeeIn(bs, r.shown)
    /\ r.pc # "idle" => r.draft \in Drafts
    /\ r.pc \in {"take", "build", "sign", "submit", "shared"} => r.op = "confirm"
    /\ r.pc = "take" => r.shown # NoBuild
    /\ (r.pc = "build" \/ (r.pc = "setup" /\ r.op = "confirm")) => r.shown = NoBuild
    /\ r.pc \in {"sign", "submit"} => r.build # NoBuild
    /\ r.pc \in Running \cup {"idle", "sent"} => r.lead = NoCall
    /\ r.pc = "shared" => r.lead # NoCall
    /\ r.pc \notin {"finish", "reply", "replied", "done"} => r.result = "none" /\ r.why = "none"
    /\ r.why = "out_of_date" => r.shown # NoBuild

\* What screen r knows in its mode.
ScreenFits(r, bs) ==
    /\ r.reviewed # NoBuild => r.reviewed \in MadeIn(bs) /\ bs[r.reviewed].draft = r.draft
    /\ r.estimate # NoBuild => r.estimate \in MadeIn(bs) /\ bs[r.estimate].draft = r.draft
    /\ r.mode \in {"needs", "ready", "estimating", "waiting"} => r.draft \in Drafts
    /\ r.awaits # NoCall => r.mode = "waiting"
    /\ r.estimate # NoBuild => r.mode = "estimating"
    /\ r.mode \in {"closed", "opening"} => r.reviewed = NoBuild

JobFits(r, bs) ==
    /\ r.op = "save" => r.build \in MadeIn(bs)
    /\ r.op = "take" => r.call \in Calls
    /\ Len(r.copy) <= MaxEntries /\ Range(r.copy) \subseteq MadeIn(bs)

BuildsTyped  == builds \in Seq(BuildRecords) /\ Len(builds) <= MaxBuilds
SetsTyped    == /\ ruled \subseteq Kinds /\ setup \subseteq Kinds
                /\ accepted \subseteq Calls \X Made /\ signed \subseteq Calls \X Made
                /\ building \subseteq Made /\ gone \subseteq Made
HeldTyped    == held \in Seq(BuildIds) /\ Len(held) <= MaxEntries /\ Range(held) \subseteq Made
JobsTyped    == jobs \in Seq(JobRecords) /\ \A i \in DOMAIN jobs : JobFits(jobs[i], builds)
OutcomeTyped == outcome \in OutcomeRecords
InflightTyped == inflight \in [Keys -> Calls \cup {NoCall}]
CallTyped    == call \in [Calls -> CallRecords] /\ \A c \in Calls : CallFits(call[c], builds)
ScreenTyped  ==
    screen \in [Surfaces -> ScreenRecords] /\ \A s \in Surfaces : ScreenFits(screen[s], builds)

Takes == {i \in DOMAIN jobs : jobs[i].op = "take"}

\* A take in the queue is of one call, which waits for it.
TakesWait ==
    \A i \in Takes : /\ call[jobs[i].call].pc = "take"
                     /\ \A j \in Takes : jobs[i].call = jobs[j].call => i = j

TypeInv ==
    /\ TakesWait
    /\ BuildsTyped /\ SetsTyped /\ HeldTyped /\ JobsTyped
    /\ OutcomeTyped /\ InflightTyped /\ CallTyped /\ ScreenTyped

LEMMA TypeInvGivesTypeOK == TypeInv => TypeOK
<1> SUFFICES ASSUME TypeInv PROVE TypeOK OBVIOUS
<1>1. Len(builds) \in Nat /\ Made \subseteq BuildIds
  BY LenProperties, BoundsAssumption DEF TypeInv, BuildsTyped, Made, BuildIds
<1> QED
  BY <1>1 DEF TypeInv, TypeOK, BuildsTyped, SetsTyped, HeldTyped, JobsTyped, OutcomeTyped,
              InflightTyped, CallTyped, ScreenTyped, BuildRecords, JobRecords

\* What the constants' assumptions and the lengths give every step.
LEMMA Bounds ==
  ASSUME TypeInv
  PROVE  /\ Len(builds) \in Nat /\ Made \subseteq BuildIds /\ Made = MadeIn(builds)
         /\ Len(held) \in Nat /\ Len(jobs) \in Nat /\ DOMAIN jobs = 1..Len(jobs)
         /\ MaxBuilds \in Nat /\ MaxTries \in Nat
         /\ \A b \in Made : builds[b] \in BuildRecords
         /\ \A i \in DOMAIN jobs : jobs[i] \in JobRecords /\ JobFits(jobs[i], builds)
  BY LenProperties, ElementOfSeq, BoundsAssumption
     DEF TypeInv, BuildsTyped, HeldTyped, JobsTyped, Made, MadeIn, BuildIds

-----------------------------------------------------------------------------
(* Steps that make no build leave what nothing else touches as it was. *)
LEMMA Untouched ==
  ASSUME TypeInv, UNCHANGED builds
  PROVE  /\ BuildsTyped'
         /\ UNCHANGED <<ruled, setup, accepted, signed, building, gone>> => SetsTyped'
         /\ UNCHANGED held => HeldTyped'
         /\ UNCHANGED jobs => JobsTyped'
         /\ UNCHANGED outcome => OutcomeTyped'
         /\ UNCHANGED inflight => InflightTyped'
         /\ UNCHANGED call => CallTyped'
         /\ UNCHANGED screen => ScreenTyped'
         /\ UNCHANGED <<jobs, call>> => TakesWait'
<1>1. UNCHANGED <<jobs, call>> => TakesWait' BY DEF TypeInv, TakesWait, Takes
<1> QED
  BY <1>1 DEF TypeInv, BuildsTyped, SetsTyped, HeldTyped, JobsTyped, OutcomeTyped,
              InflightTyped, CallTyped, ScreenTyped, Made

\* A call that waits for its take goes on waiting.
LEMMA TakesKept ==
  ASSUME TypeInv, UNCHANGED jobs,
         \A c \in Calls : call[c].pc = "take" => call'[c].pc = "take"
  PROVE  TakesWait'
<1>1. \A i \in Takes : jobs[i].call \in Calls BY Bounds DEF Takes, JobFits
<1> QED BY <1>1 DEF TypeInv, TakesWait, Takes

\* One call moves, which was not waiting for its take.
LEMMA TakesKeptBy ==
  ASSUME TypeInv, UNCHANGED jobs, NEW c \in Calls, call[c].pc # "take",
         \A x \in Calls \ {c} : call'[x] = call[x]
  PROVE  TakesWait'
<1>1. \A x \in Calls : call[x].pc = "take" => call'[x].pc = "take" OBVIOUS
<1> QED BY <1>1, TakesKept

\* More builds, or older ones: a build keeps its draft and fee.
Grown(bs, bt) ==
    /\ Len(bs) <= Len(bt)
    /\ \A b \in MadeIn(bs) : bt[b].draft = bs[b].draft /\ bt[b].fee = bs[b].fee

LEMMA GrownFits ==
  ASSUME NEW bs \in Seq(BuildRecords), NEW bt \in Seq(BuildRecords), Grown(bs, bt)
  PROVE  /\ \A r \in CallRecords : CallFits(r, bs) => CallFits(r, bt)
         /\ \A r \in ScreenRecords : ScreenFits(r, bs) => ScreenFits(r, bt)
         /\ \A r \in JobRecords : JobFits(r, bs) => JobFits(r, bt)
<1>1. MadeIn(bs) \subseteq MadeIn(bt) BY LenProperties DEF MadeIn, Grown
<1>2. ASSUME NEW r \in CallRecords, CallFits(r, bs) PROVE CallFits(r, bt)
  BY <1>1, <1>2 DEF CallFits, CallRecords, Grown, FeeIn, NoBuild
<1>3. ASSUME NEW r \in ScreenRecords, ScreenFits(r, bs) PROVE ScreenFits(r, bt)
  BY <1>1, <1>3 DEF ScreenFits, Grown
<1>4. ASSUME NEW r \in JobRecords, JobFits(r, bs) PROVE JobFits(r, bt)
  BY <1>1, <1>4 DEF JobFits
<1> QED BY <1>2, <1>3, <1>4

LEMMA GrownTypes ==
  ASSUME TypeInv, BuildsTyped', Grown(builds, builds')
  PROVE  /\ UNCHANGED <<ruled, setup, accepted, signed, building, gone>> => SetsTyped'
         /\ UNCHANGED held => HeldTyped'
         /\ UNCHANGED jobs => JobsTyped'
         /\ UNCHANGED outcome => OutcomeTyped'
         /\ UNCHANGED inflight => InflightTyped'
         /\ UNCHANGED call => CallTyped'
         /\ UNCHANGED screen => ScreenTyped'
         /\ UNCHANGED <<jobs, call>> => TakesWait'
<1>1. Made \subseteq Made' BY LenProperties DEF TypeInv, BuildsTyped, Made, Grown
<1>2. builds \in Seq(BuildRecords) /\ builds' \in Seq(BuildRecords)
  BY DEF TypeInv, BuildsTyped
<1>3. /\ \A r \in CallRecords : CallFits(r, builds) => CallFits(r, builds')
      /\ \A r \in ScreenRecords : ScreenFits(r, builds) => ScreenFits(r, builds')
      /\ \A r \in JobRecords : JobFits(r, builds) => JobFits(r, builds')
  BY <1>2, GrownFits
<1>4. UNCHANGED <<ruled, setup, accepted, signed, building, gone>> => SetsTyped'
  BY <1>1 DEF TypeInv, SetsTyped
<1>5. UNCHANGED held => HeldTyped' BY <1>1 DEF TypeInv, HeldTyped
<1>6. UNCHANGED jobs => JobsTyped' BY <1>3, Bounds DEF TypeInv, JobsTyped
<1>7. UNCHANGED call => CallTyped' BY <1>3 DEF TypeInv, CallTyped
<1>8. UNCHANGED screen => ScreenTyped' BY <1>3 DEF TypeInv, ScreenTyped
<1>9. UNCHANGED <<jobs, call>> => TakesWait' BY DEF TypeInv, TakesWait, Takes
<1> QED BY <1>4, <1>5, <1>6, <1>7, <1>8, <1>9 DEF TypeInv, OutcomeTyped, InflightTyped

\* One more build is made, for draft d with fee f.
LEMMA MoreBuilds ==
  ASSUME TypeInv, Len(builds) < MaxBuilds, NEW d \in Drafts, NEW f \in Fees, NEW ok \in BOOLEAN,
         builds' = Append(builds, [draft |-> d, fee |-> f, age |-> 0, ok |-> ok])
  PROVE  /\ BuildsTyped' /\ Grown(builds, builds') /\ Len(builds') = Len(builds) + 1
         /\ Made' = Made \cup {Len(builds')} /\ Len(builds') \notin Made
         /\ Len(builds') \in BuildIds
         /\ builds'[Len(builds')] = [draft |-> d, fee |-> f, age |-> 0, ok |-> ok]
         /\ \A b \in Made : builds'[b] = builds[b]
<1> DEFINE e == [draft |-> d, fee |-> f, age |-> 0, ok |-> ok]
<1>1. e \in BuildRecords BY BoundsAssumption DEF BuildRecords
<1>2. builds \in Seq(BuildRecords) /\ builds' = Append(builds, e)
  BY DEF TypeInv, BuildsTyped
<1> HIDE DEF e
<1>3. /\ builds' \in Seq(BuildRecords) /\ Len(builds') = Len(builds) + 1
      /\ \A i \in 1..Len(builds) : builds'[i] = builds[i]
      /\ builds'[Len(builds) + 1] = e
  BY <1>1, <1>2, AppendProperties
<1>4. Len(builds) \in Nat /\ MaxBuilds \in Nat BY Bounds
<1> QED BY <1>3, <1>4 DEF BuildsTyped, Grown, Made, MadeIn, BuildIds, e

-----------------------------------------------------------------------------
(* The screens. *)
LEMMA ScreenSet ==
  ASSUME TypeInv, UNCHANGED builds, NEW s \in Surfaces, NEW r \in ScreenRecords,
         ScreenFits(r, builds), screen' = [screen EXCEPT ![s] = r]
  PROVE  ScreenTyped'
  BY DEF TypeInv, ScreenTyped

LEMMA ClosedFits ==
  ASSUME NEW m \in {"closed", "opening", "review"}, NEW d \in Drafts \cup {NoDraft}, NEW bs
  PROVE  LET r == [Closed EXCEPT !.mode = m, !.draft = d] IN r \in ScreenRecords /\ ScreenFits(r, bs)
<1>1. NoBuild \in 0..MaxBuilds BY BoundsAssumption DEF NoBuild
<1> QED BY <1>1 DEF Closed, ScreenRecords, ScreenFits, Modes

LEMMA OpenTypes == ASSUME TypeInv, NEW s \in Surfaces, Open(s) PROVE TypeInv'
<1>1. ScreenTyped'
  BY DEF TypeInv, ScreenTyped, Open, ScreenRecords, ScreenFits, Closed, Modes, chain, NoBuild
<1> QED BY <1>1, Untouched DEF TypeInv, Open, chain, worker, history

LEMMA ConsumeOutcomeTypes == ASSUME TypeInv, NEW s \in Surfaces, ConsumeOutcome(s) PROVE TypeInv'
<1>1. ScreenTyped'
  BY DEF TypeInv, ScreenTyped, OutcomeTyped, OutcomeRecords, ConsumeOutcome, Set, ScreenRecords, ScreenFits, Modes, chain, NoBuild
<1>2. OutcomeTyped'
  BY BoundsAssumption DEF TypeInv, OutcomeTyped, OutcomeRecords, ConsumeOutcome, NoOutcome
<1> QED BY <1>1, <1>2, Untouched DEF TypeInv, ConsumeOutcome, chain, worker, history

LEMMA ChooseDraftTypes ==
  ASSUME TypeInv, NEW s \in Surfaces, NEW d \in Drafts, ChooseDraft(s, d) PROVE TypeInv'
<1> DEFINE r == [Closed EXCEPT !.mode = "review", !.draft = d]
<1>1. ScreenTyped'
  <2>1. r \in ScreenRecords /\ ScreenFits(r, builds) BY ClosedFits
  <2>2. UNCHANGED builds /\ screen' = [screen EXCEPT ![s] = r] BY DEF ChooseDraft, chain
  <2> HIDE DEF r
  <2> QED BY <2>1, <2>2, ScreenSet
<1> QED BY <1>1, Untouched DEF TypeInv, ChooseDraft, chain, worker, history

LEMMA EstimateTypes == ASSUME TypeInv, NEW s \in Surfaces, Estimate(s) PROVE TypeInv'
<1> DEFINE d == screen[s].draft
<1>1. d \in Drafts /\ Len(builds) < MaxBuilds
  BY DEF TypeInv, ScreenTyped, ScreenRecords, Estimate
<1>2. PICK f \in Fees :
        builds' = Append(builds, [draft |-> d, fee |-> f, age |-> 0, ok |-> Kind(d) \in ruled])
  BY DEF Estimate
<1>3. /\ BuildsTyped' /\ Grown(builds, builds') /\ Made' = Made \cup {Len(builds')}
      /\ Len(builds') \in BuildIds /\ builds'[Len(builds')].draft = d
  <2> DEFINE ok == Kind(d) \in ruled
  <2>1. ok \in BOOLEAN OBVIOUS
  <2>2. builds' = Append(builds, [draft |-> d, fee |-> f, age |-> 0, ok |-> ok]) BY <1>2
  <2> HIDE DEF ok, d
  <2> QED BY <1>1, <2>1, <2>2, MoreBuilds
<1>4. SetsTyped'
  BY <1>3 DEF TypeInv, SetsTyped, Estimate, history
<1>5. ScreenTyped'
  <2>1. \A r \in ScreenRecords : ScreenFits(r, builds) => ScreenFits(r, builds')
    BY <1>3, GrownFits DEF TypeInv, BuildsTyped
  <2>2. screen' \in [Surfaces -> ScreenRecords] /\ ScreenFits(screen'[s], builds')
    BY <1>1, <1>3
       DEF TypeInv, ScreenTyped, Estimate, ScreenRecords, ScreenFits, Modes, NoBuild, BuildIds,
           Made, MadeIn
  <2>3. \A x \in Surfaces \ {s} : screen'[x] = screen[x] BY DEF TypeInv, ScreenTyped, Estimate
  <2> QED BY <2>1, <2>2, <2>3 DEF TypeInv, ScreenTyped
<1> QED BY <1>3, <1>4, <1>5, GrownTypes DEF TypeInv, Estimate, history

\* The reply about a build of the draft on screen.
LEMMA AnswerTypes ==
  ASSUME TypeInv, NEW b \in Made, NEW to \in {"ready", "needs", "review"},
         NEW rev \in {b, NoBuild}, Answer(b, to, rev), UNCHANGED builds
  PROVE  ScreenTyped'
<1>1. b # NoBuild /\ rev \in 0..MaxBuilds BY Bounds, BoundsAssumption DEF Made, NoBuild, BuildIds
<1>2. ASSUME NEW s \in Surfaces
      PROVE  screen'[s] \in ScreenRecords /\ ScreenFits(screen'[s], builds')
  <2>1. screen[s] \in ScreenRecords /\ ScreenFits(screen[s], builds)
    BY DEF TypeInv, ScreenTyped
  <2>2. CASE screen[s].estimate # b BY <2>1, <2>2 DEF Answer
  <2>3. CASE screen[s].estimate = b
    <3>1. screen'[s] = [screen[s] EXCEPT !.mode = to, !.estimate = NoBuild, !.reviewed = rev]
      BY <2>3 DEF Answer
    <3>2. screen[s].mode = "estimating" /\ builds[b].draft = screen[s].draft
      BY <1>1, <2>1, <2>3 DEF ScreenFits, NoBuild
    <3>3. screen[s].awaits = NoCall /\ screen[s].draft \in Drafts BY <2>1, <3>2 DEF ScreenFits
    <3>4. screen'[s] \in ScreenRecords
      <4>1. to \in Modes /\ NoBuild \in 0..MaxBuilds /\ rev \in 0..MaxBuilds BY <1>1, BoundsAssumption DEF Modes, NoBuild
      <4> QED BY <4>1, <2>1, <3>1 DEF ScreenRecords
    <3> QED BY <1>1, <2>1, <3>1, <3>2, <3>3, <3>4, Bounds DEF ScreenRecords, ScreenFits, NoBuild
  <2> QED BY <2>2, <2>3
<1>3. screen' \in [Surfaces -> ScreenRecords] BY <1>2 DEF Answer
<1> QED BY <1>2, <1>3 DEF ScreenTyped

LEMMA BuildAnsweredTypes == ASSUME TypeInv, NEW b \in BuildIds, BuildAnswered(b) PROVE TypeInv'
<1>1. b \in Made /\ b \in building BY DEF TypeInv, SetsTyped, BuildAnswered
<1>2. UNCHANGED builds BY DEF BuildAnswered, chain
<1>3. ScreenTyped' BY <1>1, <1>2, AnswerTypes DEF BuildAnswered
<1>4. SetsTyped' BY <1>1, <1>2 DEF TypeInv, SetsTyped, BuildAnswered, chain, history, Made
<1>5. JobsTyped'
  <2> DEFINE j == [op |-> "save", build |-> b, call |-> NoCall, read |-> FALSE, copy |-> <<>>]
  <2>1. j \in JobRecords /\ JobFits(j, builds)
    <3>1. b \in 0..MaxBuilds BY BoundsAssumption DEF BuildIds
    <3>2. <<>> \in Seq(BuildIds) /\ Len(<<>>) = 0 /\ Range(<<>>) = {} BY EmptySeq DEF Range
    <3> QED BY <1>1, <3>1, <3>2, BoundsAssumption, Bounds DEF JobRecords, JobFits
  <2>2. jobs' = Append(jobs, j) BY DEF BuildAnswered
  <2> HIDE DEF j
  <2>3. /\ jobs' \in Seq(JobRecords) /\ Len(jobs') = Len(jobs) + 1 /\ jobs'[Len(jobs) + 1] = j
        /\ \A i \in 1..Len(jobs) : jobs'[i] = jobs[i]
    BY <2>1, <2>2, AppendProperties DEF TypeInv, JobsTyped
  <2>4. DOMAIN jobs' = 1..(Len(jobs) + 1) BY <2>3, LenProperties
  <2> QED BY <1>2, <2>1, <2>3, <2>4, Bounds DEF TypeInv, JobsTyped
<1>6. TakesWait'
  <2>1. jobs' = Append(jobs, [op |-> "save", build |-> b, call |-> NoCall, read |-> FALSE, copy |-> <<>>])
    BY DEF BuildAnswered
  <2>2. \A i \in Takes' : i \in Takes /\ jobs'[i] = jobs[i]
    BY <2>1, Bounds DEF TypeInv, JobsTyped, Takes
  <2> QED BY <2>2 DEF TypeInv, TakesWait, BuildAnswered
<1> QED BY <1>2, <1>3, <1>4, <1>5, <1>6, Untouched DEF TypeInv, BuildAnswered, chain, history

LEMMA BuildRefusedTypes == ASSUME TypeInv, NEW b \in BuildIds, BuildRefused(b) PROVE TypeInv'
<1>1. b \in Made /\ b \in building BY DEF TypeInv, SetsTyped, BuildRefused
<1>2. UNCHANGED builds BY DEF BuildRefused, chain
<1>3. ScreenTyped' BY <1>1, <1>2, AnswerTypes DEF BuildRefused
<1>4. SetsTyped' BY <1>1, <1>2 DEF TypeInv, SetsTyped, BuildRefused, chain, history, Made
<1> QED BY <1>2, <1>3, <1>4, Untouched DEF TypeInv, BuildRefused, chain, history

\* A screen with its draft sends a request.
LEMMA SendTypes ==
  ASSUME TypeInv, NEW s \in Surfaces, NEW c \in Calls, NEW op \in {"confirm", "setup"},
         screen[s].mode \in {"needs", "ready"}, Send(s, c, op)
  PROVE  TypeInv'
<1>1. UNCHANGED builds BY DEF Send, chain
<1>2. screen[s] \in ScreenRecords /\ ScreenFits(screen[s], builds) /\ s \in {"popup", "sidepanel"}
  BY SurfacesAssumption DEF TypeInv, ScreenTyped
<1>3. screen[s].draft \in Drafts BY <1>2 DEF ScreenFits
<1> DEFINE q == [IdleCall EXCEPT !.pc = "sent", !.op = op, !.surface = s, !.alive = TRUE,
                                 !.draft = screen[s].draft, !.shown = screen[s].reviewed]
<1>q. q \in CallRecords /\ CallFits(q, builds)
  <2>1. NoBuild \in 0..MaxBuilds /\ 0 \in 0..MaxTries BY BoundsAssumption DEF NoBuild
  <2>2. screen[s].reviewed \in 0..MaxBuilds BY <1>2 DEF ScreenRecords
  <2>3. q \in CallRecords
    BY <1>2, <1>3, <2>1, <2>2 DEF CallRecords, Pcs, Running, Results, Reasons, IdleCall
  <2>4. /\ q.pc = "sent" /\ q.shown = screen[s].reviewed /\ q.draft = screen[s].draft /\ q.build = NoBuild
        /\ q.lead = NoCall /\ q.result = "none" /\ q.why = "none"
    BY DEF IdleCall
  <2> HIDE DEF q
  <2> QED BY <1>2, <1>3, <2>3, <2>4 DEF CallFits, ScreenFits, Running
<1>4. CallTyped'
  <2>1. call' = [call EXCEPT ![c] = q] BY DEF Send
  <2> HIDE DEF q
  <2> QED BY <1>1, <1>q, <2>1 DEF TypeInv, CallTyped
<1>5. ScreenTyped'
  BY <1>1, <1>2, <1>3, CallsAssumption
     DEF TypeInv, ScreenTyped, ScreenRecords, ScreenFits, Modes, Send, NoBuild
<1>6. OutcomeTyped'
  BY <1>2, <1>3, BoundsAssumption DEF TypeInv, OutcomeTyped, OutcomeRecords, Send, ScreenRecords
<1>7. TakesWait' BY TakesKeptBy DEF Send, IdleCall, worker, TypeInv, CallTyped
<1> QED BY <1>1, <1>4, <1>5, <1>6, <1>7, Untouched DEF TypeInv, Send, chain, worker, history

LEMMA RunSetupTypes ==
  ASSUME TypeInv, NEW s \in Surfaces, NEW c \in Calls, RunSetup(s, c) PROVE TypeInv'
  BY SendTypes DEF RunSetup

LEMMA ConfirmTypes ==
  ASSUME TypeInv, NEW s \in Surfaces, NEW c \in Calls, Confirm(s, c) PROVE TypeInv'
  BY SendTypes DEF Confirm

LEMMA ConfirmExpiredTypes == ASSUME TypeInv, NEW s \in Surfaces, ConfirmExpired(s) PROVE TypeInv'
<1> DEFINE r == [screen[s] EXCEPT !.mode = "review", !.reviewed = NoBuild]
<1>1. ScreenTyped'
  <2>1. screen[s] \in ScreenRecords /\ ScreenFits(screen[s], builds) BY DEF TypeInv, ScreenTyped
  <2>2. NoBuild \in 0..MaxBuilds BY BoundsAssumption DEF NoBuild
  <2>3. screen[s].mode = "ready" BY DEF ConfirmExpired
  <2>4. r \in ScreenRecords /\ ScreenFits(r, builds) BY <2>1, <2>2, <2>3 DEF ScreenRecords, ScreenFits, Modes
  <2>5. UNCHANGED builds /\ screen' = [screen EXCEPT ![s] = r] BY DEF ConfirmExpired, chain
  <2> HIDE DEF r
  <2> QED BY <2>4, <2>5, ScreenSet
<1> QED BY <1>1, Untouched DEF TypeInv, ConfirmExpired, chain, worker, history

LEMMA WrittenTypes ==
  ASSUME TypeInv, NEW c \in Calls,
         NEW st \in {"none", "in_progress", "success", "failure", "review_again"}
  PROVE  Written(c, st) \in OutcomeRecords
  BY BoundsAssumption DEF TypeInv, CallTyped, CallRecords, OutcomeRecords, Written

LEMMA HandleReplyTypes == ASSUME TypeInv, NEW c \in Calls, HandleReply(c) PROVE TypeInv'
<1>1. UNCHANGED builds BY DEF HandleReply, chain
<1>2. CallTyped'
  BY <1>1 DEF TypeInv, CallTyped, CallRecords, Pcs, Running, CallFits, HandleReply
<1>3. ScreenTyped'
  <2> DEFINE s == call[c].surface
  <2>1. CASE UNCHANGED screen BY <1>1, <2>1, Untouched
  <2>2. CASE screen[s].awaits = c
    <3>1. PICK to \in {"review", "ready"} :
            screen' = [screen EXCEPT ![s].mode = to, ![s].reviewed = NoBuild, ![s].awaits = NoCall]
      BY <2>2 DEF HandleReply
    <3>2. ASSUME NEW x \in Surfaces PROVE screen'[x] \in ScreenRecords /\ ScreenFits(screen'[x], builds)
      <4>1. screen[x] \in ScreenRecords /\ ScreenFits(screen[x], builds) BY DEF TypeInv, ScreenTyped
      <4>2. CASE x # s BY <3>1, <4>1, <4>2 DEF TypeInv, ScreenTyped
      <4>3. CASE x = s
        <5>1. screen'[x] = [screen[x] EXCEPT !.mode = to, !.reviewed = NoBuild, !.awaits = NoCall]
          BY <3>1, <4>1, <4>3 DEF TypeInv, ScreenTyped
        <5>2. c # NoCall BY CallsAssumption
        <5> QED BY <2>2, <4>1, <4>3, <5>1, <5>2, BoundsAssumption DEF ScreenRecords, ScreenFits, Modes, NoBuild
      <4> QED BY <4>2, <4>3
    <3>3. screen' \in [Surfaces -> ScreenRecords] BY <3>1, <3>2 DEF TypeInv, ScreenTyped
    <3> QED BY <1>1, <3>2, <3>3 DEF ScreenTyped
  <2> QED BY <2>1, <2>2 DEF HandleReply
<1>4. OutcomeTyped'
  BY WrittenTypes, BoundsAssumption DEF TypeInv, OutcomeTyped, OutcomeRecords, NoOutcome, HandleReply
<1>5. TakesWait' BY TakesKeptBy DEF HandleReply, worker, TypeInv, CallTyped
<1> QED BY <1>1, <1>2, <1>3, <1>4, <1>5, Untouched DEF TypeInv, HandleReply, chain, worker, history

-----------------------------------------------------------------------------
(* The store.  Turn lets only the first job run, so i is 1 below. *)
LEMMA CallSet ==
  ASSUME TypeInv, UNCHANGED builds, NEW c \in Calls, NEW r \in CallRecords,
         CallFits(r, builds), call' = [call EXCEPT ![c] = r]
  PROVE  CallTyped'
  BY DEF TypeInv, CallTyped

LEMMA CallOf ==
  ASSUME TypeInv, NEW c \in Calls
  PROVE  call[c] \in CallRecords /\ CallFits(call[c], builds)
  BY DEF TypeInv, CallTyped

\* A run ends: it keeps what it is about.
LEMMA EndsTypes ==
  ASSUME TypeInv, UNCHANGED builds, NEW c \in Calls, NEW res \in Results, NEW why \in Reasons,
         call[c].pc \in Running, call[c].pc = "take" \/ why # "out_of_date", Ends(c, res, why)
  PROVE  CallTyped'
<1> DEFINE r == [call[c] EXCEPT !.pc = "finish", !.result = res, !.why = why]
<1>1. call[c] \in CallRecords /\ CallFits(call[c], builds) BY CallOf
<1>2. r \in CallRecords BY <1>1 DEF CallRecords, Pcs, Running
<1>3. CallFits(r, builds) BY <1>1 DEF CallRecords, CallFits, Running
<1>4. call' = [call EXCEPT ![c] = r] BY DEF Ends
<1> HIDE DEF r
<1> QED BY <1>2, <1>3, <1>4, CallSet

LEMMA StoreReadTypes ==
  ASSUME TypeInv, NEW i \in DOMAIN jobs, StoreRead(i) PROVE TypeInv'
<1> DEFINE r == [jobs[i] EXCEPT !.read = TRUE, !.copy = held]
<1>1. r \in JobRecords /\ JobFits(r, builds)
  BY Bounds DEF TypeInv, HeldTyped, JobRecords, JobFits, Made, MadeIn
<1>2. jobs' = [jobs EXCEPT ![i] = r] /\ UNCHANGED builds BY DEF StoreRead, chain
<1> HIDE DEF r
<1>3. /\ jobs' \in Seq(JobRecords) /\ Len(jobs') = Len(jobs)
      /\ \A j \in 1..Len(jobs) : jobs'[j] = IF j = i THEN r ELSE jobs[j]
  BY <1>1, <1>2, Bounds, ExceptSeq DEF TypeInv, JobsTyped
<1>4. DOMAIN jobs' = 1..Len(jobs) BY <1>3, LenProperties
<1>5. JobsTyped' BY <1>1, <1>2, <1>3, <1>4, Bounds DEF JobsTyped
<1>6. TakesWait'
  <2>1. r.op = jobs[i].op /\ r.call = jobs[i].call BY Bounds DEF r, JobRecords
  <2>2. Takes' = Takes /\ \A j \in Takes : jobs'[j].call = jobs[j].call
    BY <1>3, <1>4, <2>1, Bounds DEF Takes
  <2>3. call' = call BY DEF StoreRead
  <2>4. ASSUME NEW j \in Takes'
        PROVE  call'[jobs'[j].call].pc = "take" /\ \A k \in Takes' : jobs'[j].call = jobs'[k].call => j = k
    BY <2>2, <2>3 DEF TypeInv, TakesWait
  <2> QED BY <2>4, Zenon DEF TakesWait
<1> QED BY <1>2, <1>5, <1>6, Untouched DEF TypeInv, StoreRead, chain, history

\* The queue without a job that is done: the later ones move up.
After(i, j) == IF j < i THEN j ELSE j + 1
LEMMA JobDone ==
  ASSUME TypeInv, NEW i \in DOMAIN jobs, jobs' = RemoveAt(jobs, i)
  PROVE  /\ jobs' \in Seq(JobRecords) /\ DOMAIN jobs' = 1..(Len(jobs) - 1)
         /\ \A j \in DOMAIN jobs' : /\ After(i, j) \in DOMAIN jobs /\ After(i, j) # i
                                   /\ jobs'[j] = jobs[After(i, j)]
<1>1. /\ jobs' \in Seq(JobRecords) /\ Len(jobs') = Len(jobs) - 1
      /\ \A j \in 1..(Len(jobs) - 1) : jobs'[j] = IF j < i THEN jobs[j] ELSE jobs[j + 1]
  BY Bounds, RemoveAtProperties DEF TypeInv, JobsTyped
<1>2. DOMAIN jobs' = 1..(Len(jobs) - 1) BY <1>1, LenProperties
<1>3. ASSUME NEW j \in DOMAIN jobs'
      PROVE  After(i, j) \in DOMAIN jobs /\ After(i, j) # i /\ jobs'[j] = jobs[After(i, j)]
  BY <1>1, <1>2, Bounds DEF After
<1> QED BY <1>1, <1>2, <1>3

LEMMA JobDoneTypes ==
  ASSUME TypeInv, UNCHANGED builds, NEW i \in DOMAIN jobs, jobs' = RemoveAt(jobs, i)
  PROVE  /\ JobsTyped'
         /\ (\A c \in Calls : (jobs[i].op # "take" \/ c # jobs[i].call) => call'[c] = call[c])
              => TakesWait'
<1>1. JobsTyped' BY JobDone, Bounds DEF JobsTyped
<1>2. ASSUME \A c \in Calls : (jobs[i].op # "take" \/ c # jobs[i].call) => call'[c] = call[c]
      PROVE  TakesWait'
  <2>1. ASSUME NEW j \in Takes'
        PROVE  /\ After(i, j) \in Takes /\ After(i, j) # i /\ jobs'[j] = jobs[After(i, j)]
               /\ j \in 1..(Len(jobs) - 1) /\ jobs'[j].call \in Calls
    BY JobDone, Bounds DEF Takes, JobFits
  <2>2. ASSUME NEW j \in Takes' PROVE call'[jobs'[j].call].pc = "take"
    <3>1. jobs[i].op = "take" => jobs'[j].call # jobs[i].call
      BY <2>1 DEF TypeInv, TakesWait, Takes
    <3> QED BY <1>2, <2>1, <3>1 DEF TypeInv, TakesWait
  <2>3. ASSUME NEW j \in Takes', NEW k \in Takes', jobs'[j].call = jobs'[k].call PROVE j = k
    <3>1. After(i, j) = After(i, k) BY <2>1, <2>3 DEF TypeInv, TakesWait
    <3> QED BY <2>1, <3>1, Bounds DEF After
  <2>4. \A j \in Takes' : call'[jobs'[j].call].pc = "take" BY <2>2
  <2>5. \A j, k \in Takes' : jobs'[j].call = jobs'[k].call => j = k BY <2>3
  <2> QED BY <2>4, <2>5, Zenon DEF TakesWait
<1> QED BY <1>1, <1>2

LEMMA WithoutProperties ==
  ASSUME TypeInv, NEW S, NEW entries \in Seq(S), NEW d
  PROVE  /\ Without(entries, d) \in Seq(S) /\ Len(Without(entries, d)) <= Len(entries)
         /\ Range(Without(entries, d)) = {b \in Range(entries) \cap Made : builds[b].draft # d}
<1>1. /\ Without(entries, d) \in Seq(S) /\ Len(Without(entries, d)) <= Len(entries)
      /\ Range(Without(entries, d)) = Range(entries) \cap {b \in Made : builds[b].draft # d}
  BY KeptProperties DEF Without
<1> QED BY <1>1

LEMMA NewestProperties ==
  ASSUME NEW S, NEW s \in Seq(S)
  PROVE  /\ Newest(s) \in Seq(S) /\ Len(Newest(s)) <= MaxEntries
         /\ Range(Newest(s)) \subseteq Range(s)
<1> DEFINE m == IF Len(s) > MaxEntries THEN Len(s) - MaxEntries + 1 ELSE 1
           n == Len(s)
           t == SubSeq(s, m, n)
<1>1. n \in Nat /\ MaxEntries \in Nat /\ MaxEntries # 0 /\ \A i \in 1..n : s[i] \in S
  BY LenProperties, ElementOfSeq, BoundsAssumption
<1>2. m \in Nat /\ m >= 1 /\ (m <= n => n - m + 1 <= MaxEntries) BY <1>1
<1> HIDE DEF m, n
<1>3. /\ t \in Seq(S) /\ Len(t) = (IF m <= n THEN n - m + 1 ELSE 0)
      /\ \A i \in 1..(n - m + 1) : t[i] = s[m + i - 1]
  BY <1>1, <1>2, SubSeqProperties
<1>4. Newest(s) = t BY DEF Newest, m, n
<1>5. Len(t) <= MaxEntries BY <1>1, <1>2, <1>3
<1>6. ASSUME NEW x \in Range(t) PROVE x \in Range(s)
  <2>1. Range(t) = {t[i] : i \in 1..Len(t)} BY <1>3, RangeEquality
  <2>2. PICK i \in 1..Len(t) : x = t[i] BY <1>6, <2>1
  <2>3. i \in 1..(n - m + 1) /\ m + i - 1 \in 1..n BY <1>1, <1>2, <1>3, <2>2
  <2>4. Range(s) = {s[j] : j \in 1..n} BY RangeEquality DEF n
  <2> QED BY <1>3, <2>2, <2>3, <2>4
<1> QED BY <1>3, <1>4, <1>5, <1>6

\* What the store holds after a save: some of what it held, and the new build.
LEMMA SavedProperties ==
  ASSUME TypeInv, NEW entries \in Seq(BuildIds), NEW b \in Made
  PROVE  /\ Saved(entries, b) \in Seq(BuildIds) /\ Len(Saved(entries, b)) <= MaxEntries
         /\ Range(Saved(entries, b)) \subseteq Range(entries) \cup {b}
<1> DEFINE w == Without(entries, builds[b].draft)
           a == Append(w, b)
           l == Kept(a, Live)
<1>1. w \in Seq(BuildIds) /\ Range(w) \subseteq Range(entries) BY WithoutProperties
<1>2. b \in BuildIds BY Bounds
<1> HIDE DEF w
<1>3. a \in Seq(BuildIds) /\ Range(a) = Range(w) \cup {b} BY <1>1, <1>2, AppendRange
<1> HIDE DEF a
<1>4. l \in Seq(BuildIds) /\ Range(l) \subseteq Range(a) BY <1>3, KeptProperties
<1> HIDE DEF l
<1>5. Newest(l) \in Seq(BuildIds) /\ Len(Newest(l)) <= MaxEntries /\ Range(Newest(l)) \subseteq Range(l)
  BY <1>4, NewestProperties
<1>6. Saved(entries, b) = Newest(l) BY DEF Saved, l, a, w
<1> QED BY <1>1, <1>3, <1>4, <1>5, <1>6

LEMMA StoreSaveTypes ==
  ASSUME TypeInv, NEW i \in DOMAIN jobs, StoreSave(i) PROVE TypeInv'
<1>1. UNCHANGED builds BY DEF StoreSave, chain
<1>2. /\ jobs[i].build \in Made /\ jobs[i].copy \in Seq(BuildIds) /\ Range(jobs[i].copy) \subseteq Made
  BY Bounds DEF StoreSave, JobRecords, JobFits
<1>3. /\ held' \in Seq(BuildIds) /\ Len(held') <= MaxEntries
      /\ Range(held') \subseteq Range(jobs[i].copy) \cup {jobs[i].build}
  BY <1>2, SavedProperties DEF StoreSave
<1>4. HeldTyped' BY <1>1, <1>2, <1>3 DEF HeldTyped, Made
<1>5. JobsTyped' /\ TakesWait' BY <1>1, JobDoneTypes DEF StoreSave
<1>6. SetsTyped' BY <1>1, <1>2 DEF TypeInv, SetsTyped, StoreSave, chain, Made
<1> QED BY <1>1, <1>4, <1>5, <1>6, Untouched DEF TypeInv, StoreSave, chain

\* The entries of the draft of the call that takes.
Entry(i) == {b \in Range(jobs[i].copy) : builds[b].draft = call[jobs[i].call].draft}

\* A take ends its call, or sends it to sign an entry that is what was shown.
LEMMA TakeOutcome ==
  ASSUME NEW i \in DOMAIN jobs, StoreTake(i)
  PROVE  \/ \E why \in {"fee_changed", "setup_needed"} : Refuses(jobs[i].call, why)
         \/ Refuses(jobs[i].call, "out_of_date") /\ ~ \E b \in Entry(i) : Valid(b)
         \/ \E b \in Entry(i) :
              /\ SameFee(call[jobs[i].call].shown, b)
              /\ call' = [call EXCEPT ![jobs[i].call].pc = "sign", ![jobs[i].call].build = b]
  BY DEF StoreTake, Entry

LEMMA StoreTakeTypes ==
  ASSUME TypeInv, NEW i \in DOMAIN jobs, StoreTake(i) PROVE TypeInv'
<1> DEFINE c == jobs[i].call
<1>1. UNCHANGED builds BY DEF StoreTake, chain
<1>2. /\ c \in Calls /\ jobs[i].copy \in Seq(BuildIds) /\ Range(jobs[i].copy) \subseteq Made
      /\ Len(jobs[i].copy) <= MaxEntries /\ Len(jobs[i].copy) \in Nat
  BY Bounds, LenProperties DEF StoreTake, JobRecords, JobFits, Made, MadeIn
<1>t. call[c].pc = "take" BY DEF TypeInv, TakesWait, Takes, StoreTake
<1>3. CallTyped'
  <2>1. CASE \E why \in {"fee_changed", "setup_needed"} : Refuses(c, why)
    BY <1>1, <1>2, <1>t, <2>1, EndsTypes DEF Refuses, Results, Reasons, Running
  <2>2. CASE Refuses(c, "out_of_date")
    BY <1>1, <1>2, <1>t, <2>2, EndsTypes DEF Refuses, Results, Reasons, Running
  <2>3. ASSUME NEW b \in Entry(i), SameFee(call[c].shown, b),
               call' = [call EXCEPT ![c].pc = "sign", ![c].build = b]
        PROVE  CallTyped'
    <3> DEFINE r == [call[c] EXCEPT !.pc = "sign", !.build = b]
    <3>1. call[c] \in CallRecords /\ CallFits(call[c], builds) BY <1>2, CallOf
    <3>2. b \in Made /\ builds[b].draft = call[c].draft BY <1>2 DEF Entry
    <3>3. b \in BuildIds /\ b \in MadeIn(builds) /\ b \in 0..MaxBuilds BY <3>2, Bounds DEF BuildIds
    <3>4. builds[b].fee = FeeIn(builds, call[c].shown)
      BY <2>3, <3>2, Bounds DEF SameFee, FeeOf, FeeIn, Made, NoBuild
    <3>5. r \in CallRecords BY <3>1, <3>3 DEF CallRecords, Pcs, Running
    <3>6. CallFits(r, builds)
      <4> DEFINE o == call[c]
      <4>1. /\ r.pc = "sign" /\ r.build = b /\ r.shown = o.shown /\ r.draft = o.draft
            /\ r.op = o.op /\ r.lead = o.lead /\ r.result = o.result /\ r.why = o.why
        BY <3>1 DEF CallRecords
      <4>2. o \in CallRecords /\ CallFits(o, builds) /\ o.pc = "take" BY <1>t, <3>1
      <4>3. b \in MadeIn(builds) /\ builds[b].draft = o.draft /\ builds[b].fee = FeeIn(builds, o.shown)
            /\ b # NoBuild
        BY <3>2, <3>3, <3>4 DEF BuildIds, NoBuild
      <4> HIDE DEF r, o
      <4> QED BY <4>1, <4>2, <4>3 DEF CallFits, Running
    <3>7. call' = [call EXCEPT ![c] = r] BY <2>3
    <3> HIDE DEF r
    <3> QED BY <1>1, <1>2, <3>5, <3>6, <3>7, CallSet
  <2> QED BY <2>1, <2>2, <2>3, TakeOutcome
<1>4. HeldTyped'
  <2> DEFINE w == Without(jobs[i].copy, call[c].draft)
  <2>1. w \in Seq(BuildIds) /\ Len(w) <= Len(jobs[i].copy) /\ Range(w) \subseteq Made
    BY <1>2, WithoutProperties
  <2>2. Len(w) \in Nat BY <2>1, LenProperties
  <2>3. held' = held \/ held' = w BY DEF StoreTake
  <2> HIDE DEF w
  <2> QED BY <1>1, <1>2, <2>1, <2>2, <2>3, BoundsAssumption DEF TypeInv, HeldTyped, Made
<1>5. JobsTyped' /\ TakesWait'
  <2>1. \A x \in Calls : x # c => call'[x] = call[x]
    BY TakeOutcome, <1>2 DEF Refuses, Ends, TypeInv, CallTyped
  <2> QED BY <1>1, <2>1, JobDoneTypes DEF StoreTake
<1>6. SetsTyped' BY <1>1, <1>2 DEF TypeInv, SetsTyped, StoreTake, chain, Made
<1> QED BY <1>1, <1>3, <1>4, <1>5, <1>6, Untouched DEF TypeInv, StoreTake, chain

-----------------------------------------------------------------------------
(* The service worker. *)
LEMMA ArriveTypes == ASSUME TypeInv, NEW c \in Calls, Arrive(c) PROVE TypeInv'
<1> DEFINE o == call[c]
           lead == RunOf(c)
<1>1. UNCHANGED builds /\ o.pc = "sent" BY DEF Arrive, chain
<1>2. o \in CallRecords /\ CallFits(o, builds) BY CallOf
<1>3. o.draft \in Drafts /\ KeyOf[o.draft] \in Keys /\ Kind(o.draft) \in Kinds
  BY <1>1, <1>2, KeysAssumption DEF CallFits, Kind, Kinds
<1>4. lead \in Calls \cup {NoCall} BY <1>3 DEF TypeInv, InflightTyped, RunOf
<1>5. CASE /\ o.op = "setup" /\ call' = [call EXCEPT ![c].pc = "setup"]
           /\ setup' = setup \cup {Kind(o.draft)} /\ UNCHANGED <<inflight, jobs>>
  <2> DEFINE r == [o EXCEPT !.pc = "setup"]
  <2>1. r \in CallRecords BY <1>2 DEF CallRecords, Pcs, Running
  <2>2. CallFits(r, builds) BY <1>1, <1>2, <1>5 DEF CallRecords, CallFits, Running
  <2>3. call' = [call EXCEPT ![c] = r] BY <1>5
  <2> HIDE DEF r
  <2>4. CallTyped' BY <1>1, <2>1, <2>2, <2>3, CallSet
  <2>5. TakesWait' BY <1>1, <1>5, <2>3, TakesKeptBy DEF TypeInv, CallTyped
  <2>6. SetsTyped' BY <1>1, <1>3, <1>5 DEF TypeInv, SetsTyped, Made, Arrive, chain, history
  <2> QED BY <1>1, <1>5, <2>4, <2>5, <2>6, Untouched DEF TypeInv, Arrive, chain, history
<1>6. CASE /\ o.op = "confirm" /\ lead # NoCall
           /\ call' = [call EXCEPT ![c].pc = "shared", ![c].lead = lead]
           /\ UNCHANGED <<inflight, jobs, setup>>
  <2> DEFINE r == [o EXCEPT !.pc = "shared", !.lead = lead]
  <2>1. r \in CallRecords BY <1>2, <1>4 DEF CallRecords, Pcs
  <2>2. CallFits(r, builds) BY <1>1, <1>2, <1>6 DEF CallRecords, CallFits, Running
  <2>3. call' = [call EXCEPT ![c] = r] BY <1>6
  <2> HIDE DEF r
  <2>4. CallTyped' BY <1>1, <2>1, <2>2, <2>3, CallSet
  <2>5. TakesWait' BY <1>1, <1>6, <2>3, TakesKeptBy DEF TypeInv, CallTyped
  <2> QED BY <1>1, <1>6, <2>4, <2>5, Untouched DEF TypeInv, Arrive, chain, history
<1>7. CASE /\ o.op = "confirm" /\ inflight' = [inflight EXCEPT ![KeyOf[o.draft]] = c]
           /\ o.shown = NoBuild /\ call' = [call EXCEPT ![c].pc = "build"] /\ UNCHANGED <<jobs, setup>>
  <2> DEFINE r == [o EXCEPT !.pc = "build"]
  <2>1. r \in CallRecords BY <1>2 DEF CallRecords, Pcs, Running
  <2>2. CallFits(r, builds) BY <1>1, <1>2, <1>7 DEF CallRecords, CallFits, Running
  <2>3. call' = [call EXCEPT ![c] = r] BY <1>7
  <2> HIDE DEF r
  <2>4. CallTyped' BY <1>1, <2>1, <2>2, <2>3, CallSet
  <2>5. TakesWait' BY <1>1, <1>7, <2>3, TakesKeptBy DEF TypeInv, CallTyped
  <2>6. InflightTyped' BY <1>7 DEF TypeInv, InflightTyped
  <2> QED BY <1>1, <1>7, <2>4, <2>5, <2>6, Untouched DEF TypeInv, Arrive, chain, history
<1>8. CASE /\ o.op = "confirm" /\ inflight' = [inflight EXCEPT ![KeyOf[o.draft]] = c]
           /\ o.shown # NoBuild /\ call' = [call EXCEPT ![c].pc = "take"] /\ UNCHANGED setup
           /\ jobs' = Append(jobs, [op |-> "take", build |-> NoBuild, call |-> c,
                                    read |-> FALSE, copy |-> <<>>])
  <2> DEFINE r == [o EXCEPT !.pc = "take"]
             j == [op |-> "take", build |-> NoBuild, call |-> c, read |-> FALSE, copy |-> <<>>]
  <2>1. r \in CallRecords BY <1>2 DEF CallRecords, Pcs, Running
  <2>2. CallFits(r, builds) BY <1>1, <1>2, <1>8 DEF CallRecords, CallFits, Running
  <2>3. call' = [call EXCEPT ![c] = r] /\ r.pc = "take" BY <1>8
  <2>4. j \in JobRecords /\ JobFits(j, builds) /\ j.call = c /\ j.op = "take"
    <3>1. NoBuild \in 0..MaxBuilds BY BoundsAssumption DEF NoBuild
    <3>2. <<>> \in Seq(BuildIds) /\ Len(<<>>) = 0 /\ Range(<<>>) = {} BY EmptySeq DEF Range
    <3> QED BY <3>1, <3>2, BoundsAssumption DEF JobRecords, JobFits
  <2> HIDE DEF r, j
  <2>5. /\ jobs' \in Seq(JobRecords) /\ jobs'[Len(jobs) + 1] = j /\ DOMAIN jobs' = 1..(Len(jobs) + 1)
        /\ \A i \in DOMAIN jobs : jobs'[i] = jobs[i]
    <3>1. jobs' = Append(jobs, j) BY <1>8 DEF j
    <3> QED BY <2>4, <3>1, Bounds, AppendProperties, LenProperties DEF TypeInv, JobsTyped
  <2>6. JobsTyped' BY <1>1, <2>4, <2>5, Bounds DEF JobsTyped
  <2>7. CallTyped' BY <1>1, <2>1, <2>2, <2>3, CallSet
  <2>8. TakesWait'
    <3>1. ASSUME NEW i \in Takes'
          PROVE  (i \in Takes /\ jobs'[i] = jobs[i]) \/ (i = Len(jobs) + 1 /\ jobs'[i] = j)
      BY <2>5, Bounds DEF Takes
    <3>2. \A i \in Takes : jobs[i].call \in Calls /\ jobs[i].call # c
      BY <1>1, Bounds DEF TypeInv, TakesWait, Takes, JobFits
    <3>3. call'[c].pc = "take" /\ \A x \in Calls \ {c} : call'[x] = call[x]
      BY <2>3 DEF TypeInv, CallTyped
    <3>4. \A i \in Takes' : call'[jobs'[i].call].pc = "take"
      BY <2>4, <3>1, <3>2, <3>3 DEF TypeInv, TakesWait
    <3>5. \A i, k \in Takes' : jobs'[i].call = jobs'[k].call => i = k
      BY <2>4, <3>1, <3>2 DEF TypeInv, TakesWait
    <3> QED BY <3>4, <3>5, Zenon DEF TakesWait
  <2>9. InflightTyped' BY <1>8 DEF TypeInv, InflightTyped
  <2> QED BY <1>1, <1>8, <2>6, <2>7, <2>8, <2>9, Untouched DEF TypeInv, Arrive, chain, history
<1> QED BY <1>5, <1>6, <1>7, <1>8 DEF Arrive

LEMMA SignTypes == ASSUME TypeInv, NEW c \in Calls, Sign(c) PROVE TypeInv'
<1>1. CallTyped'
  BY DEF TypeInv, CallTyped, CallRecords, Pcs, Running, Results, Reasons, CallFits, Sign, Fails, Ends, chain, NoBuild
<1>2. SetsTyped'
  BY Bounds DEF TypeInv, CallTyped, CallFits, SetsTyped, Made, Sign, chain, worker
<1>3. TakesWait' BY TakesKeptBy DEF Sign, Fails, Ends, worker, TypeInv, CallTyped
<1> QED BY <1>1, <1>2, <1>3, Untouched DEF TypeInv, Sign, chain, worker, history

\* Only call c moves, along one of the steps of a run that ends or goes on.
LEMMA EndsTakes ==
  ASSUME TypeInv, UNCHANGED jobs, NEW c \in Calls, call[c].pc # "take",
         NEW res, NEW why, Ends(c, res, why)
  PROVE  TakesWait'
  BY TakesKeptBy DEF Ends, TypeInv, CallTyped

LEMMA OutOfTriesTypes == ASSUME TypeInv, NEW c \in Calls, OutOfTries(c) PROVE TypeInv'
<1>1. UNCHANGED <<builds, jobs>> /\ call[c].pc = "build" /\ Ends(c, "failure", "other")
  BY DEF OutOfTries, chain, worker, Fails
<1>2. CallTyped' BY <1>1, EndsTypes DEF Running, Results, Reasons
<1>3. TakesWait' BY <1>1, EndsTakes
<1> QED BY <1>1, <1>2, <1>3, Untouched DEF TypeInv, OutOfTries, chain, worker, history

\* A run is sent to set up the rules of its kind, once more.
LEMMA ToSetup ==
  ASSUME TypeInv, UNCHANGED builds, NEW c \in Calls, call[c].pc \in {"build", "submit"},
         call[c].shown = NoBuild, call[c].tries < MaxTries,
         call' = [call EXCEPT ![c].pc = "setup", ![c].tries = @ + 1]
  PROVE  CallTyped' /\ (UNCHANGED jobs => TakesWait')
<1> DEFINE r == [call[c] EXCEPT !.pc = "setup", !.tries = @ + 1]
<1>1. call[c] \in CallRecords /\ CallFits(call[c], builds) BY CallOf
<1>2. r \in CallRecords
  <2>1. call[c].tries + 1 \in 0..MaxTries BY <1>1, BoundsAssumption DEF CallRecords
  <2> QED BY <1>1, <2>1 DEF CallRecords, Pcs, Running
<1>3. CallFits(r, builds) BY <1>1 DEF CallRecords, CallFits, Running
<1>4. call' = [call EXCEPT ![c] = r] OBVIOUS
<1> HIDE DEF r
<1>5. CallTyped' BY <1>2, <1>3, <1>4, CallSet
<1>6. UNCHANGED jobs => TakesWait' BY <1>4, TakesKeptBy DEF TypeInv, CallTyped
<1> QED BY <1>5, <1>6

LEMMA RebuildTypes == ASSUME TypeInv, NEW c \in Calls, Rebuild(c) PROVE TypeInv'
<1> DEFINE o == call[c]
           d == o.draft
<1>1. o \in CallRecords /\ CallFits(o, builds) /\ o.pc = "build" /\ o.tries < MaxTries
  BY CallOf DEF Rebuild
<1>2. d \in Drafts /\ Kind(d) \in Kinds /\ o.shown = NoBuild BY <1>1 DEF CallFits, Kind, Kinds
<1>3. CASE Fails(c) /\ UNCHANGED <<builds, setup>>
  <2>1. CallTyped' BY <1>1, <1>3, EndsTypes DEF Fails, Running, Results, Reasons
  <2>2. TakesWait' BY <1>1, <1>3, EndsTakes DEF Fails, Rebuild
  <2> QED BY <1>3, <2>1, <2>2, Untouched DEF TypeInv, Rebuild, history
<1>4. CASE /\ call' = [call EXCEPT ![c].pc = "setup", ![c].tries = @ + 1]
           /\ setup' = setup \cup {Kind(d)} /\ UNCHANGED builds
  <2>1. CallTyped' /\ TakesWait' BY <1>1, <1>2, <1>4, ToSetup DEF Rebuild
  <2>2. SetsTyped' BY <1>2, <1>4 DEF TypeInv, SetsTyped, Made, Rebuild, history
  <2> QED BY <1>4, <2>1, <2>2, Untouched DEF TypeInv, Rebuild, history
<1>5. ASSUME Len(builds) < MaxBuilds, NEW f \in Fees, UNCHANGED setup,
             builds' = Append(builds, [draft |-> d, fee |-> f, age |-> 0, ok |-> TRUE]),
             \/ f # 0 /\ Refuses(c, "fee_changed")
             \/ f = 0 /\ call' = [call EXCEPT ![c].pc = "sign", ![c].build = Len(builds')]
      PROVE  TypeInv'
  <2>1. /\ BuildsTyped' /\ Grown(builds, builds') /\ Made' = Made \cup {Len(builds')}
        /\ Len(builds') \in BuildIds /\ builds'[Len(builds')].draft = d
        /\ builds'[Len(builds')].fee = f
    <3> DEFINE ok == TRUE
    <3>1. ok \in BOOLEAN OBVIOUS
    <3>2. builds' = Append(builds, [draft |-> d, fee |-> f, age |-> 0, ok |-> ok]) BY <1>5
    <3> HIDE DEF d, ok
    <3>3. /\ BuildsTyped' /\ Grown(builds, builds') /\ Made' = Made \cup {Len(builds')}
          /\ Len(builds') \in BuildIds
          /\ builds'[Len(builds')] = [draft |-> d, fee |-> f, age |-> 0, ok |-> ok]
      BY <1>2, <1>5, <3>1, <3>2, MoreBuilds
    <3> QED BY <3>3
  <2>2. \A r \in CallRecords : CallFits(r, builds) => CallFits(r, builds')
    BY <2>1, GrownFits DEF TypeInv, BuildsTyped
  <2>3. CASE f # 0 /\ Refuses(c, "fee_changed")
    <3> DEFINE r == [o EXCEPT !.pc = "finish", !.result = "review_again", !.why = "fee_changed"]
    <3>1. r \in CallRecords BY <1>1 DEF CallRecords, Pcs, Running, Results, Reasons
    <3>2. CallFits(r, builds) BY <1>1 DEF CallRecords, CallFits, Running
    <3>3. call' = [call EXCEPT ![c] = r] BY <2>3 DEF Refuses, Ends
    <3> HIDE DEF r
    <3>4. CallTyped' BY <2>2, <3>1, <3>2, <3>3 DEF TypeInv, CallTyped
    <3>5. TakesWait' BY <1>1, <3>3, TakesKeptBy DEF TypeInv, CallTyped, Rebuild
    <3> QED BY <1>5, <2>1, <3>4, <3>5, GrownTypes DEF TypeInv, Rebuild, history
  <2>4. CASE f = 0 /\ call' = [call EXCEPT ![c].pc = "sign", ![c].build = Len(builds')]
    <3> DEFINE r == [o EXCEPT !.pc = "sign", !.build = Len(builds')]
    <3>1. Len(builds') \in 0..MaxBuilds /\ Len(builds') # NoBuild BY <2>1, BoundsAssumption DEF BuildIds, NoBuild
    <3>2. r \in CallRecords BY <1>1, <3>1 DEF CallRecords, Pcs, Running
    <3>3. /\ r.pc = "sign" /\ r.build = Len(builds') /\ r.shown = NoBuild /\ r.draft = d
          /\ r.op = o.op /\ r.lead = o.lead /\ r.result = o.result /\ r.why = o.why
      BY <1>1, <1>2 DEF CallRecords
    <3>4. Len(builds') \in MadeIn(builds') BY <2>1 DEF Made, MadeIn
    <3>5. call' = [call EXCEPT ![c] = r] BY <2>4
    <3>6. d = o.draft OBVIOUS
    <3> HIDE DEF r, d, o
    <3>7. CallFits(r, builds')
      BY <1>1, <2>1, <2>4, <3>1, <3>3, <3>4, <3>6 DEF CallFits, Running, FeeIn
    <3>8. CallTyped' BY <2>2, <3>2, <3>7, <3>5 DEF TypeInv, CallTyped
    <3>9. TakesWait' BY <1>1, <3>5, TakesKeptBy DEF TypeInv, CallTyped, Rebuild, o
    <3>10. SetsTyped' BY <1>5, <2>1 DEF TypeInv, SetsTyped, Rebuild, history
    <3> QED BY <1>5, <2>1, <3>8, <3>9, <3>10, GrownTypes DEF TypeInv, Rebuild, history
  <2> QED BY <1>5, <2>3, <2>4
<1>6. CASE /\ Kind(d) \in ruled /\ Len(builds) < MaxBuilds /\ UNCHANGED setup
           /\ \E f \in Fees :
                 /\ builds' = Append(builds, [draft |-> d, fee |-> f, age |-> 0, ok |-> TRUE])
                 /\ IF f # 0 THEN Refuses(c, "fee_changed")
                    ELSE call' = [call EXCEPT ![c].pc = "sign", ![c].build = Len(builds')]
  BY <1>5, <1>6
<1> QED BY <1>3, <1>4, <1>6 DEF Rebuild

LEMMA SetupEndsTypes == ASSUME TypeInv, NEW k \in Kinds, SetupEnds(k) PROVE TypeInv'
<1>1. UNCHANGED <<builds, jobs>> BY DEF SetupEnds
<1>2. PICK result \in {"configured", "already_configured", "failed"}, thrown \in BOOLEAN :
        /\ ruled' = IF result = "configured" THEN ruled \cup {k} ELSE ruled
        /\ call' = [c \in Calls |->
              IF call[c].pc # "setup" \/ Kind(call[c].draft) # k THEN call[c]
              ELSE IF call[c].op = "setup"
              THEN [call[c] EXCEPT !.pc = "finish",
                       !.result = IF result = "configured" THEN "success" ELSE "failure"]
              ELSE IF result = "failed" \/ thrown
              THEN [call[c] EXCEPT !.pc = "finish", !.result = "failure", !.why = "other"]
              ELSE [call[c] EXCEPT !.pc = "build"]]
  BY DEF SetupEnds
<1>3. ASSUME NEW c \in Calls
      PROVE  /\ call'[c] \in CallRecords /\ CallFits(call'[c], builds)
             /\ call[c].pc = "take" => call'[c].pc = "take"
  <2> DEFINE o == call[c]
  <2>1. o \in CallRecords /\ CallFits(o, builds) BY CallOf
  <2>2. CASE o.pc # "setup" \/ Kind(o.draft) # k BY <1>2, <2>1, <2>2
  <2>3. CASE o.pc = "setup" /\ o.op = "setup" /\ Kind(o.draft) = k
    <3>1. PICK res \in {"success", "failure"} : call'[c] = [o EXCEPT !.pc = "finish", !.result = res]
      BY <1>2, <2>3
    <3> QED BY <2>1, <2>3, <3>1 DEF CallRecords, Pcs, Running, Results, CallFits
  <2>4. CASE o.pc = "setup" /\ o.op # "setup" /\ Kind(o.draft) = k /\ (result = "failed" \/ thrown)
    <3>1. call'[c] = [o EXCEPT !.pc = "finish", !.result = "failure", !.why = "other"]
      BY <1>2, <2>4
    <3> QED BY <2>1, <2>4, <3>1 DEF CallRecords, Pcs, Running, Results, Reasons, CallFits
  <2>5. CASE o.pc = "setup" /\ o.op # "setup" /\ Kind(o.draft) = k /\ ~(result = "failed" \/ thrown)
    <3>1. call'[c] = [o EXCEPT !.pc = "build"]
      BY <1>2, <2>5
    <3> QED BY <2>1, <2>5, <3>1 DEF CallRecords, Pcs, Running, CallFits
  <2> QED BY <2>2, <2>3, <2>4, <2>5
<1>4. CallTyped'
  <2>1. call' \in [Calls -> CallRecords] BY <1>2, <1>3
  <2> QED BY <1>1, <1>3, <2>1 DEF CallTyped
<1>5. TakesWait' BY <1>1, <1>3, TakesKept
<1>6. SetsTyped' BY <1>1, <1>2 DEF TypeInv, SetsTyped, Made, SetupEnds, history
<1> QED BY <1>1, <1>4, <1>5, <1>6, Untouched DEF TypeInv, SetupEnds, history

LEMMA SubmitTypes == ASSUME TypeInv, NEW c \in Calls, Submit(c) PROVE TypeInv'
<1> DEFINE o == call[c]
<1>1. o \in CallRecords /\ CallFits(o, builds) /\ o.pc = "submit" /\ UNCHANGED <<builds, jobs>>
  BY CallOf DEF Submit
<1>2. o.build \in Made /\ Kind(o.draft) \in Kinds
  BY <1>1 DEF CallFits, Made, MadeIn, Kind, Kinds
<1>3. \/ Ends(c, "success", "none") \/ Fails(c) \/ Refuses(c, "setup_needed") \/ Ends(c, "failure", "rules")
      \/ /\ o.shown = NoBuild /\ o.tries < MaxTries
         /\ call' = [call EXCEPT ![c].pc = "setup", ![c].tries = @ + 1]
  BY DEF Submit
<1>4. CallTyped' /\ TakesWait'
  <2>1. ASSUME NEW res \in Results, NEW why \in Reasons, why # "out_of_date", Ends(c, res, why)
        PROVE  CallTyped' /\ TakesWait'
    BY <1>1, <2>1, EndsTypes, EndsTakes DEF Running
  <2>2. CASE /\ o.shown = NoBuild /\ o.tries < MaxTries
             /\ call' = [call EXCEPT ![c].pc = "setup", ![c].tries = @ + 1]
    BY <1>1, <2>2, ToSetup
  <2> QED BY <1>3, <2>1, <2>2 DEF Fails, Refuses, Results, Reasons
<1>5. SetsTyped'
  <2>1. accepted' = accepted \/ accepted' = accepted \cup {<<c, o.build>>} BY DEF Submit
  <2>2. setup' = setup \/ setup' = setup \cup {Kind(o.draft)} BY DEF Submit
  <2>3. UNCHANGED <<builds, ruled, building, signed, gone>> BY DEF Submit, history
  <2> QED BY <1>2, <2>1, <2>2, <2>3 DEF TypeInv, SetsTyped, Made
<1> QED BY <1>1, <1>4, <1>5, Untouched DEF TypeInv, Submit, history

LEMMA FinishOutcomeTypes == ASSUME TypeInv, NEW c \in Calls, FinishOutcome(c) PROVE TypeInv'
<1>1. UNCHANGED <<builds, jobs>> /\ call[c].pc = "finish" BY DEF FinishOutcome, chain, worker
<1>2. CallTyped' /\ TakesWait'
  <2> DEFINE r == [call[c] EXCEPT !.pc = "reply"]
  <2>1. call[c] \in CallRecords /\ CallFits(call[c], builds) BY CallOf
  <2>2. r \in CallRecords /\ CallFits(r, builds) BY <1>1, <2>1 DEF CallRecords, Pcs, Running, CallFits
  <2>3. call' = [call EXCEPT ![c] = r] BY DEF FinishOutcome
  <2> HIDE DEF r
  <2> QED BY <1>1, <2>2, <2>3, CallSet, TakesKeptBy DEF TypeInv, CallTyped
<1>3. OutcomeTyped'
  <2>1. StatusFor(c) \in {"none", "in_progress", "success", "failure", "review_again"}
    BY CallOf DEF StatusFor, CallRecords, Results
  <2> QED BY <2>1, WrittenTypes DEF TypeInv, OutcomeTyped, FinishOutcome
<1>4. ScreenTyped'
  <2>1. CASE UNCHANGED screen BY <1>1, <2>1, Untouched
  <2>2. CASE screen["popup"].mode = "closed" /\ Set("popup", "opening")
    BY <1>1, <2>2 DEF TypeInv, ScreenTyped, ScreenRecords, ScreenFits, Modes, Set
  <2> QED BY <2>1, <2>2 DEF FinishOutcome
<1> QED BY <1>1, <1>2, <1>3, <1>4, Untouched DEF TypeInv, FinishOutcome, chain, worker, history

\* A caller is answered, while its screen lives.
LEMMA AnsweredFits ==
  ASSUME NEW r \in CallRecords, NEW bs, CallFits(r, bs), NEW res \in Results, r.pc # "idle"
  PROVE  Answered(r, res) \in CallRecords /\ CallFits(Answered(r, res), bs)
<1> DEFINE q == Answered(r, res)
<1>1. q \in CallRecords BY DEF CallRecords, Answered, Pcs
<1>2. /\ q.pc \in {"replied", "done"} /\ q.shown = r.shown /\ q.build = r.build /\ q.draft = r.draft
      /\ q.why = r.why
  BY DEF CallRecords, Answered
<1> HIDE DEF q
<1>3. CallFits(q, bs) BY <1>1, <1>2 DEF CallFits, Running
<1> QED BY <1>1, <1>3 DEF q

LEMMA ReplyTypes == ASSUME TypeInv, NEW c \in Calls, Reply(c) PROVE TypeInv'
<1>1. UNCHANGED <<builds, jobs>> /\ call[c].pc = "reply" BY DEF Reply, chain
<1>2. ASSUME NEW x \in Calls
      PROVE  /\ call'[x] \in CallRecords /\ CallFits(call'[x], builds)
             /\ call[x].pc = "take" => call'[x].pc = "take"
  <2>1. call[x] \in CallRecords /\ CallFits(call[x], builds) /\ call[c].result \in Results
    BY CallOf DEF CallRecords
  <2>2. call'[x] = IF AwaitsRun(x, c) THEN Answered(call[x], call[c].result) ELSE call[x]
    BY DEF Reply
  <2>3. AwaitsRun(x, c) => call[x].pc \in {"reply", "shared"} BY <1>1 DEF AwaitsRun
  <2> QED BY <2>1, <2>2, <2>3, AnsweredFits
<1>3. CallTyped'
  <2>1. call' \in [Calls -> CallRecords] BY <1>2 DEF Reply
  <2> QED BY <1>1, <1>2, <2>1 DEF CallTyped
<1>4. TakesWait' BY <1>1, <1>2, TakesKept
<1>5. InflightTyped' BY DEF TypeInv, InflightTyped, Reply
<1> QED BY <1>1, <1>3, <1>4, <1>5, Untouched DEF TypeInv, Reply, chain, history

-----------------------------------------------------------------------------
(* What surrounds the program. *)
LEMMA CloseTypes == ASSUME TypeInv, NEW s \in Surfaces, Close(s) PROVE TypeInv'
<1>1. UNCHANGED <<builds, jobs>> BY DEF Close, chain, worker
<1>2. ASSUME NEW c \in Calls
      PROVE  /\ call'[c] \in CallRecords /\ CallFits(call'[c], builds)
             /\ call[c].pc = "take" => call'[c].pc = "take"
  <2> DEFINE o == call[c]
             p == IF o.pc = "replied" THEN "done" ELSE o.pc
             r == [o EXCEPT !.alive = FALSE, !.pc = p]
  <2>1. o \in CallRecords /\ CallFits(o, builds) BY CallOf
  <2>2. call'[c] = o \/ call'[c] = r BY DEF Close
  <2>3. r \in CallRecords BY <2>1 DEF CallRecords, Pcs
  <2>4. CallFits(r, builds) BY <2>1 DEF CallRecords, CallFits, Running
  <2>5. o.pc = "take" => r.pc = "take" BY <2>1 DEF CallRecords
  <2> QED BY <2>1, <2>2, <2>3, <2>4, <2>5
<1>3. CallTyped'
  <2>1. call' \in [Calls -> CallRecords] BY <1>2 DEF Close
  <2> QED BY <1>1, <1>2, <2>1 DEF CallTyped
<1>4. TakesWait' BY <1>1, <1>2, TakesKept
<1>5. ScreenTyped'
  <2>1. NoBuild \in 0..MaxBuilds BY BoundsAssumption DEF NoBuild
  <2>2. Closed \in ScreenRecords /\ ScreenFits(Closed, builds)
    BY <2>1 DEF Closed, ScreenRecords, ScreenFits, Modes
  <2> QED BY <1>1, <2>2, ScreenSet DEF Close
<1> QED BY <1>1, <1>3, <1>4, <1>5, Untouched DEF TypeInv, Close, chain, worker, history

LEMMA SwRestartTypes == ASSUME TypeInv, SwRestart PROVE TypeInv'
<1>1. UNCHANGED builds /\ jobs' = <<>> BY DEF SwRestart, chain
<1>2. ASSUME NEW c \in Calls
      PROVE  call'[c] \in CallRecords /\ CallFits(call'[c], builds)
  <2>1. call[c] \in CallRecords /\ CallFits(call[c], builds) BY CallOf
  <2>2. call'[c] = IF call[c].pc \in Running \cup {"shared"} THEN Answered(call[c], "failure") ELSE call[c]
    BY DEF SwRestart
  <2>3. call[c].pc \in Running \cup {"shared"} => call[c].pc # "idle" BY DEF Running
  <2> QED BY <2>1, <2>2, <2>3, AnsweredFits DEF Results
<1>3. CallTyped'
  <2>1. call' \in [Calls -> CallRecords] BY <1>2 DEF SwRestart
  <2> QED BY <1>1, <1>2, <2>1 DEF CallTyped
<1>4. JobsTyped' /\ TakesWait'
  <2>1. jobs' \in Seq(JobRecords) /\ Len(jobs') = 0 BY <1>1, EmptySeq
  <2>2. DOMAIN jobs' = {} BY <2>1, LenProperties
  <2> QED BY <2>1, <2>2 DEF JobsTyped, TakesWait, Takes
<1>5. ScreenTyped'
  <2>1. ASSUME NEW s \in Surfaces PROVE screen'[s] \in ScreenRecords /\ ScreenFits(screen'[s], builds)
    <3>1. screen[s] \in ScreenRecords /\ ScreenFits(screen[s], builds) BY DEF TypeInv, ScreenTyped
    <3>2. NoBuild \in 0..MaxBuilds BY BoundsAssumption DEF NoBuild
    <3>3. screen'[s] = IF screen[s].mode = "estimating"
                       THEN [screen[s] EXCEPT !.mode = "ready", !.estimate = NoBuild] ELSE screen[s]
      BY DEF SwRestart
    <3> QED BY <3>1, <3>2, <3>3 DEF ScreenRecords, ScreenFits, Modes
  <2>2. screen' \in [Surfaces -> ScreenRecords] BY <2>1 DEF SwRestart
  <2> QED BY <1>1, <2>1, <2>2 DEF ScreenTyped
<1>6. SetsTyped'
  <2>1. {jobs[i].build : i \in {j \in DOMAIN jobs : jobs[j].op = "save"}} \subseteq Made
    BY Bounds DEF JobFits
  <2> QED BY <1>1, <2>1 DEF TypeInv, SetsTyped, Made, SwRestart, chain
<1>7. InflightTyped' BY DEF InflightTyped, SwRestart
<1> QED BY <1>1, <1>3, <1>4, <1>5, <1>6, <1>7, Untouched DEF TypeInv, SwRestart

LEMMA RulesLostTypes == ASSUME TypeInv, NEW k \in Kinds, RulesLost(k) PROVE TypeInv'
<1>1. UNCHANGED <<builds, jobs>> BY DEF RulesLost, worker
<1>2. SetsTyped' BY <1>1 DEF TypeInv, SetsTyped, Made, RulesLost, worker, history
<1> QED BY <1>1, <1>2, Untouched DEF TypeInv, RulesLost, worker, history

LEMMA TickTypes == ASSUME TypeInv, Tick PROVE TypeInv' /\ Grown(builds, builds')
<1>1. Len(builds) \in Nat /\ DOMAIN builds = 1..Len(builds)
      /\ \A b \in 1..Len(builds) : builds[b] \in BuildRecords
  BY Bounds, LenProperties DEF TypeInv, BuildsTyped, Made
<1>2. \A b \in 1..Len(builds) : /\ builds'[b] = [builds[b] EXCEPT !.age = Older(@, BuildTTL)]
                                /\ builds'[b] \in BuildRecords
  BY <1>1, BoundsAssumption DEF Tick, Older, BuildRecords
<1>3. builds' \in [1..Len(builds) -> BuildRecords] BY <1>1, <1>2 DEF Tick
<1>4. builds' \in Seq(BuildRecords) /\ Len(builds') = Len(builds) BY <1>1, <1>3, SeqDef
<1>5. BuildsTyped' BY <1>4 DEF TypeInv, BuildsTyped
<1>6. Grown(builds, builds')
  <2>1. \A b \in 1..Len(builds) : builds'[b].draft = builds[b].draft /\ builds'[b].fee = builds[b].fee
    BY <1>1, <1>2 DEF BuildRecords
  <2> QED BY <1>1, <1>4, <2>1 DEF Grown, MadeIn
<1>7. OutcomeTyped'
  BY BoundsAssumption DEF TypeInv, OutcomeTyped, OutcomeRecords, Tick, Older
<1> QED BY <1>5, <1>6, <1>7, GrownTypes DEF TypeInv, Tick, worker, history

-----------------------------------------------------------------------------
LEMMA InitTypes == Init => TypeInv
<1> SUFFICES ASSUME Init PROVE TypeInv OBVIOUS
<1>1. /\ <<>> \in Seq(BuildRecords) /\ <<>> \in Seq(BuildIds) /\ <<>> \in Seq(JobRecords)
      /\ Len(<<>>) = 0 /\ Range(<<>>) = {} /\ DOMAIN <<>> = {}
  <2>1. <<>> \in Seq(BuildIds) /\ <<>> \in Seq(BuildRecords) /\ <<>> \in Seq(JobRecords) /\ Len(<<>>) = 0
    BY EmptySeq
  <2>2. DOMAIN <<>> = 1..0 BY <2>1, LenProperties
  <2> QED BY <2>1, <2>2 DEF Range
<1>2. BuildsTyped BY <1>1, BoundsAssumption DEF Init, BuildsTyped
<1>3. SetsTyped BY DEF Init, SetsTyped, Kind, Kinds
<1>4. HeldTyped BY <1>1, BoundsAssumption DEF Init, HeldTyped
<1>5. JobsTyped /\ TakesWait BY <1>1 DEF Init, JobsTyped, TakesWait, Takes
<1>6. NoBuild \in 0..MaxBuilds /\ 0 \in 0..MaxTries /\ 0 \in 0..(OutcomeTTL + 1)
  BY BoundsAssumption DEF NoBuild
<1>7. OutcomeTyped BY <1>6 DEF Init, OutcomeTyped, OutcomeRecords, NoOutcome
<1>8. InflightTyped BY DEF Init, InflightTyped
<1>9. CallTyped
  <2>1. IdleCall \in CallRecords /\ CallFits(IdleCall, builds)
    BY <1>6 DEF IdleCall, CallRecords, CallFits, Pcs, Running, Results, Reasons
  <2> QED BY <2>1 DEF Init, CallTyped
<1>10. ScreenTyped
  <2>1. Closed \in ScreenRecords /\ ScreenFits(Closed, builds)
    BY <1>6 DEF Closed, ScreenRecords, ScreenFits, Modes
  <2> QED BY <2>1 DEF Init, ScreenTyped
<1> QED BY <1>2, <1>3, <1>4, <1>5, <1>7, <1>8, <1>9, <1>10 DEF TypeInv

LEMMA StutterTypes == ASSUME TypeInv, UNCHANGED vars PROVE TypeInv'
  BY Untouched DEF TypeInv, vars, chain, worker, history

\* Every step keeps the type invariant.
LEMMA StepTypes == ASSUME TypeInv, [Next]_vars PROVE TypeInv'
<1>1. CASE UNCHANGED vars BY <1>1, StutterTypes
<1>2. ASSUME NEW s \in Surfaces, Screen(s) PROVE TypeInv'
  BY <1>2, OpenTypes, ConsumeOutcomeTypes, EstimateTypes, ConfirmExpiredTypes, CloseTypes,
     ChooseDraftTypes, RunSetupTypes, ConfirmTypes DEF Screen
<1>3. ASSUME NEW b \in BuildIds, BuildAnswered(b) \/ BuildRefused(b) PROVE TypeInv'
  BY <1>3, BuildAnsweredTypes, BuildRefusedTypes
<1>4. ASSUME NEW i \in DOMAIN jobs, Store(i) PROVE TypeInv'
  BY <1>4, StoreReadTypes, StoreSaveTypes, StoreTakeTypes DEF Store
<1>5. ASSUME NEW c \in Calls, Handle(c) PROVE TypeInv'
  BY <1>5, ArriveTypes, RebuildTypes, OutOfTriesTypes, SignTypes, SubmitTypes, FinishOutcomeTypes,
     ReplyTypes, HandleReplyTypes DEF Handle
<1>6. ASSUME NEW k \in Kinds, SetupEnds(k) \/ RulesLost(k) PROVE TypeInv'
  BY <1>6, SetupEndsTypes, RulesLostTypes
<1> QED BY <1>1, <1>2, <1>3, <1>4, <1>5, <1>6, SwRestartTypes, TickTypes DEF Next

\* Every variable holds what the code keeps in it, and each call, screen and
\* queued job fits the builds made so far: whatever is reviewed, taken or to be
\* signed is a build of that call's own draft.
THEOREM PipelineTyped == Spec => []TypeInv
<1>1. Init => TypeInv BY InitTypes
<1>2. TypeInv /\ [Next]_vars => TypeInv' BY StepTypes
<1> QED BY <1>1, <1>2, PTL DEF Spec

\* The type invariant the run checks, for any number of drafts, calls and builds.
THEOREM PipelineTypeOK == Spec => []TypeOK
<1>1. TypeInv => TypeOK BY TypeInvGivesTypeOK
<1> QED BY <1>1, PipelineTyped, PTL


-----------------------------------------------------------------------------
(* Runs and those who share them. *)
RunsListed ==
    \A c \in Calls : (call[c].op = "confirm" /\ call[c].pc \in Running)
                      => inflight[KeyOf[call[c].draft]] = c
ListedRun ==
    \A k \in Keys : inflight[k] # NoCall =>
        call[inflight[k]].pc \in Running /\ call[inflight[k]].op = "confirm"
SharedRun ==
    \A c \in Calls : call[c].pc = "shared" =>
        call[call[c].lead].pc \in Running /\ call[call[c].lead].op = "confirm"
RunInv == RunsListed /\ ListedRun /\ SharedRun

\* What a step of a run, or of its screen, does to a call: what the call is
\* about stays, a run stays a run and a caller that waits goes on waiting.
Goes(r, q) ==
    /\ q.op = r.op /\ q.draft = r.draft /\ q.shown = r.shown /\ q.surface = r.surface /\ q.lead = r.lead
    /\ r.pc \in Running <=> q.pc \in Running
    /\ (r.pc \in {"idle", "sent", "shared"} \/ q.pc \in {"idle", "sent", "shared"}) => q.pc = r.pc
    /\ r.pc \in {"replied", "done"} <=> q.pc \in {"replied", "done"}
AllGo == \A x \in Calls : Goes(call[x], call'[x])

LEMMA SameGoes == ASSUME UNCHANGED call PROVE AllGo
  BY DEF AllGo, Goes

LEMMA EndsGoes ==
  ASSUME TypeInv, NEW c \in Calls, call[c].pc \in Running, NEW res, NEW why, Ends(c, res, why)
  PROVE  AllGo
  BY CallOf DEF AllGo, Goes, Ends, Running, CallRecords, TypeInv, CallTyped

LEMMA StoreTakeGoes == ASSUME TypeInv, NEW i \in DOMAIN jobs, StoreTake(i) PROVE AllGo
<1> DEFINE c == jobs[i].call
<1>1. c \in Calls /\ call[c].pc = "take"
  BY Bounds DEF StoreTake, JobFits, TypeInv, TakesWait, Takes
<1>2. ASSUME NEW b, call' = [call EXCEPT ![c].pc = "sign", ![c].build = b] PROVE AllGo
  BY <1>1, <1>2, CallOf DEF AllGo, Goes, Running, CallRecords, TypeInv, CallTyped
<1> QED BY <1>1, <1>2, TakeOutcome, EndsGoes DEF Refuses, Running

LEMMA ToSetupGoes ==
  ASSUME TypeInv, NEW c \in Calls, call[c].pc \in Running,
         call' = [call EXCEPT ![c].pc = "setup", ![c].tries = @ + 1]
  PROVE  AllGo
  BY CallOf DEF AllGo, Goes, Running, CallRecords, TypeInv, CallTyped

LEMMA RebuildGoes == ASSUME TypeInv, NEW c \in Calls, Rebuild(c) PROVE AllGo
<1>1. call[c].pc \in Running BY DEF Rebuild, Running
<1>2. ASSUME NEW b, call' = [call EXCEPT ![c].pc = "sign", ![c].build = b] PROVE AllGo
  BY <1>1, <1>2, CallOf DEF AllGo, Goes, Running, CallRecords, TypeInv, CallTyped
<1>3. \/ Fails(c) \/ Refuses(c, "fee_changed")
      \/ call' = [call EXCEPT ![c].pc = "setup", ![c].tries = @ + 1]
      \/ \E b : call' = [call EXCEPT ![c].pc = "sign", ![c].build = b]
  BY DEF Rebuild
<1> QED BY <1>1, <1>2, <1>3, EndsGoes, ToSetupGoes DEF Fails, Refuses

LEMMA SubmitGoes == ASSUME TypeInv, NEW c \in Calls, Submit(c) PROVE AllGo
<1>1. call[c].pc \in Running BY DEF Submit, Running
<1>2. \/ Ends(c, "success", "none") \/ Fails(c) \/ Refuses(c, "setup_needed") \/ Ends(c, "failure", "rules")
      \/ call' = [call EXCEPT ![c].pc = "setup", ![c].tries = @ + 1]
  BY DEF Submit
<1> QED BY <1>1, <1>2, EndsGoes, ToSetupGoes DEF Fails, Refuses

LEMMA SignGoes == ASSUME TypeInv, NEW c \in Calls, Sign(c) PROVE AllGo
<1>1. call[c].pc \in Running BY DEF Sign, Running
<1>2. CASE call' = [call EXCEPT ![c].pc = "submit"]
  BY <1>1, <1>2, CallOf DEF AllGo, Goes, Running, CallRecords, TypeInv, CallTyped
<1> QED BY <1>1, <1>2, EndsGoes DEF Sign, Fails

LEMMA FinishOutcomeGoes == ASSUME TypeInv, NEW c \in Calls, FinishOutcome(c) PROVE AllGo
  BY CallOf DEF FinishOutcome, AllGo, Goes, Running, CallRecords, TypeInv, CallTyped

LEMMA HandleReplyGoes == ASSUME TypeInv, NEW c \in Calls, HandleReply(c) PROVE AllGo
  BY CallOf DEF HandleReply, AllGo, Goes, Running, CallRecords, TypeInv, CallTyped

LEMMA CloseGoes == ASSUME TypeInv, NEW s \in Surfaces, Close(s) PROVE AllGo
<1> SUFFICES ASSUME NEW c \in Calls PROVE Goes(call[c], call'[c]) BY DEF AllGo
<1> DEFINE o == call[c]
           p == IF o.pc = "replied" THEN "done" ELSE o.pc
<1>1. o \in CallRecords BY CallOf
<1>2. call'[c] = o \/ call'[c] = [o EXCEPT !.alive = FALSE, !.pc = p] BY DEF Close
<1> QED BY <1>1, <1>2 DEF Goes, Running, CallRecords

LEMMA SetupEndsGoes == ASSUME TypeInv, NEW k \in Kinds, SetupEnds(k) PROVE AllGo
<1> SUFFICES ASSUME NEW c \in Calls PROVE Goes(call[c], call'[c]) BY DEF AllGo
<1> DEFINE o == call[c]
<1>1. o \in CallRecords BY CallOf
<1>2. \/ call'[c] = o
      \/ o.pc = "setup" /\ \E res : call'[c] = [o EXCEPT !.pc = "finish", !.result = res]
      \/ o.pc = "setup" /\ call'[c] = [o EXCEPT !.pc = "finish", !.result = "failure", !.why = "other"]
      \/ o.pc = "setup" /\ call'[c] = [o EXCEPT !.pc = "build"]
  BY DEF SetupEnds
<1> QED BY <1>1, <1>2 DEF Goes, Running, CallRecords

\* The steps that start, share, answer or cut off a run.
Turning ==
    \/ \E s \in Surfaces, c \in Calls, op \in {"confirm", "setup"} :
          screen[s].mode \in {"needs", "ready"} /\ Send(s, c, op)
    \/ \E c \in Calls : Arrive(c) \/ Reply(c)
    \/ SwRestart

\* In every other step all calls go on.
LEMMA OtherSteps ==
  ASSUME TypeInv, [Next]_vars PROVE Turning \/ (AllGo /\ UNCHANGED inflight)
<1>1. CASE UNCHANGED vars BY <1>1, SameGoes DEF vars, worker
<1>2. ASSUME NEW s \in Surfaces, Screen(s) PROVE Turning \/ (AllGo /\ UNCHANGED inflight)
  <2>1. CASE Open(s) \/ ConsumeOutcome(s) \/ Estimate(s) \/ ConfirmExpired(s)
                \/ \E d \in Drafts : ChooseDraft(s, d)
    BY <2>1, SameGoes DEF Open, ConsumeOutcome, Estimate, ConfirmExpired, ChooseDraft, worker
  <2>2. CASE Close(s) BY <2>2, CloseGoes DEF Close, worker
  <2>3. CASE \E c \in Calls : RunSetup(s, c) \/ Confirm(s, c)
    BY <2>3 DEF Turning, RunSetup, Confirm
  <2> QED BY <1>2, <2>1, <2>2, <2>3 DEF Screen
<1>3. ASSUME NEW b \in BuildIds, BuildAnswered(b) \/ BuildRefused(b) PROVE AllGo /\ UNCHANGED inflight
  BY <1>3, SameGoes DEF BuildAnswered, BuildRefused
<1>4. ASSUME NEW i \in DOMAIN jobs, Store(i) PROVE AllGo /\ UNCHANGED inflight
  BY <1>4, SameGoes, StoreTakeGoes DEF Store, StoreRead, StoreSave, StoreTake
<1>5. ASSUME NEW c \in Calls, Handle(c) PROVE Turning \/ (AllGo /\ UNCHANGED inflight)
  <2>1. CASE Arrive(c) \/ Reply(c) BY <2>1 DEF Turning
  <2>2. CASE Rebuild(c) BY <2>2, RebuildGoes DEF Rebuild
  <2>3. CASE OutOfTries(c)
    BY <2>3, EndsGoes DEF OutOfTries, Fails, Running, worker
  <2>4. CASE Sign(c) BY <2>4, SignGoes DEF Sign, worker
  <2>5. CASE Submit(c) BY <2>5, SubmitGoes DEF Submit
  <2>6. CASE FinishOutcome(c) BY <2>6, FinishOutcomeGoes DEF FinishOutcome, worker
  <2>7. CASE HandleReply(c) BY <2>7, HandleReplyGoes DEF HandleReply, worker
  <2> QED BY <1>5, <2>1, <2>2, <2>3, <2>4, <2>5, <2>6, <2>7 DEF Handle
<1>6. ASSUME NEW k \in Kinds, SetupEnds(k) \/ RulesLost(k) PROVE AllGo /\ UNCHANGED inflight
  BY <1>6, SameGoes, SetupEndsGoes DEF SetupEnds, RulesLost, worker
<1>7. CASE SwRestart BY <1>7 DEF Turning
<1>8. CASE Tick BY <1>8, SameGoes DEF Tick, worker
<1> QED BY <1>1, <1>2, <1>3, <1>4, <1>5, <1>6, <1>7, <1>8 DEF Next

\* Where the key of a call under way is.
LEMMA KeyOfCall ==
  ASSUME TypeInv, NEW c \in Calls, call[c].pc # "idle"
  PROVE  call[c].draft \in Drafts /\ KeyOf[call[c].draft] \in Keys
  BY CallOf, KeysAssumption DEF CallFits

LEMMA GoRuns ==
  ASSUME TypeInv, RunInv, AllGo, UNCHANGED inflight PROVE RunInv'
<1>1. RunsListed' BY DEF RunInv, RunsListed, AllGo, Goes
<1>2. ListedRun'
  <2> SUFFICES ASSUME NEW k \in Keys, inflight[k] # NoCall
               PROVE  call'[inflight[k]].pc \in Running /\ call'[inflight[k]].op = "confirm"
    BY DEF ListedRun
  <2>1. inflight[k] \in Calls BY DEF TypeInv, InflightTyped
  <2> QED BY <2>1 DEF RunInv, ListedRun, AllGo, Goes
<1>3. SharedRun'
  <2> SUFFICES ASSUME NEW c \in Calls, call'[c].pc = "shared"
               PROVE  call'[call'[c].lead].pc \in Running /\ call'[call'[c].lead].op = "confirm"
    BY DEF SharedRun
  <2>1. call[c].pc = "shared" /\ call'[c].lead = call[c].lead BY DEF AllGo, Goes
  <2>2. call[c].lead \in Calls BY <2>1, CallOf DEF CallRecords, CallFits
  <2> QED BY <2>1, <2>2 DEF RunInv, SharedRun, AllGo, Goes
<1> QED BY <1>1, <1>2, <1>3 DEF RunInv

LEMMA SendRuns ==
  ASSUME TypeInv, RunInv, NEW s \in Surfaces, NEW c \in Calls, NEW op \in {"confirm", "setup"},
         Send(s, c, op)
  PROVE  RunInv'
<1>1. /\ call[c].pc = "idle" /\ call'[c].pc = "sent" /\ UNCHANGED inflight
      /\ \A x \in Calls \ {c} : call'[x] = call[x]
  BY DEF Send, IdleCall, worker, TypeInv, CallTyped
<1>2. \A k \in Keys : inflight[k] # c BY <1>1, CallsAssumption DEF RunInv, ListedRun, Running
<1>3. \A x \in Calls : call[x].pc = "shared" => call[x].lead # c BY <1>1 DEF RunInv, SharedRun, Running
<1>4. RunsListed' BY <1>1 DEF RunInv, RunsListed, Running
<1>5. ListedRun' BY <1>1, <1>2 DEF RunInv, ListedRun, TypeInv, InflightTyped
<1>6. SharedRun' BY <1>1, <1>3, CallOf DEF RunInv, SharedRun, CallRecords, CallFits
<1> QED BY <1>4, <1>5, <1>6 DEF RunInv

LEMMA ArriveRuns == ASSUME TypeInv, RunInv, NEW c \in Calls, Arrive(c) PROVE RunInv'
<1> DEFINE o == call[c]
           k == KeyOf[o.draft]
           lead == RunOf(c)
<1>1. o.pc = "sent" /\ o.draft \in Drafts /\ k \in Keys
  BY KeyOfCall DEF Arrive
<1>2. \A x \in Calls : call[x].pc = "shared" => call[x].lead # c /\ call[x].lead \in Calls
  BY <1>1, CallOf DEF RunInv, SharedRun, Running, CallRecords, CallFits
<1>3. \A e \in Keys : inflight[e] # c /\ inflight[e] \in Calls \cup {NoCall}
  BY <1>1, CallsAssumption DEF RunInv, ListedRun, Running, TypeInv, InflightTyped
<1>o. o \in CallRecords /\ lead = inflight[k] BY CallOf DEF RunOf
<1>4. CASE /\ o.op = "setup" /\ call' = [call EXCEPT ![c].pc = "setup"] /\ UNCHANGED inflight
  <2>1. /\ call'[c].op = "setup" /\ call'[c].pc = "setup" /\ \A x \in Calls \ {c} : call'[x] = call[x]
    BY <1>4, <1>o DEF TypeInv, CallTyped, CallRecords
  <2>2. RunsListed' BY <1>4, <2>1 DEF RunInv, RunsListed
  <2>3. ListedRun' BY <1>3, <1>4, <2>1 DEF RunInv, ListedRun
  <2>4. SharedRun' BY <1>2, <2>1 DEF RunInv, SharedRun
  <2> QED BY <2>2, <2>3, <2>4 DEF RunInv
<1>5. CASE /\ o.op = "confirm" /\ lead # NoCall /\ UNCHANGED inflight
           /\ call' = [call EXCEPT ![c].pc = "shared", ![c].lead = lead]
  <2>1. /\ call'[c].pc = "shared" /\ call'[c].lead = lead /\ \A x \in Calls \ {c} : call'[x] = call[x]
    BY <1>5, <1>o DEF TypeInv, CallTyped, CallRecords
  <2>2. RunsListed' BY <1>5, <2>1 DEF RunInv, RunsListed, Running
  <2>3. ListedRun' BY <1>3, <1>5, <2>1 DEF RunInv, ListedRun
  <2>4. lead \in Calls \ {c} /\ call[lead].pc \in Running /\ call[lead].op = "confirm"
    BY <1>1, <1>3, <1>5, <1>o DEF RunInv, ListedRun
  <2>5. SharedRun' BY <1>2, <2>1, <2>4 DEF RunInv, SharedRun
  <2> QED BY <2>2, <2>3, <2>5 DEF RunInv
<1>6. ASSUME o.op = "confirm", lead = NoCall, inflight' = [inflight EXCEPT ![k] = c],
             NEW p \in {"take", "build"}, call' = [call EXCEPT ![c].pc = p]
      PROVE  RunInv'
  <2>1. /\ call'[c].pc = p /\ call'[c].op = "confirm" /\ call'[c].draft = o.draft
        /\ \A x \in Calls \ {c} : call'[x] = call[x]
    BY <1>6, <1>o DEF TypeInv, CallTyped, CallRecords
  <2>2. inflight'[k] = c /\ \A e \in Keys \ {k} : inflight'[e] = inflight[e]
    BY <1>1, <1>6 DEF TypeInv, InflightTyped
  <2>3. RunsListed'
    <3> SUFFICES ASSUME NEW x \in Calls, call'[x].op = "confirm", call'[x].pc \in Running
                 PROVE  inflight'[KeyOf[call'[x].draft]] = x
      BY DEF RunsListed
    <3>1. CASE x = c BY <3>1, <2>1, <2>2
    <3>2. CASE x # c
      <4>1. call'[x] = call[x] /\ inflight[KeyOf[call[x].draft]] = x
        BY <3>2, <2>1 DEF RunInv, RunsListed
      <4>2. KeyOf[call[x].draft] \in Keys BY <4>1, KeyOfCall DEF Running
      <4>3. KeyOf[call[x].draft] # k BY <4>1, <1>6, <1>o, CallsAssumption
      <4> QED BY <4>1, <4>2, <4>3, <2>2
    <3> QED BY <3>1, <3>2
  <2>4. ListedRun' BY <1>3, <2>1, <2>2 DEF RunInv, ListedRun, Running
  <2>5. SharedRun' BY <1>2, <2>1 DEF RunInv, SharedRun
  <2> QED BY <2>3, <2>4, <2>5 DEF RunInv
<1>7. \/ o.op = "setup" /\ call' = [call EXCEPT ![c].pc = "setup"] /\ UNCHANGED inflight
      \/ /\ o.op = "confirm" /\ lead # NoCall /\ UNCHANGED inflight
         /\ call' = [call EXCEPT ![c].pc = "shared", ![c].lead = lead]
      \/ /\ o.op = "confirm" /\ lead = NoCall /\ inflight' = [inflight EXCEPT ![k] = c]
         /\ \E p \in {"take", "build"} : call' = [call EXCEPT ![c].pc = p]
  BY DEF Arrive
<1> QED BY <1>4, <1>5, <1>6, <1>7

\* When the promise settles nobody is left on the run.
LEMMA ReplyRuns == ASSUME TypeInv, RunInv, NEW c \in Calls, Reply(c) PROVE RunInv'
<1>1. call[c].pc = "reply" BY DEF Reply
<1>2. ASSUME NEW x \in Calls
      PROVE  /\ AwaitsRun(x, c) => call'[x].pc \in {"replied", "done"}
             /\ ~AwaitsRun(x, c) => call'[x] = call[x]
  BY CallOf DEF Reply, Answered, CallRecords
<1>3. \A k \in Keys : inflight'[k] = IF inflight[k] = c THEN NoCall ELSE inflight[k] BY DEF Reply
<1>4. RunsListed'
  <2> SUFFICES ASSUME NEW x \in Calls, call'[x].op = "confirm", call'[x].pc \in Running
               PROVE  inflight'[KeyOf[call'[x].draft]] = x
    BY DEF RunsListed
  <2>1. ~AwaitsRun(x, c) /\ call'[x] = call[x] BY <1>2 DEF Running
  <2>2. x # c BY <2>1 DEF AwaitsRun
  <2>3. KeyOf[call[x].draft] \in Keys BY <2>1, KeyOfCall DEF Running
  <2> QED BY <1>3, <2>1, <2>2, <2>3 DEF RunInv, RunsListed
<1>5. ListedRun'
  <2> SUFFICES ASSUME NEW k \in Keys, inflight'[k] # NoCall
               PROVE  call'[inflight'[k]].pc \in Running /\ call'[inflight'[k]].op = "confirm"
    BY DEF ListedRun
  <2> DEFINE x == inflight[k]
  <2>1. x # c /\ inflight'[k] = x /\ x # NoCall /\ x \in Calls BY <1>3 DEF TypeInv, InflightTyped
  <2>2. call[x].pc \in Running /\ call[x].op = "confirm" BY <2>1 DEF RunInv, ListedRun
  <2>3. ~AwaitsRun(x, c) BY <2>1, <2>2 DEF AwaitsRun, Running
  <2> QED BY <1>2, <2>1, <2>2, <2>3
<1>6. SharedRun'
  <2> SUFFICES ASSUME NEW x \in Calls, call'[x].pc = "shared"
               PROVE  call'[call'[x].lead].pc \in Running /\ call'[call'[x].lead].op = "confirm"
    BY DEF SharedRun
  <2>1. ~AwaitsRun(x, c) /\ call'[x] = call[x] BY <1>2
  <2> DEFINE l == call[x].lead
  <2>2. l # c BY <2>1 DEF AwaitsRun
  <2>3. l \in Calls BY <2>1, CallOf DEF CallRecords, CallFits
  <2>4. call[l].pc \in Running /\ call[l].op = "confirm" BY <2>1 DEF RunInv, SharedRun
  <2>5. ~AwaitsRun(l, c) BY <2>2, <2>4 DEF AwaitsRun, Running
  <2> QED BY <1>2, <2>1, <2>3, <2>4, <2>5
<1> QED BY <1>4, <1>5, <1>6 DEF RunInv

LEMMA SwRestartRuns == ASSUME TypeInv, SwRestart PROVE RunInv'
<1>1. ASSUME NEW x \in Calls PROVE call'[x].pc \notin Running \cup {"shared"}
  BY CallOf DEF SwRestart, Answered, CallRecords, Running
<1>2. \A k \in Keys : inflight'[k] = NoCall BY DEF SwRestart
<1> QED BY <1>1, <1>2 DEF RunInv, RunsListed, ListedRun, SharedRun

LEMMA StepRuns == ASSUME TypeInv, RunInv, [Next]_vars PROVE RunInv'
  BY OtherSteps, GoRuns, SendRuns, ArriveRuns, ReplyRuns, SwRestartRuns DEF Turning

LEMMA InitRuns == Init => RunInv
  BY DEF Init, RunInv, RunsListed, ListedRun, SharedRun, IdleCall, Running

LEMMA RunsAlways == Spec => []RunInv
<1>1. Init => RunInv BY InitRuns
<1>2. TypeInv /\ RunInv /\ [Next]_vars => RunInv' BY StepRuns
<1> QED BY <1>1, <1>2, PipelineTyped, PTL DEF Spec

\* Two Confirms of one key are never under way together: the second click, in
\* either surface, shares the run of the first, whatever is restarted between.
THEOREM OneRunOfAKey == Spec => []OneRunPerKey
<1>1. RunInv => OneRunPerKey BY DEF RunInv, RunsListed, OneRunPerKey
<1> QED BY <1>1, RunsAlways, PTL

-----------------------------------------------------------------------------
(* The store, and whose a build is. *)
Saves  == {i \in DOMAIN jobs : jobs[i].op = "save"}
Queued == {jobs[i].build : i \in Saves}
Loose  == building \cup Range(held) \cup Queued

\* One job at a time: only the first has read, and nothing was written since.
OneAtATime == \A i \in DOMAIN jobs : jobs[i].read => i = 1 /\ jobs[i].copy = held

\* A build is in one place: its reply to come, its save queued, in the store.
Once  == \A i, j \in Saves : jobs[i].build = jobs[j].build => i = j
Apart == /\ building \cap Range(held) = {} /\ building \cap Queued = {}
         /\ Queued \cap Range(held) = {}
         /\ Once

\* Call c took or made build b to sign it, or signed it.
Owns(c, b) == <<c, b>> \in signed \/ (call[c].build = b /\ b # NoBuild)
OneOwner ==
    \A c \in Calls, b \in Made : Owns(c, b) => b \notin Loose /\ \A e \in Calls : Owns(e, b) => c = e
SignedFits ==
    \A c \in Calls, b \in Made : <<c, b>> \in signed =>
        builds[b].draft = call[c].draft /\ builds[b].fee = FeeOf(call[c].shown)

StoreInv == OneAtATime /\ Apart /\ OneOwner /\ SignedFits

\* What a call is about stays, once it is sent.
AboutKept ==
    \A x \in Calls : call[x] # IdleCall =>
        call'[x].draft = call[x].draft /\ call'[x].shown = call[x].shown
BuildKept == \A x \in Calls : call'[x].build = call[x].build

LEMMA AboutSteps == ASSUME TypeInv, [Next]_vars PROVE AboutKept
<1>1. CASE AllGo BY <1>1 DEF AllGo, Goes, AboutKept
<1>2. ASSUME NEW s \in Surfaces, NEW c \in Calls, NEW op, Send(s, c, op) PROVE AboutKept
  BY <1>2 DEF Send, AboutKept, TypeInv, CallTyped
<1>3. ASSUME NEW c \in Calls, Arrive(c) PROVE AboutKept
  <2>1. call[c] \in CallRecords BY CallOf
  <2>2. \/ \E p : call' = [call EXCEPT ![c].pc = p]
        \/ \E l : call' = [call EXCEPT ![c].pc = "shared", ![c].lead = l]
    BY <1>3 DEF Arrive
  <2> QED BY <2>1, <2>2 DEF AboutKept, TypeInv, CallTyped, CallRecords
<1>4. ASSUME NEW c \in Calls, Reply(c) PROVE AboutKept
  BY <1>4, CallOf DEF Reply, Answered, AboutKept, CallRecords
<1>5. CASE SwRestart BY <1>5, CallOf DEF SwRestart, Answered, AboutKept, CallRecords
<1> QED BY <1>1, <1>2, <1>3, <1>4, <1>5, OtherSteps DEF Turning

LEMMA GrownSteps == ASSUME TypeInv, [Next]_vars PROVE Grown(builds, builds')
<1>1. UNCHANGED builds => Grown(builds, builds') BY LenProperties DEF Grown, TypeInv, BuildsTyped
<1>2. ASSUME NEW d \in Drafts, NEW f \in Fees, NEW ok \in BOOLEAN, Len(builds) < MaxBuilds,
             builds' = Append(builds, [draft |-> d, fee |-> f, age |-> 0, ok |-> ok])
      PROVE  Grown(builds, builds')
  BY <1>2, MoreBuilds
<1>3. CASE UNCHANGED vars BY <1>1, <1>3 DEF vars, chain
<1>4. ASSUME NEW s \in Surfaces, Screen(s) PROVE Grown(builds, builds')
  <2>1. CASE Estimate(s)
    <3>1. screen[s].draft \in Drafts /\ Len(builds) < MaxBuilds
      BY <2>1 DEF Estimate, TypeInv, ScreenTyped, ScreenRecords
    <3> DEFINE ok == Kind(screen[s].draft) \in ruled
    <3>2. ok \in BOOLEAN OBVIOUS
    <3>3. PICK f \in Fees :
            builds' = Append(builds, [draft |-> screen[s].draft, fee |-> f, age |-> 0, ok |-> ok])
      BY <2>1 DEF Estimate
    <3> HIDE DEF ok
    <3> QED BY <1>2, <3>1, <3>2, <3>3
  <2>2. CASE ~Estimate(s)
    BY <1>1, <1>4, <2>2 DEF Screen, Open, ConsumeOutcome, ConfirmExpired, ChooseDraft, RunSetup,
                            Confirm, Send, Close, chain
  <2> QED BY <2>1, <2>2
<1>5. ASSUME NEW b \in BuildIds, BuildAnswered(b) \/ BuildRefused(b) PROVE Grown(builds, builds')
  BY <1>1, <1>5 DEF BuildAnswered, BuildRefused, chain
<1>6. ASSUME NEW i \in DOMAIN jobs, Store(i) PROVE Grown(builds, builds')
  BY <1>1, <1>6 DEF Store, StoreRead, StoreSave, StoreTake, chain
<1>7. ASSUME NEW c \in Calls, Handle(c) PROVE Grown(builds, builds')
  <2>1. CASE Rebuild(c)
    <3>1. call[c].draft \in Drafts BY <2>1, KeyOfCall DEF Rebuild
    <3>2. \/ UNCHANGED builds
          \/ /\ Len(builds) < MaxBuilds
             /\ \E f \in Fees, ok \in BOOLEAN :
                  builds' = Append(builds, [draft |-> call[c].draft, fee |-> f, age |-> 0, ok |-> ok])
      BY <2>1 DEF Rebuild
    <3> QED BY <1>1, <1>2, <3>1, <3>2
  <2>2. CASE ~Rebuild(c)
    BY <1>1, <1>7, <2>2 DEF Handle, Arrive, OutOfTries, Sign, Submit, FinishOutcome, Reply,
                            HandleReply, chain
  <2> QED BY <2>1, <2>2
<1>8. ASSUME NEW k \in Kinds, SetupEnds(k) \/ RulesLost(k) PROVE Grown(builds, builds')
  BY <1>1, <1>8 DEF SetupEnds, RulesLost
<1>9. CASE SwRestart BY <1>1, <1>9 DEF SwRestart, chain
<1> QED BY <1>3, <1>4, <1>5, <1>6, <1>7, <1>8, <1>9, TickTypes DEF Next

\* Only a take and a run without a review give a call a build.
LEMMA BuildSteps ==
  ASSUME TypeInv, [Next]_vars
  PROVE  BuildKept \/ (\E i \in DOMAIN jobs : StoreTake(i)) \/ (\E c \in Calls : Rebuild(c))
<1>1. UNCHANGED call => BuildKept BY DEF BuildKept
<1>2. ASSUME NEW c \in Calls, NEW res, NEW why, Ends(c, res, why) PROVE BuildKept
  BY <1>2, CallOf DEF Ends, BuildKept, TypeInv, CallTyped, CallRecords
<1>3. CASE UNCHANGED vars BY <1>1, <1>3 DEF vars
<1>4. ASSUME NEW s \in Surfaces, Screen(s) PROVE BuildKept
  <2>1. CASE Close(s)
    <3> SUFFICES ASSUME NEW c \in Calls PROVE call'[c].build = call[c].build BY DEF BuildKept
    <3>1. \/ call'[c] = call[c]
          \/ \E p : call'[c] = [call[c] EXCEPT !.alive = FALSE, !.pc = p]
      BY <2>1 DEF Close
    <3> QED BY <3>1, CallOf DEF CallRecords
  <2>2. CASE \E c \in Calls : RunSetup(s, c) \/ Confirm(s, c)
    <3>1. PICK c \in Calls, op \in {"confirm", "setup"} : Send(s, c, op)
      BY <2>2 DEF RunSetup, Confirm
    <3> QED BY <3>1 DEF Send, IdleCall, BuildKept, TypeInv, CallTyped
  <2>3. CASE ~Close(s) /\ ~\E c \in Calls : RunSetup(s, c) \/ Confirm(s, c)
    BY <1>1, <1>4, <2>3 DEF Screen, Open, ConsumeOutcome, ConfirmExpired, ChooseDraft, Estimate
  <2> QED BY <2>1, <2>2, <2>3
<1>5. ASSUME NEW b \in BuildIds, BuildAnswered(b) \/ BuildRefused(b) PROVE BuildKept
  BY <1>1, <1>5 DEF BuildAnswered, BuildRefused
<1>6. ASSUME NEW i \in DOMAIN jobs, StoreRead(i) \/ StoreSave(i) PROVE BuildKept
  BY <1>1, <1>6 DEF StoreRead, StoreSave
<1>7. ASSUME NEW c \in Calls, Handle(c), ~Rebuild(c) PROVE BuildKept
  <2>c. call[c] \in CallRecords BY CallOf
  <2>1. ASSUME NEW p, call' = [call EXCEPT ![c].pc = p] PROVE BuildKept
    BY <2>c, <2>1 DEF BuildKept, TypeInv, CallTyped, CallRecords
  <2>2. ASSUME NEW p, NEW l, call' = [call EXCEPT ![c].pc = p, ![c].lead = l] PROVE BuildKept
    BY <2>c, <2>2 DEF BuildKept, TypeInv, CallTyped, CallRecords
  <2>3. ASSUME NEW p, NEW t, call' = [call EXCEPT ![c].pc = p, ![c].tries = t] PROVE BuildKept
    BY <2>c, <2>3 DEF BuildKept, TypeInv, CallTyped, CallRecords
  <2>4. CASE Arrive(c)
    <3>1. \/ \E p : call' = [call EXCEPT ![c].pc = p]
          \/ \E l : call' = [call EXCEPT ![c].pc = "shared", ![c].lead = l]
      BY <2>4 DEF Arrive
    <3> QED BY <2>1, <2>2, <3>1
  <2>5. CASE OutOfTries(c) BY <1>2, <2>5 DEF OutOfTries, Fails
  <2>6. CASE Sign(c) BY <1>2, <2>1, <2>6 DEF Sign, Fails
  <2>7. CASE Submit(c)
    <3>1. \/ \E res, why : Ends(c, res, why)
          \/ call' = [call EXCEPT ![c].pc = "setup", ![c].tries = @ + 1]
      BY <2>7 DEF Submit, Fails, Refuses
    <3>2. CASE call' = [call EXCEPT ![c].pc = "setup", ![c].tries = @ + 1]
      BY <2>c, <3>2 DEF BuildKept, TypeInv, CallTyped, CallRecords
    <3> QED BY <1>2, <3>1, <3>2
  <2>8. CASE FinishOutcome(c) \/ HandleReply(c) BY <2>1, <2>8 DEF FinishOutcome, HandleReply
  <2>9. CASE Reply(c) BY <2>9, CallOf DEF Reply, Answered, BuildKept, CallRecords
  <2> QED BY <1>7, <2>4, <2>5, <2>6, <2>7, <2>8, <2>9 DEF Handle
<1>8. ASSUME NEW k \in Kinds, SetupEnds(k) \/ RulesLost(k) PROVE BuildKept
  <2>1. CASE RulesLost(k) BY <1>1, <2>1 DEF RulesLost
  <2>2. CASE SetupEnds(k)
    <3> SUFFICES ASSUME NEW c \in Calls PROVE call'[c].build = call[c].build BY DEF BuildKept
    <3>1. \/ call'[c] = call[c]
          \/ \E res : call'[c] = [call[c] EXCEPT !.pc = "finish", !.result = res]
          \/ call'[c] = [call[c] EXCEPT !.pc = "finish", !.result = "failure", !.why = "other"]
          \/ call'[c] = [call[c] EXCEPT !.pc = "build"]
      BY <2>2 DEF SetupEnds
    <3> QED BY <3>1, CallOf DEF CallRecords
  <2> QED BY <1>8, <2>1, <2>2
<1>9. CASE SwRestart BY <1>9, CallOf DEF SwRestart, Answered, BuildKept, CallRecords
<1>10. CASE Tick BY <1>1, <1>10 DEF Tick
<1> QED BY <1>3, <1>4, <1>5, <1>6, <1>7, <1>8, <1>9, <1>10 DEF Next, Store

\* A job joins the end of the queue.
LEMMA QueueGrown ==
  ASSUME TypeInv, Once, OneAtATime, UNCHANGED held, NEW r \in JobRecords, jobs' = Append(jobs, r),
         r.read = FALSE, r.op = "save" => r.build \notin Queued
  PROVE  /\ Once' /\ OneAtATime'
         /\ Queued' = Queued \cup (IF r.op = "save" THEN {r.build} ELSE {})
<1> DEFINE n == Len(jobs) + 1
<1>1. /\ jobs'[n] = r /\ DOMAIN jobs' = DOMAIN jobs \cup {n} /\ n \notin DOMAIN jobs
      /\ \A i \in DOMAIN jobs : jobs'[i] = jobs[i]
  BY Bounds, AppendProperties, LenProperties DEF TypeInv, JobsTyped
<1> HIDE DEF n
<1>2. Saves' = Saves \cup (IF r.op = "save" THEN {n} ELSE {}) BY <1>1 DEF Saves
<1>3. Queued' = Queued \cup (IF r.op = "save" THEN {r.build} ELSE {}) BY <1>1, <1>2 DEF Queued, Saves
<1>4. ASSUME NEW i \in Saves', NEW j \in Saves', jobs'[i].build = jobs'[j].build PROVE i = j
  BY <1>1, <1>2, <1>4 DEF Once, Queued, Saves
<1>5. Once' BY <1>4, Zenon DEF Once
<1>6. OneAtATime' BY <1>1 DEF OneAtATime
<1> QED BY <1>3, <1>5, <1>6

\* The first job leaves the queue, and no other has read.
LEMMA QueueDone ==
  ASSUME TypeInv, Once, OneAtATime, NEW i \in DOMAIN jobs, i = 1, jobs' = RemoveAt(jobs, i)
  PROVE  /\ Once' /\ OneAtATime' /\ Queued' \subseteq Queued
         /\ i \in Saves => jobs[i].build \notin Queued'
<1>1. ASSUME NEW j \in DOMAIN jobs'
      PROVE  After(i, j) = j + 1 /\ After(i, j) \in DOMAIN jobs /\ After(i, j) # i /\ jobs'[j] = jobs[After(i, j)]
  BY JobDone, Bounds DEF After
<1>2. \A j \in Saves' : /\ j \in DOMAIN jobs' /\ After(i, j) \in Saves /\ After(i, j) # i /\ jobs'[j] = jobs[After(i, j)]
  BY <1>1 DEF Saves
<1>3. Queued' \subseteq Queued BY <1>2 DEF Queued
<1>4. i \in Saves => jobs[i].build \notin Queued' BY <1>2 DEF Queued, Once
<1>5. ASSUME NEW j \in Saves', NEW k \in Saves', jobs'[j].build = jobs'[k].build PROVE j = k
  <2>1. After(i, j) = After(i, k) BY <1>2, <1>5 DEF Once
  <2>2. j \in Int /\ k \in Int BY <1>2, JobDone, Bounds
  <2> QED BY <1>1, <1>2, <2>1, <2>2
<1>6. Once' BY <1>5, Zenon DEF Once
<1>7. OneAtATime' BY <1>1 DEF OneAtATime
<1> QED BY <1>3, <1>4, <1>6, <1>7

\* Nothing comes loose, but the builds this step makes.
StaysTaken == Loose' \cap Made \subseteq Loose
StoreKept  == OneAtATime' /\ Apart' /\ StaysTaken

LEMMA SameStore ==
  ASSUME OneAtATime, Apart, UNCHANGED <<building, held, jobs>> PROVE StoreKept
<1>1. Saves' = Saves /\ Queued' = Queued BY DEF Saves, Queued
<1> QED BY <1>1 DEF StoreKept, StaysTaken, OneAtATime, Apart, Once, Loose

LEMMA EstimateStore ==
  ASSUME TypeInv, OneAtATime, Apart, NEW s \in Surfaces, Estimate(s) PROVE StoreKept
<1>1. UNCHANGED <<held, jobs>> /\ building' = building \cup {Len(builds')} /\ Len(builds') = Len(builds) + 1
  BY LenProperties, AppendProperties DEF Estimate, TypeInv, BuildsTyped
<1>2. Saves' = Saves /\ Queued' = Queued /\ Range(held') = Range(held) BY <1>1 DEF Saves, Queued
<1>3. Len(builds') \notin Made BY <1>1, Bounds DEF Made
<1>4. Range(held) \subseteq Made /\ Queued \subseteq Made
  BY Bounds DEF TypeInv, HeldTyped, Queued, Saves, JobFits
<1> QED BY <1>1, <1>2, <1>3, <1>4 DEF StoreKept, StaysTaken, OneAtATime, Apart, Once, Loose

LEMMA BuildAnsweredStore ==
  ASSUME TypeInv, OneAtATime, Apart, NEW b \in BuildIds, BuildAnswered(b) PROVE StoreKept
<1> DEFINE r == [op |-> "save", build |-> b, call |-> NoCall, read |-> FALSE, copy |-> <<>>]
<1>1. b \in building /\ building' = building \ {b} /\ jobs' = Append(jobs, r) /\ UNCHANGED held
  BY DEF BuildAnswered
<1>2. r \in JobRecords /\ r.op = "save" /\ r.build = b /\ r.read = FALSE
  BY BoundsAssumption, EmptySeq DEF JobRecords, BuildIds
<1> HIDE DEF r
<1>3. Once' /\ OneAtATime' /\ Queued' = Queued \cup {b}
  BY <1>1, <1>2, QueueGrown DEF Apart
<1> QED BY <1>1, <1>3 DEF StoreKept, StaysTaken, Apart, Loose

LEMMA ArriveStore ==
  ASSUME TypeInv, OneAtATime, Apart, NEW c \in Calls, Arrive(c) PROVE StoreKept
<1>1. CASE UNCHANGED jobs BY <1>1, SameStore DEF Arrive
<1> DEFINE r == [op |-> "take", build |-> NoBuild, call |-> c, read |-> FALSE, copy |-> <<>>]
<1>2. CASE jobs' = Append(jobs, r)
  <2>1. NoBuild \in 0..MaxBuilds BY BoundsAssumption DEF NoBuild
  <2>2. r \in JobRecords /\ r.op = "take" /\ r.read = FALSE
    BY <2>1, EmptySeq DEF JobRecords
  <2> HIDE DEF r
  <2>3. UNCHANGED <<held, building>> BY DEF Arrive
  <2>4. Once' /\ OneAtATime' /\ Queued' = Queued BY <1>2, <2>2, <2>3, QueueGrown DEF Apart
  <2> QED BY <2>3, <2>4 DEF StoreKept, StaysTaken, Apart, Loose
<1> QED BY <1>1, <1>2 DEF Arrive

LEMMA StoreReadStore ==
  ASSUME TypeInv, OneAtATime, Apart, NEW i \in DOMAIN jobs, StoreRead(i) PROVE StoreKept
<1> DEFINE r == [jobs[i] EXCEPT !.read = TRUE, !.copy = held]
<1>1. jobs' = [jobs EXCEPT ![i] = r] /\ UNCHANGED <<building, held>> /\ i = 1 BY DEF StoreRead, Turn
<1>2. r.op = jobs[i].op /\ r.build = jobs[i].build /\ r.copy = held
  BY Bounds DEF JobRecords
<1> HIDE DEF r
<1>3. DOMAIN jobs' = DOMAIN jobs /\ \A j \in DOMAIN jobs : jobs'[j] = IF j = i THEN r ELSE jobs[j]
  BY <1>1
<1>4. Saves' = Saves /\ \A j \in Saves : jobs'[j].build = jobs[j].build BY <1>2, <1>3 DEF Saves
<1>5. Queued' = Queued BY <1>4 DEF Queued
<1>6. Once' BY <1>4 DEF Apart, Once
<1>7. OneAtATime' BY <1>1, <1>2, <1>3 DEF OneAtATime
<1> QED BY <1>1, <1>5, <1>6, <1>7 DEF StoreKept, StaysTaken, Apart, Loose

LEMMA StoreSaveStore ==
  ASSUME TypeInv, OneAtATime, Apart, NEW i \in DOMAIN jobs, StoreSave(i) PROVE StoreKept
<1> DEFINE b == jobs[i].build
<1>1. i = 1 /\ i \in Saves /\ jobs[i].copy = held /\ b \in Queued /\ UNCHANGED building
  BY DEF StoreSave, Turn, Saves, Queued, OneAtATime
<1>2. b \in Made /\ held \in Seq(BuildIds) BY <1>1, Bounds DEF Saves, JobFits, TypeInv, HeldTyped
<1>3. Range(held') \subseteq Range(held) \cup {b} BY <1>1, <1>2, SavedProperties DEF StoreSave
<1>4. Once' /\ OneAtATime' /\ Queued' \subseteq Queued /\ b \notin Queued'
  BY <1>1, QueueDone DEF StoreSave, Apart
<1> QED BY <1>1, <1>3, <1>4 DEF StoreKept, StaysTaken, Apart, Loose

\* What a take finds leaves the store.
LEMMA StoreTakeStore ==
  ASSUME TypeInv, OneAtATime, Apart, NEW i \in DOMAIN jobs, StoreTake(i)
  PROVE  StoreKept /\ Entry(i) \subseteq Loose /\ Entry(i) \cap Loose' = {}
<1> DEFINE d == call[jobs[i].call].draft
           w == Without(jobs[i].copy, d)
<1>1. i = 1 /\ jobs[i].copy = held /\ UNCHANGED <<builds, building>> /\ jobs' = RemoveAt(jobs, i)
  BY DEF StoreTake, Turn, OneAtATime, chain
<1>2. Range(w) = {b \in Range(held) \cap Made : builds[b].draft # d}
  BY <1>1, WithoutProperties DEF TypeInv, HeldTyped
<1>3. held' = IF Entry(i) = {} THEN held ELSE w BY DEF StoreTake, Entry
<1>4. Entry(i) = {b \in Range(held) : builds[b].draft = d} BY <1>1 DEF Entry
<1> HIDE DEF w, d
<1>5. Range(held') \subseteq Range(held) /\ Entry(i) \cap Range(held') = {} BY <1>2, <1>3, <1>4
<1>6. Once' /\ OneAtATime' /\ Queued' \subseteq Queued BY <1>1, QueueDone DEF Apart
<1> QED BY <1>1, <1>4, <1>5, <1>6 DEF StoreKept, StaysTaken, Apart, Loose

LEMMA SwRestartStore ==
  ASSUME OneAtATime, Apart, SwRestart PROVE StoreKept
<1>1. building' = {} /\ jobs' = <<>> /\ UNCHANGED held BY DEF SwRestart
<1>2. DOMAIN jobs' = {} BY <1>1
<1>3. Saves' = {} /\ Queued' = {} BY <1>2 DEF Saves, Queued
<1> QED BY <1>1, <1>2, <1>3 DEF StoreKept, StaysTaken, OneAtATime, Apart, Once, Loose

LEMMA StoreSteps ==
  ASSUME TypeInv, OneAtATime, Apart, [Next]_vars PROVE StoreKept
<1>1. CASE UNCHANGED vars BY <1>1, SameStore DEF vars, worker
<1>2. ASSUME NEW s \in Surfaces, Screen(s) PROVE StoreKept
  BY <1>2, SameStore, EstimateStore
     DEF Screen, Open, ConsumeOutcome, ConfirmExpired, ChooseDraft, RunSetup, Confirm, Send, Close, worker
<1>3. ASSUME NEW b \in BuildIds, BuildRefused(b) PROVE StoreKept
  <2>1. UNCHANGED <<held, jobs>> /\ building' \subseteq building BY <1>3 DEF BuildRefused
  <2>2. Saves' = Saves /\ Queued' = Queued BY <2>1 DEF Saves, Queued
  <2> QED BY <2>1, <2>2 DEF StoreKept, StaysTaken, OneAtATime, Apart, Once, Loose
<1>4. ASSUME NEW i \in DOMAIN jobs, Store(i) PROVE StoreKept
  BY <1>4, StoreReadStore, StoreSaveStore, StoreTakeStore DEF Store
<1>5. ASSUME NEW c \in Calls, Handle(c) PROVE StoreKept
  BY <1>5, SameStore, ArriveStore
     DEF Handle, Rebuild, OutOfTries, Sign, Submit, FinishOutcome, Reply, HandleReply, worker
<1>6. ASSUME NEW k \in Kinds, SetupEnds(k) \/ RulesLost(k) PROVE StoreKept
  BY <1>6, SameStore DEF SetupEnds, RulesLost, worker
<1>7. CASE Tick BY <1>7, SameStore DEF Tick, worker
<1> QED BY <1>1, <1>2, <1>3, <1>4, <1>5, <1>6, <1>7, BuildAnsweredStore, SwRestartStore DEF Next

\* A step signs nothing, or what its call took or made to sign.
LEMMA SignedSteps ==
  ASSUME [Next]_vars PROVE UNCHANGED signed \/ \E c \in Calls : Sign(c)
<1>1. CASE UNCHANGED vars BY <1>1 DEF vars, history
<1>2. ASSUME NEW s \in Surfaces, Screen(s) PROVE UNCHANGED signed
  BY <1>2 DEF Screen, Open, ConsumeOutcome, Estimate, ConfirmExpired, ChooseDraft, RunSetup, Confirm,
              Send, Close, history
<1>3. ASSUME NEW b \in BuildIds, BuildAnswered(b) \/ BuildRefused(b) PROVE UNCHANGED signed
  BY <1>3 DEF BuildAnswered, BuildRefused, history
<1>4. ASSUME NEW i \in DOMAIN jobs, Store(i) PROVE UNCHANGED signed
  BY <1>4 DEF Store, StoreRead, StoreSave, StoreTake, history
<1>5. ASSUME NEW c \in Calls, Handle(c) PROVE UNCHANGED signed \/ Sign(c)
  BY <1>5 DEF Handle, Arrive, Rebuild, OutOfTries, Submit, FinishOutcome, Reply, HandleReply, history
<1>6. ASSUME NEW k \in Kinds, SetupEnds(k) \/ RulesLost(k) PROVE UNCHANGED signed
  BY <1>6 DEF SetupEnds, RulesLost, history
<1>7. CASE SwRestart \/ Tick BY <1>7 DEF SwRestart, Tick, history
<1> QED BY <1>1, <1>2, <1>3, <1>4, <1>5, <1>6, <1>7 DEF Next

\* At most one build gets an owner, call c, and had none.
LEMMA OwnersStep ==
  ASSUME TypeInv, OneOwner, StaysTaken, NEW c, NEW b,
         \A x \in Calls, y \in Made' : Owns(x, y)' =>
            Owns(x, y) \/ (x = c /\ y = b /\ y \notin Loose' /\ \A e \in Calls : ~Owns(e, y))
  PROVE  OneOwner'
<1>1. ASSUME NEW x \in Calls, NEW y \in Made', Owns(x, y) PROVE y \in Made
  BY <1>1, CallOf, Bounds DEF Owns, TypeInv, SetsTyped, CallFits
<1>2. ASSUME NEW x \in Calls, NEW y \in Made', Owns(x, y)'
      PROVE  y \notin Loose' /\ \A e \in Calls : Owns(e, y)' => x = e
  <2>1. CASE Owns(x, y)
    <3>1. y \notin Loose /\ \A e \in Calls : Owns(e, y) => x = e BY <1>1, <2>1 DEF OneOwner
    <3>2. y \notin Loose' BY <1>1, <2>1, <3>1 DEF StaysTaken
    <3> QED BY <2>1, <3>1, <3>2
  <2>2. CASE ~Owns(x, y) BY <1>2, <2>2
  <2> QED BY <2>1, <2>2
<1> QED BY <1>2, Zenon DEF OneOwner

LEMMA OwnersSteps ==
  ASSUME TypeInv, OneAtATime, Apart, OneOwner, [Next]_vars PROVE OneOwner'
<1>1. StaysTaken BY StoreSteps DEF StoreKept
<1>2. CASE BuildKept /\ UNCHANGED signed
  <2>1. \A x \in Calls, y \in Made' : Owns(x, y)' => Owns(x, y) BY <1>2 DEF Owns, BuildKept
  <2> QED BY <1>1, <2>1, OwnersStep
<1>3. ASSUME BuildKept, NEW c \in Calls, Sign(c) PROVE OneOwner'
  <2>1. signed' = signed \cup {<<c, call[c].build>>} \/ UNCHANGED signed BY <1>3 DEF Sign
  <2>2. call[c].build # NoBuild BY <1>3, CallOf DEF Sign, CallFits
  <2>3. \A x \in Calls, y \in Made' : Owns(x, y)' => Owns(x, y)
    BY <1>3, <2>1, <2>2 DEF Owns, BuildKept
  <2> QED BY <1>1, <2>3, OwnersStep
<1>4. ASSUME NEW i \in DOMAIN jobs, StoreTake(i) PROVE OneOwner'
  <2>1. PICK c : c = jobs[i].call OBVIOUS
  <2>2. UNCHANGED signed /\ c \in Calls BY <1>4, <2>1, Bounds DEF StoreTake, JobFits
  <2>3. CASE BuildKept BY <1>2, <2>2, <2>3
  <2>4. ASSUME NEW b \in Entry(i), call' = [call EXCEPT ![c].pc = "sign", ![c].build = b]
        PROVE  OneOwner'
    <3>1. b \in Loose /\ b \notin Loose' BY <1>4, <2>4, StoreTakeStore
    <3>2. b \in Made BY <1>4, <2>4, Bounds DEF Entry, JobFits
    <3>3. \A e \in Calls : ~Owns(e, b) BY <3>1, <3>2 DEF OneOwner
    <3>4. \A x \in Calls : call'[x].build = IF x = c THEN b ELSE call[x].build
      BY <2>2, <2>4, CallOf DEF CallRecords, TypeInv, CallTyped
    <3>5. \A x \in Calls, y \in Made' : Owns(x, y)' => Owns(x, y) \/ (x = c /\ y = b)
      BY <2>2, <3>4 DEF Owns
    <3> QED BY <1>1, <3>1, <3>3, <3>5, OwnersStep
  <2>5. BuildKept \/ \E b \in Entry(i) : call' = [call EXCEPT ![c].pc = "sign", ![c].build = b]
    <3>1. ASSUME NEW why, Refuses(c, why) PROVE BuildKept
      BY <2>2, <3>1, CallOf DEF Refuses, Ends, BuildKept, TypeInv, CallTyped, CallRecords
    <3> QED BY <1>4, <2>1, <3>1, TakeOutcome
  <2> QED BY <2>3, <2>4, <2>5
<1>5. ASSUME NEW c \in Calls, Rebuild(c) PROVE OneOwner'
  <2>1. UNCHANGED <<building, held, jobs, signed>> BY <1>5 DEF Rebuild, history
  <2>2. Loose' \subseteq Made
    <3>1. Saves' = Saves /\ Queued' = Queued BY <2>1 DEF Saves, Queued
    <3>2. Queued \subseteq Made BY Bounds DEF Queued, Saves, JobFits
    <3> QED BY <2>1, <3>1, <3>2 DEF Loose, TypeInv, SetsTyped, HeldTyped
  <2>3. CASE BuildKept BY <1>2, <2>1, <2>3
  <2>4. ASSUME NEW b, b \notin Made, call' = [call EXCEPT ![c].pc = "sign", ![c].build = b]
        PROVE  OneOwner'
    <3>1. \A e \in Calls : ~Owns(e, b)
      BY <2>4, CallOf, Bounds DEF Owns, TypeInv, SetsTyped, CallFits
    <3>2. \A x \in Calls : call'[x].build = IF x = c THEN b ELSE call[x].build
      BY <2>4, CallOf DEF CallRecords, TypeInv, CallTyped
    <3>3. \A x \in Calls, y \in Made' : Owns(x, y)' => Owns(x, y) \/ (x = c /\ y = b)
      BY <2>1, <3>2 DEF Owns
    <3> QED BY <1>1, <2>2, <2>4, <3>1, <3>3, OwnersStep
  <2>5. BuildKept \/ \E b : b \notin Made /\ call' = [call EXCEPT ![c].pc = "sign", ![c].build = b]
    <3>1. ASSUME NEW res, NEW why, Ends(c, res, why) PROVE BuildKept
      BY <3>1, CallOf DEF Ends, BuildKept, TypeInv, CallTyped, CallRecords
    <3>2. CASE call' = [call EXCEPT ![c].pc = "setup", ![c].tries = @ + 1]
      BY <3>2, CallOf DEF BuildKept, TypeInv, CallTyped, CallRecords
    <3>3. ASSUME NEW e, builds' = Append(builds, e) PROVE Len(builds') \notin Made
      BY <3>3, Bounds, AppendProperties, LenProperties DEF TypeInv, BuildsTyped, Made
    <3> QED BY <1>5, <3>1, <3>2, <3>3 DEF Rebuild, Fails, Refuses
  <2> QED BY <2>3, <2>4, <2>5
<1>6. ASSUME NEW c \in Calls, Sign(c) PROVE BuildKept
  BY <1>6, CallOf DEF Sign, Fails, Ends, BuildKept, TypeInv, CallTyped, CallRecords
<1> QED BY <1>2, <1>3, <1>4, <1>5, <1>6, SignedSteps, BuildSteps

\* What was signed stays what was reviewed.
LEMMA SignedFitsSteps ==
  ASSUME TypeInv, SignedFits, [Next]_vars PROVE SignedFits'
<1> SUFFICES ASSUME NEW c \in Calls, NEW b \in Made', <<c, b>> \in signed'
             PROVE  builds'[b].draft = call'[c].draft /\ builds'[b].fee = FeeOf(call[c].shown)'
  BY DEF SignedFits
<1>1. /\ b \in Made /\ call[c] # IdleCall /\ builds[b].draft = call[c].draft
      /\ builds[b].fee = FeeOf(call[c].shown)
  <2>1. CASE <<c, b>> \in signed
    <3>1. b \in Made BY <2>1 DEF TypeInv, SetsTyped
    <3>2. builds[b].draft = call[c].draft /\ builds[b].fee = FeeOf(call[c].shown)
      BY <2>1, <3>1 DEF SignedFits
    <3>3. builds[b].draft \in Drafts BY <3>1, Bounds DEF BuildRecords
    <3> QED BY <3>1, <3>2, <3>3, DraftsAssumption DEF IdleCall
  <2>2. CASE <<c, b>> \notin signed
    <3>1. PICK x \in Calls : Sign(x) BY <2>2, SignedSteps
    <3>2. x = c /\ b = call[c].build /\ call[c].pc = "sign" BY <2>2, <3>1 DEF Sign
    <3> QED BY <3>2, CallOf, Bounds DEF CallFits, FeeIn, FeeOf, IdleCall
  <2> QED BY <2>1, <2>2
<1>2. call'[c].draft = call[c].draft /\ call'[c].shown = call[c].shown
  BY <1>1, AboutSteps DEF AboutKept
<1>3. Grown(builds, builds') BY GrownSteps
<1>4. call[c].shown = NoBuild \/ call[c].shown \in Made BY CallOf, Bounds DEF CallFits
<1> QED BY <1>1, <1>2, <1>3, <1>4, Bounds DEF Grown, FeeOf

LEMMA StoreAlways == Spec => []StoreInv
<1>1. Init => StoreInv
  <2> SUFFICES ASSUME Init PROVE StoreInv OBVIOUS
  <2>1. DOMAIN jobs = {} /\ Made = {} BY EmptySeq DEF Init, Made
  <2> QED BY <2>1 DEF Init, StoreInv, OneAtATime, Apart, Once, Saves, Queued, OneOwner, SignedFits
<1>2. TypeInv /\ StoreInv /\ [Next]_vars => StoreInv'
  BY StoreSteps, OwnersSteps, SignedFitsSteps DEF StoreInv, StoreKept
<1> QED BY <1>1, <1>2, PipelineTyped, PTL DEF Spec

\* However saves, takes and restarts fall, no two runs sign one build.
THEOREM BuildSignedOnce == Spec => []SignedOnce
<1>1. TypeInv /\ StoreInv => SignedOnce
  BY DEF TypeInv, SetsTyped, StoreInv, OneOwner, Owns, SignedOnce
<1> QED BY <1>1, PipelineTyped, StoreAlways, PTL

\* What Confirm signs is the draft and the fee its screen showed when it was
\* clicked; what nobody reviewed is signed only when it is free.
THEOREM SignedWhatWasReviewed == Spec => []SignedAsReviewed
<1>1. TypeInv /\ StoreInv => SignedAsReviewed
  BY DEF TypeInv, SetsTyped, StoreInv, SignedFits, SignedAsReviewed
<1> QED BY <1>1, PipelineTyped, StoreAlways, PTL

-----------------------------------------------------------------------------
(* Who moves a call, and how. *)
Early == {"take", "build", "setup", "sign", "submit"}
Over  == {"replied", "done"}
Late  == {"finish", "reply"} \cup Over

MovedBy(x) ==
    \/ call'[x] = call[x]
    \/ \E s \in Surfaces, op \in {"confirm", "setup"} : Send(s, x, op)
    \/ \E i \in DOMAIN jobs : StoreTake(i) /\ jobs[i].call = x
    \/ Arrive(x) \/ Rebuild(x) \/ OutOfTries(x) \/ Sign(x) \/ Submit(x)
    \/ FinishOutcome(x) \/ HandleReply(x)
    \/ \E c \in Calls : Reply(c) /\ AwaitsRun(x, c)
    \/ \E k \in Kinds : SetupEnds(k) /\ call[x].pc = "setup"
    \/ \E s \in Surfaces : Close(s)
    \/ SwRestart

LEMMA Moved == ASSUME TypeInv, [Next]_vars, NEW x \in Calls PROVE MovedBy(x)
<1>c. call \in [Calls -> CallRecords] BY DEF TypeInv, CallTyped
<1>1. CASE UNCHANGED vars BY <1>1 DEF vars, MovedBy
<1>2. ASSUME NEW s \in Surfaces, Screen(s) PROVE MovedBy(x)
  <2>1. CASE \E c \in Calls : RunSetup(s, c) \/ Confirm(s, c)
    <3>1. PICK c \in Calls, op \in {"confirm", "setup"} : Send(s, c, op)
      BY <2>1 DEF RunSetup, Confirm
    <3>2. CASE x = c BY <3>1, <3>2 DEF MovedBy
    <3>3. CASE x # c BY <1>c, <3>1, <3>3 DEF Send, MovedBy
    <3> QED BY <3>2, <3>3
  <2>2. CASE ~\E c \in Calls : RunSetup(s, c) \/ Confirm(s, c)
    BY <1>2, <2>2 DEF Screen, Open, ConsumeOutcome, ConfirmExpired, ChooseDraft, Estimate, MovedBy
  <2> QED BY <2>1, <2>2
<1>3. ASSUME NEW b \in BuildIds, BuildAnswered(b) \/ BuildRefused(b) PROVE MovedBy(x)
  BY <1>3 DEF BuildAnswered, BuildRefused, MovedBy
<1>4. ASSUME NEW i \in DOMAIN jobs, Store(i) PROVE MovedBy(x)
  <2>1. CASE StoreRead(i) \/ StoreSave(i) BY <2>1 DEF StoreRead, StoreSave, MovedBy
  <2>2. CASE StoreTake(i) /\ x # jobs[i].call
    BY <1>c, <2>2, TakeOutcome DEF Refuses, Ends, MovedBy
  <2>3. CASE StoreTake(i) /\ x = jobs[i].call BY <2>3 DEF MovedBy
  <2> QED BY <1>4, <2>1, <2>2, <2>3 DEF Store
<1>5. ASSUME NEW c \in Calls, Handle(c) PROVE MovedBy(x)
  <2>1. CASE Reply(c) BY <2>1 DEF Reply, MovedBy
  <2>2. CASE ~Reply(c) /\ x = c BY <1>5, <2>2 DEF Handle, MovedBy
  <2>3. CASE ~Reply(c) /\ x # c
    <3>1. CASE Arrive(c) BY <1>c, <2>3, <3>1 DEF Arrive, MovedBy
    <3>2. CASE Rebuild(c) BY <1>c, <2>3, <3>2 DEF Rebuild, Fails, Refuses, Ends, MovedBy
    <3>3. CASE Submit(c) BY <1>c, <2>3, <3>3 DEF Submit, Fails, Refuses, Ends, MovedBy
    <3>4. CASE OutOfTries(c) \/ Sign(c) \/ FinishOutcome(c) \/ HandleReply(c)
      BY <1>c, <2>3, <3>4 DEF OutOfTries, Sign, FinishOutcome, HandleReply, Fails, Ends, MovedBy
    <3> QED BY <1>5, <2>3, <3>1, <3>2, <3>3, <3>4 DEF Handle
  <2> QED BY <2>1, <2>2, <2>3
<1>6. ASSUME NEW k \in Kinds, SetupEnds(k) \/ RulesLost(k) PROVE MovedBy(x)
  <2>1. CASE RulesLost(k) BY <2>1 DEF RulesLost, MovedBy
  <2>2. CASE SetupEnds(k) /\ call[x].pc # "setup" BY <2>2 DEF SetupEnds, MovedBy
  <2>3. CASE SetupEnds(k) /\ call[x].pc = "setup" BY <2>3 DEF MovedBy
  <2> QED BY <1>6, <2>1, <2>2, <2>3
<1>7. CASE SwRestart BY <1>7 DEF MovedBy
<1>8. CASE Tick BY <1>8 DEF Tick, MovedBy
<1>9. ASSUME NEW s \in Surfaces, Close(s) PROVE MovedBy(x) BY <1>9 DEF MovedBy
<1> QED BY <1>1, <1>2, <1>3, <1>4, <1>5, <1>6, <1>7, <1>8 DEF Next

\* What a step may do to a call: it keeps what it is about, goes forward, and
\* gets a result only at its end.
Forward(r, q) ==
    /\ r.pc # "idle" => q.op = r.op
    /\ r.pc \notin {"idle", "sent"} => q.lead = r.lead
    /\ r.pc \in Late => q.pc \in Late
    /\ r.pc \in {"reply"} \cup Over => q.pc \in {"reply"} \cup Over
    /\ r.pc \in Over => q.pc \in Over

\* Where a result comes from.
ResultFrom(x) ==
    \/ call'[x].result \in {call[x].result, "failure"}
    \/ call[x].op = "setup" /\ call[x].pc = "setup"
    \/ call'[x].result = "review_again" /\ call[x].pc \in Early /\ UNCHANGED accepted
    \/ Submit(x) /\ <<x, call[x].build>> \in accepted'
    \/ \E c \in Calls : Reply(c) /\ AwaitsRun(x, c) /\ call'[x].result = call[c].result

\* Where an answer comes from.
AnswerFrom(x) ==
    call'[x].pc \in Over =>
        \/ call[x].pc \in Over
        \/ \E c \in Calls : Reply(c) /\ AwaitsRun(x, c)
        \/ SwRestart /\ call[x].pc \in Running \cup {"shared"}

\* Where a refusal as out of date comes from.
DateFrom(x) ==
    call'[x].why = "out_of_date" =>
        \/ call[x].why = "out_of_date"
        \/ \E i \in DOMAIN jobs : /\ StoreTake(i) /\ jobs[i].call = x
                                 /\ ~ \E b \in Entry(i) : Valid(b)

\* Where a request comes from.
SentFrom(x) ==
    call'[x].pc = "sent" =>
        call[x].pc = "sent" \/ \E s \in Surfaces, op \in {"confirm", "setup"} : Send(s, x, op)

Fate(x) ==
    /\ Forward(call[x], call'[x])
    /\ ResultFrom(x) /\ AnswerFrom(x) /\ DateFrom(x) /\ SentFrom(x)

LEMMA EndsFate ==
  ASSUME TypeInv, NEW x \in Calls, call[x].pc \in Early, NEW res, NEW why, Ends(x, res, why),
         why # "out_of_date",
         \/ res = "failure"
         \/ res = "review_again" /\ UNCHANGED accepted
         \/ Submit(x) /\ <<x, call[x].build>> \in accepted'
  PROVE  Fate(x)
<1> DEFINE o == call[x]
           q == [o EXCEPT !.pc = "finish", !.result = res, !.why = why]
<1>1. call \in [Calls -> CallRecords] /\ o \in CallRecords BY DEF TypeInv, CallTyped
<1>2. call'[x] = q BY <1>1 DEF Ends
<1>3. q.pc = "finish" /\ q.result = res /\ q.why = why /\ q.op = o.op /\ q.lead = o.lead
  BY <1>1 DEF CallRecords
<1> HIDE DEF q
<1> QED BY <1>2, <1>3 DEF Fate, Forward, ResultFrom, AnswerFrom, DateFrom, SentFrom, Early, Late, Over

\* A run goes on.
LEMMA GoesOnFate ==
  ASSUME TypeInv, NEW x \in Calls, call[x].pc \in Early, call'[x].pc \in Early,
         call'[x].op = call[x].op, call'[x].lead = call[x].lead,
         call'[x].result = call[x].result, call'[x].why = call[x].why
  PROVE  Fate(x)
  BY DEF Fate, Forward, ResultFrom, AnswerFrom, DateFrom, SentFrom, Early, Late, Over

LEMMA Fates == ASSUME TypeInv, [Next]_vars, NEW x \in Calls PROVE Fate(x)
<1> DEFINE o == call[x]
<1>c. call \in [Calls -> CallRecords] /\ o \in CallRecords BY DEF TypeInv, CallTyped
<1> USE DEF Over, Late, Early
<1>1. CASE call'[x] = o BY <1>1 DEF Fate, Forward, ResultFrom, AnswerFrom, DateFrom, SentFrom
<1>2. ASSUME NEW s \in Surfaces, NEW op \in {"confirm", "setup"}, Send(s, x, op) PROVE Fate(x)
  <2>1. /\ o.pc = "idle" /\ call'[x].pc = "sent" /\ call'[x].result = o.result
        /\ call'[x].why = o.why
    BY <1>c, <1>2 DEF Send, IdleCall
  <2> QED BY <1>2, <2>1 DEF Fate, Forward, ResultFrom, AnswerFrom, DateFrom, SentFrom
<1>3. ASSUME NEW i \in DOMAIN jobs, StoreTake(i), jobs[i].call = x PROVE Fate(x)
  <2>1. o.pc = "take" /\ UNCHANGED accepted BY <1>3 DEF TypeInv, TakesWait, Takes, StoreTake, chain
  <2>2. ASSUME NEW why \in {"fee_changed", "setup_needed"}, Refuses(x, why) PROVE Fate(x)
    BY <2>1, <2>2, EndsFate DEF Refuses
  <2>3. CASE Refuses(x, "out_of_date") /\ ~ \E b \in Entry(i) : Valid(b)
    <3> DEFINE q == [o EXCEPT !.pc = "finish", !.result = "review_again", !.why = "out_of_date"]
    <3>1. call'[x] = q BY <1>c, <2>3 DEF Refuses, Ends
    <3>2. q.pc = "finish" /\ q.result = "review_again" /\ q.op = o.op /\ q.lead = o.lead
      BY <1>c DEF CallRecords
    <3> HIDE DEF q
    <3> QED BY <1>3, <2>1, <2>3, <3>1, <3>2 DEF Fate, Forward, ResultFrom, AnswerFrom, DateFrom, SentFrom
  <2>4. ASSUME NEW b, call' = [call EXCEPT ![x].pc = "sign", ![x].build = b] PROVE Fate(x)
    BY <1>c, <2>1, <2>4, GoesOnFate DEF CallRecords
  <2> QED BY <1>3, <2>2, <2>3, <2>4, TakeOutcome
<1>4. CASE Arrive(x)
  <2>1. o.pc = "sent" BY <1>4 DEF Arrive
  <2>2. \/ \E p \in {"setup", "take", "build"} : call' = [call EXCEPT ![x].pc = p]
        \/ \E l : call' = [call EXCEPT ![x].pc = "shared", ![x].lead = l]
    BY <1>4 DEF Arrive
  <2>3. /\ call'[x].op = o.op /\ call'[x].result = o.result /\ call'[x].why = o.why
        /\ call'[x].pc \in {"setup", "take", "build", "shared"}
    BY <1>c, <2>2 DEF CallRecords
  <2> QED BY <2>1, <2>3 DEF Fate, Forward, ResultFrom, AnswerFrom, DateFrom, SentFrom
<1>s. ASSUME call' = [call EXCEPT ![x].pc = "setup", ![x].tries = @ + 1], o.pc \in Early PROVE Fate(x)
  BY <1>c, <1>s, GoesOnFate DEF CallRecords
<1>5. CASE Rebuild(x)
  <2>1. o.pc = "build" /\ UNCHANGED accepted BY <1>5 DEF Rebuild
  <2>2. ASSUME NEW b, call' = [call EXCEPT ![x].pc = "sign", ![x].build = b] PROVE Fate(x)
    BY <1>c, <2>1, <2>2, GoesOnFate DEF CallRecords
  <2>3. CASE Fails(x) \/ Refuses(x, "fee_changed") BY <2>1, <2>3, EndsFate DEF Fails, Refuses
  <2> QED BY <1>5, <1>s, <2>1, <2>2, <2>3 DEF Rebuild
<1>6. CASE OutOfTries(x) BY <1>6, EndsFate DEF OutOfTries, Fails
<1>7. CASE Sign(x)
  <2>1. CASE call' = [call EXCEPT ![x].pc = "submit"]
    BY <1>c, <1>7, <2>1, GoesOnFate DEF CallRecords, Sign
  <2>2. CASE Fails(x) BY <1>7, <2>2, EndsFate DEF Sign, Fails
  <2> QED BY <1>7, <2>1, <2>2 DEF Sign
<1>8. CASE Submit(x)
  <2>1. o.pc = "submit" BY <1>8 DEF Submit
  <2>2. CASE Fails(x) BY <2>1, <2>2, EndsFate DEF Fails
  <2>3. CASE Ends(x, "failure", "rules") BY <2>1, <2>3, EndsFate
  <2>4. CASE Refuses(x, "setup_needed") /\ UNCHANGED accepted BY <2>1, <2>4, EndsFate DEF Refuses
  <2>5. CASE Ends(x, "success", "none") /\ accepted' = accepted \cup {<<x, o.build>>}
    BY <1>8, <2>1, <2>5, EndsFate
  <2>6. CASE call' = [call EXCEPT ![x].pc = "setup", ![x].tries = @ + 1] BY <1>s, <2>1, <2>6
  <2> QED BY <1>8, <2>2, <2>3, <2>4, <2>5, <2>6 DEF Submit
<1>9. CASE FinishOutcome(x)
  BY <1>c, <1>9 DEF FinishOutcome, CallRecords, Fate, Forward, ResultFrom, AnswerFrom, DateFrom, SentFrom
<1>10. CASE HandleReply(x)
  BY <1>c, <1>10 DEF HandleReply, CallRecords, Fate, Forward, ResultFrom, AnswerFrom, DateFrom, SentFrom
<1>11. ASSUME NEW c \in Calls, Reply(c), AwaitsRun(x, c) PROVE Fate(x)
  <2>1. o.pc \in {"reply", "shared"} BY <1>11 DEF AwaitsRun, Reply
  <2>2. call'[x] = Answered(o, call[c].result) BY <1>11 DEF Reply
  <2>3. /\ call'[x].op = o.op /\ call'[x].lead = o.lead /\ call'[x].why = o.why
        /\ call'[x].result = call[c].result /\ call'[x].pc \in Over
    BY <1>c, <2>2 DEF Answered, CallRecords
  <2> QED BY <1>11, <2>1, <2>3 DEF Fate, Forward, ResultFrom, AnswerFrom, DateFrom, SentFrom
<1>12. ASSUME NEW k \in Kinds, SetupEnds(k), o.pc = "setup" PROVE Fate(x)
  <2>1. \/ call'[x] = o
        \/ o.op = "setup" /\ \E res : call'[x] = [o EXCEPT !.pc = "finish", !.result = res]
        \/ call'[x] = [o EXCEPT !.pc = "finish", !.result = "failure", !.why = "other"]
        \/ call'[x] = [o EXCEPT !.pc = "build"]
    BY <1>12 DEF SetupEnds
  <2>2. CASE o.op = "setup" /\ \E res : call'[x] = [o EXCEPT !.pc = "finish", !.result = res]
    BY <1>c, <1>12, <2>2 DEF CallRecords, Fate, Forward, ResultFrom, AnswerFrom, DateFrom, SentFrom
  <2>3. CASE call'[x] = [o EXCEPT !.pc = "finish", !.result = "failure", !.why = "other"]
    BY <1>c, <1>12, <2>3 DEF CallRecords, Fate, Forward, ResultFrom, AnswerFrom, DateFrom, SentFrom
  <2>4. CASE call'[x] = [o EXCEPT !.pc = "build"]
    BY <1>c, <1>12, <2>4, GoesOnFate DEF CallRecords
  <2> QED BY <1>1, <2>1, <2>2, <2>3, <2>4
<1>13. ASSUME NEW s \in Surfaces, Close(s) PROVE Fate(x)
  <2> DEFINE q == [o EXCEPT !.alive = FALSE, !.pc = IF @ = "replied" THEN "done" ELSE @]
  <2>1. call'[x] = o \/ call'[x] = q BY <1>13 DEF Close
  <2>2. /\ q.op = o.op /\ q.lead = o.lead /\ q.result = o.result /\ q.why = o.why
        /\ q.pc = IF o.pc = "replied" THEN "done" ELSE o.pc
    BY <1>c DEF CallRecords
  <2> HIDE DEF q
  <2> QED BY <1>1, <2>1, <2>2 DEF Fate, Forward, ResultFrom, AnswerFrom, DateFrom, SentFrom
<1>14. CASE SwRestart
  <2>1. CASE o.pc \in Running \cup {"shared"}
    <3>1. call'[x] = Answered(o, "failure") BY <1>14, <2>1 DEF SwRestart
    <3>2. /\ call'[x].op = o.op /\ call'[x].lead = o.lead /\ call'[x].why = o.why
          /\ call'[x].result = "failure" /\ call'[x].pc \in Over
      BY <1>c, <3>1 DEF Answered, CallRecords
    <3> QED BY <1>14, <2>1, <3>2 DEF Fate, Forward, ResultFrom, AnswerFrom, DateFrom, SentFrom
  <2>2. CASE o.pc \notin Running \cup {"shared"} BY <1>1, <1>14, <2>2 DEF SwRestart
  <2> QED BY <2>1, <2>2
<1> QED
  BY Moved, <1>1, <1>2, <1>3, <1>4, <1>5, <1>6, <1>7, <1>8, <1>9, <1>10, <1>11, <1>12, <1>13, <1>14
     DEF MovedBy

-----------------------------------------------------------------------------
(* What is reported.  A result is checked against the submissions of the     *)
(* run; those of a call that shared a run are its lead's.                    *)
AcceptedFits ==
    \A c \in Calls, b \in Made : <<c, b>> \in accepted => builds[b].draft = call[c].draft
NotYet    == \A c \in Calls, b \in Made : <<c, b>> \in accepted => call[c].pc \in Late
LeadsDone ==
    \A c \in Calls : (call[c].lead # NoCall /\ call[c].pc # "shared") => call[call[c].lead].pc \in Over
ResultsTrue ==
    \A c \in Calls : call[c].op = "confirm" =>
        /\ call[c].result = "success" => Submitted(c) # {}
        /\ call[c].result = "review_again" => Submitted(c) = {}
RecordTrue ==
    outcome.status = "success" =>
        /\ outcome.by \in Calls /\ call[outcome.by].pc \in {"reply"} \cup Over
        /\ call[outcome.by].lead = NoCall
        /\ \E b \in Made : <<outcome.by, b>> \in accepted /\ builds[b].draft = outcome.draft
ReportInv == AcceptedFits /\ NotYet /\ LeadsDone /\ ResultsTrue /\ RecordTrue

\* The network takes nothing, or the build its call signed, and the run is over.
AcceptedBy(c) ==
    /\ Submit(c) /\ accepted' = accepted \cup {<<c, call[c].build>>}
    /\ call[c].pc = "submit" /\ call'[c].pc = "finish"
LEMMA AcceptedSteps ==
  ASSUME TypeInv, [Next]_vars PROVE UNCHANGED accepted \/ \E c \in Calls : AcceptedBy(c)
<1>1. CASE UNCHANGED vars BY <1>1 DEF vars, chain
<1>2. ASSUME NEW s \in Surfaces, Screen(s) PROVE UNCHANGED accepted
  BY <1>2 DEF Screen, Open, ConsumeOutcome, Estimate, ConfirmExpired, ChooseDraft, RunSetup, Confirm,
              Send, Close, chain
<1>3. ASSUME NEW b \in BuildIds, BuildAnswered(b) \/ BuildRefused(b) PROVE UNCHANGED accepted
  BY <1>3 DEF BuildAnswered, BuildRefused, chain
<1>4. ASSUME NEW i \in DOMAIN jobs, Store(i) PROVE UNCHANGED accepted
  BY <1>4 DEF Store, StoreRead, StoreSave, StoreTake, chain
<1>5. ASSUME NEW c \in Calls, Handle(c) PROVE UNCHANGED accepted \/ AcceptedBy(c)
  <2>1. CASE Submit(c)
    <3>1. UNCHANGED accepted \/ \E res, why : Ends(c, res, why) /\ accepted' = accepted \cup {<<c, call[c].build>>}
      BY <2>1 DEF Submit, Fails
    <3>2. ASSUME NEW res, NEW why, Ends(c, res, why) PROVE call'[c].pc = "finish"
      BY <3>2, CallOf DEF Ends, TypeInv, CallTyped, CallRecords
    <3> QED BY <2>1, <3>1, <3>2 DEF AcceptedBy, Submit
  <2>2. CASE ~Submit(c)
    BY <1>5, <2>2 DEF Handle, Arrive, Rebuild, OutOfTries, Sign, FinishOutcome, Reply, HandleReply, chain
  <2> QED BY <2>1, <2>2
<1>6. ASSUME NEW k \in Kinds, SetupEnds(k) \/ RulesLost(k) PROVE UNCHANGED accepted
  BY <1>6 DEF SetupEnds, RulesLost
<1>7. CASE SwRestart \/ Tick BY <1>7 DEF SwRestart, Tick, chain
<1> QED BY <1>1, <1>2, <1>3, <1>4, <1>5, <1>6, <1>7 DEF Next

LEMMA AcceptedFitsSteps ==
  ASSUME TypeInv, AcceptedFits, [Next]_vars PROVE AcceptedFits'
<1> SUFFICES ASSUME NEW c \in Calls, NEW b \in Made', <<c, b>> \in accepted'
             PROVE  builds'[b].draft = call'[c].draft
  BY DEF AcceptedFits
<1>1. b \in Made /\ call[c] # IdleCall /\ builds[b].draft = call[c].draft
  <2>1. CASE <<c, b>> \in accepted
    <3>1. b \in Made BY <2>1 DEF TypeInv, SetsTyped
    <3>2. builds[b].draft = call[c].draft BY <2>1, <3>1 DEF AcceptedFits
    <3>3. builds[b].draft \in Drafts BY <3>1, Bounds DEF BuildRecords
    <3> QED BY <3>1, <3>2, <3>3, DraftsAssumption DEF IdleCall
  <2>2. CASE <<c, b>> \notin accepted
    <3>1. b = call[c].build /\ call[c].pc = "submit" BY <2>2, AcceptedSteps DEF AcceptedBy
    <3> QED BY <3>1, CallOf, Bounds DEF CallFits, IdleCall
  <2> QED BY <2>1, <2>2
<1>2. call'[c].draft = call[c].draft BY <1>1, AboutSteps DEF AboutKept
<1>3. Grown(builds, builds') BY GrownSteps
<1> QED BY <1>1, <1>2, <1>3, Bounds DEF Grown

LEMMA NotYetSteps == ASSUME TypeInv, NotYet, [Next]_vars PROVE NotYet'
<1> SUFFICES ASSUME NEW c \in Calls, NEW b \in Made', <<c, b>> \in accepted' PROVE call'[c].pc \in Late
  BY DEF NotYet, Late, Over
<1>1. CASE <<c, b>> \in accepted
  <2>1. b \in Made BY <1>1 DEF TypeInv, SetsTyped
  <2>2. call[c].pc \in Late BY <1>1, <2>1 DEF NotYet
  <2> QED BY <2>2, Fates DEF Fate, Forward
<1>2. CASE <<c, b>> \notin accepted BY <1>2, AcceptedSteps DEF AcceptedBy, Late
<1> QED BY <1>1, <1>2

LEMMA LeadsDoneSteps == ASSUME TypeInv, RunInv, LeadsDone, [Next]_vars PROVE LeadsDone'
<1> SUFFICES ASSUME NEW x \in Calls, call'[x].lead # NoCall, call'[x].pc # "shared"
             PROVE  call'[call'[x].lead].pc \in Over
  BY DEF LeadsDone, Over
<1>1. call'[x].pc \in Over
  <2>1. call'[x] \in CallRecords /\ CallFits(call'[x], builds') BY StepTypes DEF TypeInv, CallTyped
  <2> QED BY <2>1 DEF CallFits, CallRecords, Pcs, Over, Late, Running
<1>2. Fate(x) BY Fates
<1>3. call[x] \in CallRecords /\ CallFits(call[x], builds) BY CallOf
<1> DEFINE l == call[x].lead
<1>4. CASE call[x].pc \in Over
  <2>1. call'[x].lead = l BY <1>2, <1>4 DEF Fate, Forward, Over
  <2>2. call[l].pc \in Over /\ l \in Calls BY <1>3, <1>4, <2>1 DEF LeadsDone, CallRecords, Over
  <2> QED BY <2>1, <2>2, Fates DEF Fate, Forward
<1>5. ASSUME NEW c \in Calls, Reply(c), AwaitsRun(x, c) PROVE call'[call'[x].lead].pc \in Over
  <2>1. call[x].pc = "reply" \/ (call[x].pc = "shared" /\ l = c) BY <1>5 DEF AwaitsRun, Reply
  <2>2. call'[x].lead = l BY <1>2, <2>1 DEF Fate, Forward
  <2>3. l = c BY <1>3, <2>1, <2>2 DEF CallFits, Running
  <2>4. call'[c].pc \in Over BY <1>5, CallOf DEF Reply, AwaitsRun, Answered, CallRecords, Over
  <2> QED BY <2>2, <2>3, <2>4
<1>6. CASE SwRestart /\ call[x].pc \in Running \cup {"shared"}
  <2>1. call'[x].lead = l BY <1>2, <1>6 DEF Fate, Forward, Running
  <2>2. call[x].pc = "shared" BY <1>3, <1>6, <2>1 DEF CallFits
  <2>3. l \in Calls /\ call[l].pc \in Running BY <1>3, <2>1, <2>2 DEF CallRecords, RunInv, SharedRun
  <2>4. call'[l].pc \in Over BY <1>6, <2>3, CallOf DEF SwRestart, Answered, CallRecords, Over
  <2> QED BY <2>1, <2>4
<1> QED BY <1>1, <1>2, <1>4, <1>5, <1>6 DEF Fate, AnswerFrom

\* The submissions of a call that has its result are all made.
LEMMA SubmittedKept ==
  ASSUME TypeInv, LeadsDone, [Next]_vars, NEW x \in Calls, call[x].pc \in Late
  PROVE  LeadOf(x)' = LeadOf(x) /\ Submitted(x)' = Submitted(x)
<1>1. call'[x].lead = call[x].lead BY Fates DEF Fate, Forward, Late, Over
<1>2. LeadOf(x)' = LeadOf(x) BY <1>1 DEF LeadOf
<1>3. call[LeadOf(x)].pc # "submit"
  <2>1. CASE call[x].lead = NoCall BY <2>1 DEF LeadOf, Late, Over
  <2>2. CASE call[x].lead # NoCall BY <2>2 DEF LeadOf, LeadsDone, Late, Over
  <2> QED BY <2>1, <2>2
<1>4. \A y : (y \in accepted' /\ y[1] = LeadOf(x)) <=> (y \in accepted /\ y[1] = LeadOf(x))
  BY <1>3, AcceptedSteps DEF AcceptedBy
<1> QED BY <1>2, <1>4 DEF Submitted

LEMMA ResultsTrueSteps ==
  ASSUME TypeInv, RunInv, NotYet, LeadsDone, ResultsTrue, [Next]_vars PROVE ResultsTrue'
<1> SUFFICES ASSUME NEW x \in Calls, call'[x].op = "confirm", call'[x].result \in {"success", "review_again"}
             PROVE  Submitted(x)' = {} <=> call'[x].result = "review_again"
  BY DEF ResultsTrue
<1> DEFINE o == call[x]
           q == call'[x]
<1>1. Fate(x) /\ o \in CallRecords /\ CallFits(o, builds) BY Fates, CallOf
<1>2. CASE q.result = o.result
  <2>1. o.pc \in Late BY <1>1, <1>2 DEF CallFits, Late, Over
  <2>2. o.op = "confirm" BY <1>1, <2>1 DEF Fate, Forward, Late, Over
  <2> QED BY <1>2, <2>1, <2>2, SubmittedKept DEF ResultsTrue
<1>3. CASE o.op = "setup" /\ o.pc = "setup" BY <1>1, <1>3 DEF Fate, Forward
<1>4. CASE q.result = "review_again" /\ o.pc \in Early /\ UNCHANGED accepted
  <2>1. q.lead = NoCall BY <1>1, <1>4 DEF Fate, Forward, CallFits, Early, Running
  <2>2. \A y \in accepted : y[1] # x
    BY <1>4 DEF TypeInv, SetsTyped, NotYet, Early, Late, Over
  <2> QED BY <1>4, <2>1, <2>2 DEF Submitted, LeadOf
<1>5. CASE Submit(x) /\ <<x, o.build>> \in accepted'
  <2>1. o.pc = "submit" BY <1>5 DEF Submit
  <2>2. q.lead = NoCall BY <1>1, <2>1 DEF Fate, Forward, CallFits, Running
  <2>3. LeadOf(x)' = x BY <2>2 DEF LeadOf
  <2>4. Submitted(x)' # {} BY <1>5, <2>3 DEF Submitted
  <2>5. q.result # "review_again"
    <3>1. CASE <<x, o.build>> \in accepted
      <4>1. o.build \in Made BY <1>1, <2>1, Bounds DEF CallFits
      <4> QED BY <2>1, <3>1, <4>1 DEF NotYet, Late, Over
    <3>2. CASE <<x, o.build>> \notin accepted
      <4>1. \E res \in {"success", "failure"} : \E why : Ends(x, res, why)
        BY <1>5, <3>2 DEF Submit, Fails
      <4> QED BY <1>1, <4>1 DEF Ends, CallRecords, TypeInv, CallTyped
    <3> QED BY <3>1, <3>2
  <2> QED BY <2>4, <2>5
<1>6. ASSUME NEW c \in Calls, Reply(c), AwaitsRun(x, c), q.result = call[c].result
      PROVE  Submitted(x)' = {} <=> q.result = "review_again"
  <2>1. call[c].pc = "reply" /\ o.pc \in {"reply", "shared"} /\ UNCHANGED accepted
    BY <1>6 DEF AwaitsRun, Reply, chain
  <2>2. q.lead = o.lead BY <1>1, <2>1 DEF Fate, Forward
  <2>3. call[c].lead = NoCall BY <2>1, CallOf DEF CallFits, Running
  <2>4. LeadOf(x)' = c /\ LeadOf(c) = c
    BY <1>1, <1>6, <2>1, <2>2, <2>3, CallsAssumption DEF LeadOf, AwaitsRun
  <2>5. call[c].op = "confirm"
    <3>1. q.op = o.op BY <1>1, <2>1 DEF Fate, Forward
    <3> QED BY <1>6, <3>1 DEF AwaitsRun, RunInv, SharedRun
  <2>6. Submitted(x)' = Submitted(c) BY <2>1, <2>4 DEF Submitted
  <2> QED BY <1>6, <2>5, <2>6 DEF ResultsTrue
<1> QED BY <1>1, <1>2, <1>3, <1>4, <1>5, <1>6 DEF Fate, ResultFrom

\* A success is written when its run ends, and only then.
SameRecord ==
    outcome'.status = outcome.status /\ outcome'.by = outcome.by /\ outcome'.draft = outcome.draft
RecordFrom ==
    \/ outcome'.status # "success" \/ SameRecord
    \/ \E c \in Calls : FinishOutcome(c) /\ outcome' = Written(c, StatusFor(c))

LEMMA OutcomeSteps == ASSUME TypeInv, [Next]_vars PROVE RecordFrom
<1>1. CASE UNCHANGED vars BY <1>1 DEF vars, RecordFrom, SameRecord
<1>2. ASSUME NEW s \in Surfaces, Screen(s) PROVE RecordFrom
  <2>1. CASE ConsumeOutcome(s) BY <2>1 DEF ConsumeOutcome, NoOutcome, RecordFrom, SameRecord
  <2>2. ASSUME NEW c \in Calls, NEW op, Send(s, c, op) PROVE RecordFrom
    BY <2>2 DEF Send, RecordFrom, SameRecord
  <2>3. CASE UNCHANGED outcome BY <2>3 DEF RecordFrom, SameRecord
  <2> QED BY <1>2, <2>1, <2>2, <2>3
          DEF Screen, Open, Estimate, ConfirmExpired, ChooseDraft, RunSetup, Confirm, Close
<1>3. ASSUME NEW b \in BuildIds, BuildAnswered(b) \/ BuildRefused(b) PROVE RecordFrom
  BY <1>3 DEF BuildAnswered, BuildRefused, RecordFrom, SameRecord
<1>4. ASSUME NEW i \in DOMAIN jobs, Store(i) PROVE RecordFrom
  BY <1>4 DEF Store, StoreRead, StoreSave, StoreTake, RecordFrom, SameRecord
<1>5. ASSUME NEW c \in Calls, Handle(c) PROVE RecordFrom
  <2>1. CASE FinishOutcome(c) BY <2>1 DEF FinishOutcome, RecordFrom, SameRecord
  <2>2. CASE HandleReply(c) BY <2>2 DEF HandleReply, NoOutcome, Written, RecordFrom, SameRecord
  <2>3. CASE UNCHANGED outcome BY <2>3 DEF RecordFrom, SameRecord
  <2> QED BY <1>5, <2>1, <2>2, <2>3 DEF Handle, Arrive, Rebuild, OutOfTries, Sign, Submit, Reply
<1>6. ASSUME NEW k \in Kinds, SetupEnds(k) \/ RulesLost(k) PROVE RecordFrom
  BY <1>6 DEF SetupEnds, RulesLost, RecordFrom, SameRecord
<1>7. CASE SwRestart BY <1>7 DEF SwRestart, RecordFrom, SameRecord
<1>8. CASE Tick
  <2>1. outcome' = outcome \/ \E a : outcome' = [outcome EXCEPT !.age = a] BY <1>8 DEF Tick
  <2> QED BY <2>1 DEF TypeInv, OutcomeTyped, OutcomeRecords, RecordFrom, SameRecord
<1> QED BY <1>1, <1>2, <1>3, <1>4, <1>5, <1>6, <1>7, <1>8 DEF Next

LEMMA RecordTrueSteps ==
  ASSUME TypeInv, AcceptedFits, ResultsTrue, RecordTrue, [Next]_vars PROVE RecordTrue'
<1> SUFFICES ASSUME outcome'.status = "success"
             PROVE  /\ outcome'.by \in Calls /\ call'[outcome'.by].pc \in {"reply"} \cup Over
                    /\ call'[outcome'.by].lead = NoCall
                    /\ \E b \in Made' : <<outcome'.by, b>> \in accepted' /\ builds'[b].draft = outcome'.draft
  BY DEF RecordTrue, Over
<1>1. accepted \subseteq accepted' BY AcceptedSteps DEF AcceptedBy
<1>2. \A b \in Made : b \in Made' /\ builds'[b].draft = builds[b].draft
  BY GrownSteps, StepTypes, Bounds, LenProperties DEF Grown, Made, MadeIn, TypeInv, BuildsTyped
<1>3. CASE SameRecord
  <2> DEFINE c == outcome.by
  <2>1. /\ c \in Calls /\ call[c].pc \in {"reply"} \cup Over /\ call[c].lead = NoCall
        /\ \E b \in Made : <<c, b>> \in accepted /\ builds[b].draft = outcome.draft
    BY <1>3 DEF RecordTrue, SameRecord
  <2>2. call'[c].pc \in {"reply"} \cup Over /\ call'[c].lead = NoCall
    BY <2>1, Fates DEF Fate, Forward, Over
  <2> QED BY <1>1, <1>2, <1>3, <2>1, <2>2 DEF SameRecord
<1>4. ASSUME NEW c \in Calls, FinishOutcome(c), outcome' = Written(c, StatusFor(c))
      PROVE  /\ outcome'.by = c /\ call'[c].pc \in {"reply"} \cup Over /\ call'[c].lead = NoCall
             /\ \E b \in Made' : <<c, b>> \in accepted' /\ builds'[b].draft = outcome'.draft
  <2>1. outcome'.by = c /\ outcome'.draft = call[c].draft /\ StatusFor(c) = "success" BY <1>4 DEF Written
  <2>2. call[c].op = "confirm" /\ call[c].result = "success" /\ call[c].pc = "finish" /\ call[c].lead = NoCall
    BY <1>4, <2>1, CallOf DEF StatusFor, CallRecords, FinishOutcome, CallFits, Running
  <2>3. PICK y \in accepted : y[1] = c BY <2>2 DEF ResultsTrue, Submitted, LeadOf
  <2>4. y[2] \in Made /\ y = <<c, y[2]>> BY <2>3 DEF TypeInv, SetsTyped
  <2>5. builds[y[2]].draft = call[c].draft BY <2>3, <2>4 DEF AcceptedFits
  <2>6. call'[c].pc = "reply" /\ call'[c].lead = NoCall
    BY <1>4, <2>2, CallOf DEF FinishOutcome, TypeInv, CallTyped, CallRecords
  <2> QED BY <1>1, <1>2, <2>1, <2>3, <2>4, <2>5, <2>6
<1> QED BY <1>3, <1>4, OutcomeSteps DEF RecordFrom

LEMMA ReportsAlways == Spec => []ReportInv
<1>1. Init => ReportInv
  BY DEF Init, ReportInv, AcceptedFits, NotYet, LeadsDone, ResultsTrue, RecordTrue, IdleCall, NoOutcome
<1>2. TypeInv /\ RunInv /\ ReportInv /\ [Next]_vars => ReportInv'
  BY AcceptedFitsSteps, NotYetSteps, LeadsDoneSteps, ResultsTrueSteps, RecordTrueSteps DEF ReportInv
<1> QED BY <1>1, <1>2, PipelineTyped, RunsAlways, PTL DEF Spec

\* A reported success was taken by the network, a "review again" was not, for
\* the caller that ran and for those that shared its run, and a success record
\* carries the draft that was sent.
THEOREM ReportsTrue == Spec => []ReportsAreTrue
<1>1. TypeInv /\ ReportInv => ReportsAreTrue
  <2> SUFFICES ASSUME TypeInv, ReportInv PROVE ReportsAreTrue OBVIOUS
  <2>1. ASSUME outcome.status = "success"
        PROVE  \E b \in Submitted(outcome.by) : builds[b].draft = outcome.draft
    <3>1. PICK b \in Made : <<outcome.by, b>> \in accepted /\ builds[b].draft = outcome.draft
      BY <2>1 DEF ReportInv, RecordTrue
    <3>2. LeadOf(outcome.by) = outcome.by BY <2>1 DEF ReportInv, RecordTrue, LeadOf
    <3>3. b \in Submitted(outcome.by) BY <3>1, <3>2 DEF Submitted
    <3> QED BY <3>1, <3>3
  <2> QED BY <2>1 DEF ReportInv, ResultsTrue, ReportsAreTrue
<1> QED BY <1>1, PipelineTyped, ReportsAlways, PTL

-----------------------------------------------------------------------------
(* Why a Confirm is refused as out of date.  What a screen shows is in the   *)
(* store, in a save that runs before any take to come, or gone.              *)
SavedBefore(i)  == {jobs[j].build : j \in {k \in Saves : k < i}}
Secured         == gone \cup Range(held) \cup Queued
ReviewedSecured == \A s \in Surfaces : screen[s].reviewed \in Secured \cup {NoBuild}
ShownSecured    == \A c \in Calls : call[c].pc = "sent" => call[c].shown \in Secured \cup {NoBuild}
TakesSecured    ==
    \A i \in Takes : call[jobs[i].call].shown \in gone \cup Range(held) \cup SavedBefore(i)
EarnedInv == ReviewedSecured /\ ShownSecured /\ TakesSecured /\ RefusalIsEarned

SecuredKept == gone \subseteq gone' /\ Secured \subseteq Secured'

\* A call that waits for its take keeps what it was shown.
LEMMA WaitingShown ==
  ASSUME TypeInv, AboutKept, NEW i \in Takes
  PROVE  jobs[i].call \in Calls /\ call'[jobs[i].call].shown = call[jobs[i].call].shown
  BY Bounds DEF Takes, JobFits, TypeInv, TakesWait, IdleCall, AboutKept

LEMMA SameSecured ==
  ASSUME TypeInv, AboutKept, TakesSecured, UNCHANGED <<held, jobs, gone>>
  PROVE  SecuredKept /\ TakesSecured'
<1>1. Saves' = Saves /\ Queued' = Queued /\ Takes' = Takes BY DEF Saves, Queued, Takes
<1>2. \A i : SavedBefore(i)' = SavedBefore(i) BY <1>1 DEF SavedBefore
<1> QED BY <1>1, <1>2, WaitingShown DEF SecuredKept, Secured, TakesSecured

\* A job joins the queue behind the saves it may need.
LEMMA GrownSecured ==
  ASSUME TypeInv, AboutKept, TakesSecured, UNCHANGED <<held, gone>>, NEW r \in JobRecords,
         jobs' = Append(jobs, r),
         r.op = "take" => r.call \in Calls /\ call'[r.call].shown \in Secured
  PROVE  SecuredKept /\ TakesSecured'
<1> DEFINE n == Len(jobs) + 1
<1>1. /\ jobs'[n] = r /\ DOMAIN jobs' = DOMAIN jobs \cup {n} /\ n \notin DOMAIN jobs
      /\ \A i \in DOMAIN jobs : jobs'[i] = jobs[i] /\ i < n
  BY Bounds, AppendProperties, LenProperties DEF TypeInv, JobsTyped
<1> HIDE DEF n
<1>2. Saves \subseteq Saves' /\ \A i \in Saves : jobs'[i].build = jobs[i].build BY <1>1 DEF Saves
<1>3. Queued \subseteq Queued' BY <1>2 DEF Queued
<1>4. \A i : SavedBefore(i) \subseteq SavedBefore(i)' BY <1>2 DEF SavedBefore
<1>5. ASSUME NEW i \in Takes'
      PROVE  call'[jobs'[i].call].shown \in gone' \cup Range(held') \cup SavedBefore(i)'
  <2>1. CASE i \in DOMAIN jobs
    <3>1. i \in Takes /\ jobs'[i] = jobs[i] BY <1>1, <1>5, <2>1 DEF Takes
    <3> QED BY <1>4, <3>1, WaitingShown DEF TakesSecured
  <2>2. CASE i = n
    <3>1. Queued \subseteq SavedBefore(i)' BY <1>1, <1>2, <2>2 DEF Queued, SavedBefore, Saves
    <3> QED BY <1>1, <1>5, <2>2, <3>1 DEF Takes, Secured
  <2> QED BY <1>1, <1>5, <2>1, <2>2 DEF Takes
<1>6. TakesSecured' BY <1>5, Zenon DEF TakesSecured
<1> QED BY <1>3, <1>6 DEF SecuredKept, Secured

\* The first job is done: what it held of value is in the store or gone.
LEMMA DoneSecured ==
  ASSUME TypeInv, AboutKept, TakesSecured, NEW i \in DOMAIN jobs, i = 1, jobs' = RemoveAt(jobs, i),
         gone \subseteq gone', Range(held) \subseteq gone' \cup Range(held'),
         i \in Saves => jobs[i].build \in gone' \cup Range(held')
  PROVE  SecuredKept /\ TakesSecured'
<1>1. ASSUME NEW j \in DOMAIN jobs'
      PROVE  j + 1 \in DOMAIN jobs /\ jobs'[j] = jobs[j + 1] /\ j \in Int
  BY JobDone, Bounds DEF After
<1>2. ASSUME NEW k \in DOMAIN jobs, k # i PROVE k - 1 \in DOMAIN jobs' /\ jobs'[k - 1] = jobs[k] /\ k \in Int
  <2>1. k - 1 \in DOMAIN jobs' /\ (k - 1) + 1 = k BY <1>2, JobDone, Bounds
  <2> QED BY <1>1, <2>1
<1>3. \A k \in Saves : k # i => k - 1 \in Saves' /\ jobs'[k - 1].build = jobs[k].build /\ k \in Int
  BY <1>2 DEF Saves
<1>4. Queued \subseteq Queued' \cup gone' \cup Range(held') BY <1>3 DEF Queued
<1>5. ASSUME NEW j \in Takes'
      PROVE  call'[jobs'[j].call].shown \in gone' \cup Range(held') \cup SavedBefore(j)'
  <2>1. j + 1 \in Takes /\ jobs'[j] = jobs[j + 1] /\ j \in Int BY <1>1, <1>5 DEF Takes
  <2>2. SavedBefore(j + 1) \subseteq SavedBefore(j)' \cup gone' \cup Range(held')
    BY <1>3, <2>1 DEF SavedBefore
  <2>3. call[jobs[j + 1].call].shown \in gone \cup Range(held) \cup SavedBefore(j + 1)
    BY <2>1 DEF TakesSecured
  <2> QED BY <2>1, <2>2, <2>3, WaitingShown
<1>6. TakesSecured' BY <1>5, Zenon DEF TakesSecured
<1> QED BY <1>4, <1>6 DEF SecuredKept, Secured

LEMMA ReadSecured ==
  ASSUME TypeInv, AboutKept, TakesSecured, NEW i \in DOMAIN jobs, StoreRead(i)
  PROVE  SecuredKept /\ TakesSecured'
<1> DEFINE r == [jobs[i] EXCEPT !.read = TRUE, !.copy = held]
<1>1. jobs' = [jobs EXCEPT ![i] = r] /\ UNCHANGED <<held, gone>> BY DEF StoreRead, history
<1>2. r.op = jobs[i].op /\ r.build = jobs[i].build /\ r.call = jobs[i].call BY Bounds DEF JobRecords
<1> HIDE DEF r
<1>3. DOMAIN jobs' = DOMAIN jobs
      /\ \A j \in DOMAIN jobs : /\ jobs'[j].op = jobs[j].op /\ jobs'[j].build = jobs[j].build
                                /\ jobs'[j].call = jobs[j].call
  BY <1>1, <1>2
<1>4. Saves' = Saves /\ Takes' = Takes BY <1>3 DEF Saves, Takes
<1>5. Queued' = Queued /\ \A j : SavedBefore(j)' = SavedBefore(j)
  BY <1>3, <1>4 DEF Queued, SavedBefore, Saves
<1>6. \A j \in Takes : jobs'[j].call = jobs[j].call BY <1>3 DEF Takes
<1> QED BY <1>1, <1>4, <1>5, <1>6, WaitingShown DEF SecuredKept, Secured, TakesSecured

LEMMA SaveSecured ==
  ASSUME TypeInv, AboutKept, OneAtATime, TakesSecured, NEW i \in DOMAIN jobs, StoreSave(i)
  PROVE  SecuredKept /\ TakesSecured'
<1>1. i = 1 /\ jobs[i].copy = held BY DEF StoreSave, Turn, OneAtATime
<1>2. gone' = gone \cup ((Range(held) \cup {jobs[i].build}) \ Range(held')) BY <1>1 DEF StoreSave
<1> QED BY <1>1, <1>2, DoneSecured DEF StoreSave

LEMMA TakeSecured ==
  ASSUME TypeInv, AboutKept, OneAtATime, TakesSecured, NEW i \in DOMAIN jobs, StoreTake(i)
  PROVE  SecuredKept /\ TakesSecured'
<1> DEFINE d == call[jobs[i].call].draft
           w == Without(jobs[i].copy, d)
<1>1. i = 1 /\ jobs[i].copy = held /\ jobs' = RemoveAt(jobs, i) /\ i \notin Saves
  BY DEF StoreTake, Turn, OneAtATime, Saves
<1>2. Range(w) = {b \in Range(held) \cap Made : builds[b].draft # d}
  BY <1>1, WithoutProperties DEF TypeInv, HeldTyped
<1>3. held' = (IF Entry(i) = {} THEN held ELSE w) /\ gone' = gone \cup Entry(i) BY DEF StoreTake, Entry
<1>4. Entry(i) = {b \in Range(held) : builds[b].draft = d} BY <1>1 DEF Entry
<1>5. Range(held) \subseteq Made BY DEF TypeInv, HeldTyped
<1> HIDE DEF w, d
<1>6. Range(held) \subseteq gone' \cup Range(held') BY <1>2, <1>3, <1>4, <1>5
<1> QED BY <1>1, <1>3, <1>6, DoneSecured

LEMMA SecuredSteps ==
  ASSUME TypeInv, OneAtATime, ShownSecured, TakesSecured, [Next]_vars
  PROVE  SecuredKept /\ TakesSecured'
<1>a. AboutKept BY AboutSteps
<1>1. CASE UNCHANGED vars BY <1>a, <1>1, SameSecured DEF vars, worker, history
<1>2. ASSUME NEW s \in Surfaces, Screen(s) PROVE SecuredKept /\ TakesSecured'
  BY <1>a, <1>2, SameSecured
     DEF Screen, Open, ConsumeOutcome, Estimate, ConfirmExpired, ChooseDraft, RunSetup, Confirm, Send,
         Close, worker, history
<1>3. ASSUME NEW b \in BuildIds, BuildAnswered(b) PROVE SecuredKept /\ TakesSecured'
  <2> DEFINE r == [op |-> "save", build |-> b, call |-> NoCall, read |-> FALSE, copy |-> <<>>]
  <2>1. jobs' = Append(jobs, r) /\ UNCHANGED <<held, gone>> BY <1>3 DEF BuildAnswered, history
  <2>2. r \in JobRecords /\ r.op = "save" BY BoundsAssumption, EmptySeq DEF JobRecords, BuildIds
  <2> HIDE DEF r
  <2> QED BY <1>a, <2>1, <2>2, GrownSecured
<1>4. ASSUME NEW b \in BuildIds, BuildRefused(b) PROVE SecuredKept /\ TakesSecured'
  BY <1>a, <1>4, SameSecured DEF BuildRefused, history
<1>5. ASSUME NEW i \in DOMAIN jobs, Store(i) PROVE SecuredKept /\ TakesSecured'
  BY <1>a, <1>5, ReadSecured, SaveSecured, TakeSecured DEF Store
<1>6. ASSUME NEW c \in Calls, Arrive(c) PROVE SecuredKept /\ TakesSecured'
  <2> DEFINE r == [op |-> "take", build |-> NoBuild, call |-> c, read |-> FALSE, copy |-> <<>>]
  <2>1. UNCHANGED <<held, gone>> BY <1>6 DEF Arrive, history
  <2>2. CASE UNCHANGED jobs BY <1>a, <2>1, <2>2, SameSecured
  <2>3. CASE jobs' = Append(jobs, r) /\ call[c].shown # NoBuild
    <3>1. call'[c].shown \in Secured
      BY <1>6, <1>a, <2>3 DEF Arrive, ShownSecured, AboutKept, IdleCall
    <3>2. NoBuild \in 0..MaxBuilds BY BoundsAssumption DEF NoBuild
    <3>3. r \in JobRecords /\ r.op = "take" /\ r.call = c BY <3>2, EmptySeq DEF JobRecords
    <3> HIDE DEF r
    <3> QED BY <1>a, <2>1, <2>3, <3>1, <3>3, GrownSecured
  <2> QED BY <1>6, <2>2, <2>3 DEF Arrive
<1>7. ASSUME NEW c \in Calls, Handle(c), ~Arrive(c) PROVE SecuredKept /\ TakesSecured'
  BY <1>a, <1>7, SameSecured
     DEF Handle, Rebuild, OutOfTries, Sign, Submit, FinishOutcome, Reply, HandleReply, worker, history
<1>8. ASSUME NEW k \in Kinds, SetupEnds(k) \/ RulesLost(k) PROVE SecuredKept /\ TakesSecured'
  BY <1>a, <1>8, SameSecured DEF SetupEnds, RulesLost, worker, history
<1>9. CASE SwRestart
  <2>1. jobs' = <<>> /\ UNCHANGED held /\ gone' = gone \cup Queued
    BY <1>9 DEF SwRestart, Queued, Saves
  <2>2. DOMAIN jobs' = {} BY <2>1
  <2> QED BY <2>1, <2>2 DEF SecuredKept, Secured, TakesSecured, Takes
<1>10. CASE Tick BY <1>a, <1>10, SameSecured DEF Tick, worker, history
<1> QED BY <1>1, <1>2, <1>3, <1>4, <1>5, <1>6, <1>7, <1>8, <1>9, <1>10 DEF Next

\* A screen keeps its review, drops it, or gets one whose save is queued.
ReviewFrom ==
    \A s \in Surfaces : screen'[s].reviewed \in {screen[s].reviewed, NoBuild} \cup Queued'

LEMMA ReviewSteps == ASSUME TypeInv, [Next]_vars PROVE ReviewFrom
<1>c. screen \in [Surfaces -> ScreenRecords] BY DEF TypeInv, ScreenTyped
<1>s. UNCHANGED screen => ReviewFrom BY DEF ReviewFrom
<1>m. ASSUME NEW s, NEW m, Set(s, m) PROVE ReviewFrom
  BY <1>c, <1>m DEF Set, ScreenRecords, ReviewFrom
<1>1. CASE UNCHANGED vars BY <1>s, <1>1 DEF vars
<1>2. ASSUME NEW s \in Surfaces, Screen(s) PROVE ReviewFrom
  <2>1. CASE Open(s) \/ Close(s) \/ \E d \in Drafts : ChooseDraft(s, d)
    <3>1. ASSUME NEW r, r.reviewed = NoBuild, screen' = [screen EXCEPT ![s] = r] PROVE ReviewFrom
      BY <1>c, <3>1 DEF ReviewFrom
    <3>2. \E r : r.reviewed = NoBuild /\ screen' = [screen EXCEPT ![s] = r]
      BY <2>1 DEF Open, Close, ChooseDraft, Closed
    <3> QED BY <3>1, <3>2
  <2>2. CASE ConsumeOutcome(s)
    <3>1. CASE screen' = [screen EXCEPT ![s].mode = "review", ![s].draft = outcome.draft]
      BY <1>c, <3>1 DEF ScreenRecords, ReviewFrom
    <3> QED BY <1>m, <2>2, <3>1 DEF ConsumeOutcome
  <2>3. CASE Estimate(s) \/ ConfirmExpired(s)
    <3>1. \/ \E e : screen' = [screen EXCEPT ![s].mode = "estimating", ![s].reviewed = NoBuild,
                                            ![s].estimate = e]
          \/ screen' = [screen EXCEPT ![s].mode = "review", ![s].reviewed = NoBuild]
      BY <2>3 DEF Estimate, ConfirmExpired
    <3> QED BY <1>c, <3>1 DEF ScreenRecords, ReviewFrom
  <2>4. ASSUME NEW c, NEW op, Send(s, c, op) PROVE ReviewFrom
    <3>1. screen' = [screen EXCEPT ![s].mode = "waiting", ![s].awaits = c] BY <2>4 DEF Send
    <3> QED BY <1>c, <3>1 DEF ScreenRecords, ReviewFrom
  <2> QED BY <1>2, <2>1, <2>2, <2>3, <2>4 DEF Screen, RunSetup, Confirm
<1>a. ASSUME NEW b, NEW to, NEW rev, Answer(b, to, rev), rev \in {NoBuild} \cup Queued' PROVE ReviewFrom
  <2> SUFFICES ASSUME NEW s \in Surfaces
               PROVE  screen'[s].reviewed \in {screen[s].reviewed, NoBuild} \cup Queued'
    BY DEF ReviewFrom
  <2>1. \/ screen'[s] = screen[s]
        \/ screen'[s] = [screen[s] EXCEPT !.mode = to, !.estimate = NoBuild, !.reviewed = rev]
    BY <1>a DEF Answer
  <2> QED BY <1>c, <1>a, <2>1 DEF ScreenRecords
<1>3. ASSUME NEW b \in BuildIds, BuildAnswered(b) PROVE ReviewFrom
  <2> DEFINE r == [op |-> "save", build |-> b, call |-> NoCall, read |-> FALSE, copy |-> <<>>]
  <2>1. jobs' = Append(jobs, r) BY <1>3 DEF BuildAnswered
  <2>2. r \in JobRecords /\ r.op = "save" /\ r.build = b
    BY BoundsAssumption, EmptySeq DEF JobRecords, BuildIds
  <2> HIDE DEF r
  <2>3. jobs'[Len(jobs) + 1] = r /\ Len(jobs) + 1 \in DOMAIN jobs'
    BY <2>1, <2>2, Bounds, AppendProperties, LenProperties DEF TypeInv, JobsTyped
  <2>4. b \in Queued' BY <2>2, <2>3 DEF Queued, Saves
  <2> QED BY <1>a, <1>3, <2>4 DEF BuildAnswered
<1>4. ASSUME NEW b \in BuildIds, BuildRefused(b) PROVE ReviewFrom BY <1>a, <1>4 DEF BuildRefused
<1>5. ASSUME NEW i \in DOMAIN jobs, Store(i) PROVE ReviewFrom
  BY <1>s, <1>5 DEF Store, StoreRead, StoreSave, StoreTake
<1>6. ASSUME NEW c \in Calls, Handle(c) PROVE ReviewFrom
  <2>1. CASE HandleReply(c)
    <3>1. ASSUME NEW to, screen' = [screen EXCEPT ![call[c].surface].mode = to, ![call[c].surface].reviewed = NoBuild,
                                                  ![call[c].surface].awaits = NoCall]
          PROVE  ReviewFrom
      BY <1>c, <3>1 DEF ScreenRecords, ReviewFrom
    <3> QED BY <1>s, <2>1, <3>1 DEF HandleReply
  <2>2. CASE FinishOutcome(c) BY <1>s, <1>m, <2>2 DEF FinishOutcome
  <2>3. CASE UNCHANGED screen BY <1>s, <2>3
  <2> QED BY <1>6, <2>1, <2>2, <2>3 DEF Handle, Arrive, Rebuild, OutOfTries, Sign, Submit, Reply
<1>7. ASSUME NEW k \in Kinds, SetupEnds(k) \/ RulesLost(k) PROVE ReviewFrom
  BY <1>s, <1>7 DEF SetupEnds, RulesLost
<1>8. CASE SwRestart
  <2> SUFFICES ASSUME NEW s \in Surfaces PROVE screen'[s].reviewed = screen[s].reviewed
    BY DEF ReviewFrom
  <2>1. \/ screen'[s] = screen[s]
        \/ screen'[s] = [screen[s] EXCEPT !.mode = "ready", !.estimate = NoBuild]
    BY <1>8 DEF SwRestart
  <2> QED BY <1>c, <2>1 DEF ScreenRecords
<1>9. CASE Tick BY <1>s, <1>9 DEF Tick
<1> QED BY <1>1, <1>2, <1>3, <1>4, <1>5, <1>6, <1>7, <1>8, <1>9 DEF Next

\* An expired build stays expired.
LEMMA AgeSteps ==
  ASSUME TypeInv, [Next]_vars, NEW b \in Made, ~Valid(b) PROVE ~Valid(b)'
<1>1. CASE UNCHANGED builds BY <1>1 DEF Valid
<1>2. ASSUME NEW e, builds' = Append(builds, e) PROVE ~Valid(b)'
  BY <1>2, Bounds, AppendProperties DEF Valid, Made, TypeInv, BuildsTyped
<1>3. CASE Tick
  <2>1. b \in DOMAIN builds BY LenProperties DEF TypeInv, BuildsTyped, Made
  <2>2. builds'[b] = [builds[b] EXCEPT !.age = Older(@, BuildTTL)] BY <1>3, <2>1 DEF Tick
  <2>3. builds[b] \in BuildRecords BY Bounds
  <2> QED BY <2>2, <2>3, BoundsAssumption DEF BuildRecords, Older, Valid
<1>4. CASE UNCHANGED vars BY <1>1, <1>4 DEF vars, chain
<1>5. ASSUME NEW s \in Surfaces, Screen(s) PROVE ~Valid(b)'
  BY <1>1, <1>2, <1>5 DEF Screen, Open, ConsumeOutcome, ConfirmExpired, ChooseDraft, RunSetup,
                          Confirm, Send, Close, Estimate, chain
<1>6. ASSUME NEW c \in Calls, Handle(c) PROVE ~Valid(b)'
  <2>1. CASE Rebuild(c) BY <1>1, <1>2, <2>1 DEF Rebuild
  <2>2. CASE ~Rebuild(c)
    BY <1>1, <1>6, <2>2 DEF Handle, Arrive, OutOfTries, Sign, Submit, FinishOutcome, Reply, HandleReply, chain
  <2> QED BY <2>1, <2>2
<1>7. CASE UNCHANGED builds \/ ~UNCHANGED builds
  BY <1>1, <1>3, <1>4, <1>5, <1>6 DEF Next, BuildAnswered, BuildRefused, Store, StoreRead, StoreSave,
                                      StoreTake, SetupEnds, RulesLost, SwRestart, chain
<1> QED BY <1>7

LEMMA EarnedSteps ==
  ASSUME TypeInv, OneAtATime, EarnedInv, [Next]_vars PROVE EarnedInv'
<1>1. AboutKept /\ SecuredKept /\ TakesSecured' BY AboutSteps, SecuredSteps DEF EarnedInv
<1>2. ReviewedSecured'
  BY <1>1, ReviewSteps DEF EarnedInv, ReviewedSecured, ReviewFrom, SecuredKept, Secured
<1>3. ShownSecured'
  <2> SUFFICES ASSUME NEW x \in Calls, call'[x].pc = "sent"
               PROVE  call'[x].shown \in Secured' \cup {NoBuild}
    BY DEF ShownSecured
  <2>1. CASE call[x].pc = "sent"
    <3>1. call'[x].shown = call[x].shown BY <1>1, <2>1 DEF AboutKept, IdleCall
    <3> QED BY <1>1, <2>1, <3>1 DEF EarnedInv, ShownSecured, SecuredKept
  <2>2. ASSUME NEW s \in Surfaces, NEW op \in {"confirm", "setup"}, Send(s, x, op)
        PROVE  call'[x].shown \in Secured' \cup {NoBuild}
    <3>1. call'[x].shown = screen[s].reviewed BY <2>2 DEF Send, TypeInv, CallTyped, IdleCall
    <3> QED BY <1>1, <3>1 DEF EarnedInv, ReviewedSecured, SecuredKept
  <2> QED BY <2>1, <2>2, Fates DEF Fate, SentFrom
<1>4. RefusalIsEarned'
  <2> SUFFICES ASSUME NEW x \in Calls, call'[x].why = "out_of_date"
               PROVE  (call'[x].shown \in gone' \/ ~Valid(call[x].shown)') /\ call'[x].shown = call[x].shown
    BY DEF RefusalIsEarned, Valid
  <2>1. CASE call[x].why = "out_of_date"
    <3>1. call[x].pc # "idle" /\ call[x].shown \in Made
      BY <2>1, CallOf, Bounds DEF CallFits
    <3>2. call'[x].shown = call[x].shown BY <1>1, <3>1 DEF AboutKept, IdleCall
    <3>3. call[x].shown \in gone \/ ~Valid(call[x].shown) BY <2>1 DEF EarnedInv, RefusalIsEarned
    <3> QED BY <1>1, <3>1, <3>2, <3>3, AgeSteps DEF SecuredKept
  <2>2. ASSUME NEW i \in DOMAIN jobs, StoreTake(i), jobs[i].call = x, ~ \E b \in Entry(i) : Valid(b)
        PROVE  (call'[x].shown \in gone' \/ ~Valid(call[x].shown)') /\ call'[x].shown = call[x].shown
    <3> DEFINE b == call[x].shown
    <3>1. i = 1 /\ i \in Takes /\ jobs[i].copy = held BY <2>2 DEF StoreTake, Turn, Takes, OneAtATime
    <3>2. call[x].pc = "take" /\ call'[x].shown = b BY <1>1, <2>2, <3>1, WaitingShown DEF TypeInv, TakesWait
    <3>3. b \in Made /\ builds[b].draft = call[x].draft BY <3>2, CallOf, Bounds DEF CallFits
    <3>4. b \in gone \cup Range(held)
      <4>1. SavedBefore(i) = {} BY <3>1, Bounds DEF SavedBefore, Saves
      <4>2. b \in gone \cup Range(held) \cup SavedBefore(i) BY <2>2, <3>1 DEF EarnedInv, TakesSecured
      <4> QED BY <4>1, <4>2
    <3>5. b \in Range(held) => ~Valid(b) BY <2>2, <3>1, <3>3 DEF Entry
    <3> QED BY <1>1, <3>2, <3>3, <3>4, <3>5, AgeSteps DEF SecuredKept
  <2> QED BY <2>1, <2>2, Fates DEF Fate, DateFrom
<1> QED BY <1>1, <1>2, <1>3, <1>4 DEF EarnedInv

\* The save of a build is queued before its reply is sent, and jobs run one at
\* a time: a Confirm is refused as out of date only if what it showed expired,
\* was taken, evicted or replaced, or its save died with the service worker.
THEOREM RefusalEarned == Spec => []RefusalIsEarned
<1>1. Init => EarnedInv
  <2> SUFFICES ASSUME Init PROVE EarnedInv OBVIOUS
  <2>1. DOMAIN jobs = {} BY DEF Init
  <2> QED BY <2>1 DEF Init, EarnedInv, ReviewedSecured, ShownSecured, TakesSecured, Takes,
                      RefusalIsEarned, IdleCall, Closed
<1>2. TypeInv /\ StoreInv /\ EarnedInv /\ [Next]_vars => EarnedInv' BY EarnedSteps DEF StoreInv
<1>3. EarnedInv => RefusalIsEarned BY DEF EarnedInv
<1> QED BY <1>1, <1>2, <1>3, PipelineTyped, StoreAlways, PTL DEF Spec
=============================================================================
