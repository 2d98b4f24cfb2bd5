----------------------------- MODULE UseProofs ------------------------------
(***************************************************************************)
(* What the screens over the wallets promise, for every number of wallets  *)
(* and requests.  A behaviour of WalletUse exercises one of its parts and  *)
(* leaves the others where they started, so it is a behaviour of each.     *)
(***************************************************************************)
EXTENDS WalletUse, Integers, SequenceTheorems, WellFoundedInduction, TLAPS

\* Every step of a behaviour is a step, or none, of each of its parts.
LEMMA ViewsOnly == [UseNext]_useVars => [ViewsNext]_viewsVars
BY DEF UseNext, useVars, Using

\* A record with these fields.
Shaped(r, fields) == DOMAIN r = fields /\ r = [f \in fields |-> r[f]]

-----------------------------------------------------------------------------
(* The root of the popup and the side panel. *)

ViewFields == {"rows", "active", "vault", "loaded", "hydrated", "succeeded", "failed", "gen",
               "opened", "route", "settings", "busy", "back", "open", "result"}
AnswerFields == {"rows", "active", "vault", "loaded", "ok"}
GetShape(r) == Shaped(r, {"why", "gen", "answer"}) /\ Shaped(r.answer, AnswerFields)

\* A view, and an answer on its way to it, that know of no account: the worker
\* had none once.
EmptyIsKnown(v, was) == Shaped(v, ViewFields) /\ (v.succeeded /\ v.rows = {} => was)
GetIsTrue(r, was) == GetShape(r) /\ (r.answer.ok /\ r.answer.rows = {} => was)

\* The inductive invariant of the root.
ViewsKept ==
    /\ Shaped(stored, {"rows", "active", "loaded"}) /\ (stored.rows = {} => wasEmpty)
    /\ EmptyIsKnown(view, wasEmpty)
    /\ \A r \in gets : GetIsTrue(r, wasEmpty)
    /\ tabOpened => wasEmpty

\* A request without an answer.
LEMMA AskIsTrue == ASSUME NEW why, NEW gen, NEW was PROVE GetIsTrue(Ask(why, gen), was)
<1>1. Shaped(NoAnswer, AnswerFields) /\ NoAnswer.ok = FALSE
  BY DEF Shaped, NoAnswer, AnswerFields
<1>2. Ask(why, gen).answer = NoAnswer /\ Shaped(Ask(why, gen), {"why", "gen", "answer"})
  BY DEF Ask, Shaped
<1> QED BY <1>1, <1>2 DEF GetIsTrue, GetShape

LEMMA ViewsStart == ViewsInit => ViewsKept
<1>. SUFFICES ASSUME ViewsInit PROVE ViewsKept
  OBVIOUS
<1>1. Shaped(stored, {"rows", "active", "loaded"}) /\ (stored.rows = {} => wasEmpty)
  BY DEF ViewsInit, Shaped
<1>2. \A route : EmptyIsKnown(FreshView(route), wasEmpty)
  BY DEF EmptyIsKnown, Shaped, ViewFields, FreshView
<1>3. EmptyIsKnown(view, wasEmpty)
  <2>. DEFINE home == FreshView("home")
  <2>1. EmptyIsKnown(home, wasEmpty)
    BY <1>2
  <2>2. view = FreshView("joinMultisig") \/ \E to : view = [home EXCEPT !.result = to]
    BY DEF ViewsInit
  <2>. HIDE DEF home
  <2>3. \A to : EmptyIsKnown([home EXCEPT !.result = to], wasEmpty)
    BY <2>1 DEF EmptyIsKnown, Shaped, ViewFields
  <2> QED BY <1>2, <2>2, <2>3
<1>4. GetIsTrue(Ask("load", 1), wasEmpty)
  BY AskIsTrue
<1>5. \A r \in gets : GetIsTrue(r, wasEmpty)
  BY <1>4 DEF ViewsInit, Ask
<1> QED BY <1>1, <1>3, <1>5 DEF ViewsInit, ViewsKept

\* Rendering changes the route and the layers over it, not the accounts.
LEMMA RendersKeeps ==
  ASSUME NEW v, Renders(v), tabOpened => wasEmpty, wasEmpty => wasEmpty', EmptyIsKnown(v, wasEmpty')
  PROVE  EmptyIsKnown(view', wasEmpty') /\ (tabOpened' => wasEmpty')
<1>. DEFINE u == Redirect(v)
            w == Gate(u)
<1>1. Shaped(u, ViewFields) /\ u.rows = v.rows /\ u.succeeded = v.succeeded
  BY DEF Redirect, EmptyIsKnown, Shaped, ViewFields
<1>. HIDE DEF u
<1>2. Shaped(w, ViewFields) /\ w.rows = v.rows /\ w.succeeded = v.succeeded
  BY <1>1 DEF Gate, Shaped, ViewFields
<1>3. view' = w
  BY DEF Renders, u
<1>. HIDE DEF w
<1>4. EmptyIsKnown(view', wasEmpty')
  BY <1>2, <1>3 DEF EmptyIsKnown
<1>5. tabOpened' => wasEmpty'
  BY DEF Renders, OpensSetup, KnowsItIsEmpty, EmptyIsKnown
<1> QED BY <1>4, <1>5

\* One more request without an answer.
LEMMA AsksKeeps ==
  ASSUME NEW why, NEW gen, NEW was, \A r \in gets : GetIsTrue(r, wasEmpty), wasEmpty => was,
         gets' \subseteq gets \cup {Ask(why, gen)}
  PROVE  \A r \in gets' : GetIsTrue(r, was)
<1>1. GetIsTrue(Ask(why, gen), was)
  BY AskIsTrue
<1> QED BY <1>1 DEF GetIsTrue

\* Another view of the same accounts, and no answer that was not there.
LEMMA ViewChanges ==
  ASSUME ViewsKept, UNCHANGED <<stored, wasEmpty>>, gets' \subseteq gets,
         NEW v, Renders(v), EmptyIsKnown(v, wasEmpty)
  PROVE  ViewsKept'
<1>1. EmptyIsKnown(view', wasEmpty') /\ (tabOpened' => wasEmpty')
  BY RendersKeeps DEF ViewsKept
<1> QED BY <1>1 DEF ViewsKept

\* The view as it is, but for fields that do not say which accounts there are.
LEMMA SameAccounts ==
  ASSUME ViewsKept, NEW x, NEW y, NEW z
  PROVE  /\ EmptyIsKnown([view EXCEPT !.route = x], wasEmpty)
         /\ EmptyIsKnown([view EXCEPT !.route = x, !.result = y], wasEmpty)
         /\ EmptyIsKnown([view EXCEPT !.back = x, !.route = y], wasEmpty)
         /\ EmptyIsKnown([view EXCEPT !.settings = x], wasEmpty)
         /\ EmptyIsKnown([view EXCEPT !.busy = x], wasEmpty)
         /\ EmptyIsKnown([view EXCEPT !.active = x], wasEmpty)
         /\ EmptyIsKnown([view EXCEPT !.gen = x, !.failed = y], wasEmpty)
         /\ EmptyIsKnown([view EXCEPT !.route = x, !.back = y, !.busy = z], wasEmpty)
         /\ EmptyIsKnown([view EXCEPT !.route = x, !.busy = z], wasEmpty)
BY DEF ViewsKept, EmptyIsKnown, Shaped, ViewFields

LEMMA ViewsKeep == ViewsKept /\ [ViewsNext]_viewsVars => ViewsKept'
<1>. SUFFICES ASSUME ViewsKept, [ViewsNext]_viewsVars PROVE ViewsKept'
  OBVIOUS
<1>0. EmptyIsKnown(view, wasEmpty) /\ \A r \in gets : GetIsTrue(r, wasEmpty)
  BY DEF ViewsKept
\* What an answer shows of the accounts is what the worker had.
<1>1. ASSUME NEW v, EmptyIsKnown(v, wasEmpty), NEW r, GetIsTrue(r, wasEmpty), r.answer.ok
      PROVE  EmptyIsKnown(Snapshot(v, r.answer), wasEmpty)
  BY <1>1 DEF Snapshot, EmptyIsKnown, GetIsTrue, Shaped, ViewFields
<1>2. ASSUME NEW v, EmptyIsKnown(v, wasEmpty), NEW why, NEW locked
      PROVE  EmptyIsKnown(After(v, why, locked), wasEmpty)
  <2>1. CASE why = "menu"
    <3>1. After(v, why, locked).rows = v.rows /\ Shaped(After(v, why, locked), ViewFields)
          /\ After(v, why, locked).succeeded = v.succeeded
      BY <1>2, <2>1 DEF After, EmptyIsKnown, Shaped, ViewFields
    <3> QED BY <1>2, <3>1 DEF EmptyIsKnown
  <2>2. CASE why = "unlock"
    <3>1. After(v, why, locked).rows = v.rows /\ Shaped(After(v, why, locked), ViewFields)
          /\ After(v, why, locked).succeeded = v.succeeded
      BY <1>2, <2>2 DEF After, EmptyIsKnown, Shaped, ViewFields
    <3> QED BY <1>2, <3>1 DEF EmptyIsKnown
  <2>3. CASE why = "login"
    <3>1. After(v, why, locked).rows = v.rows /\ Shaped(After(v, why, locked), ViewFields)
          /\ After(v, why, locked).succeeded = v.succeeded
      BY <1>2, <2>3 DEF After, EmptyIsKnown, Shaped, ViewFields
    <3> QED BY <1>2, <3>1 DEF EmptyIsKnown
  <2>4. CASE why \notin {"menu", "unlock", "login"}
    BY <1>2, <2>4 DEF After
  <2> QED BY <2>1, <2>2, <2>3, <2>4
<1>3. ASSUME NEW r \in gets, ReadAccounts(r) PROVE ViewsKept'
  <2>. DEFINE a == [rows |-> stored.rows, active |-> stored.active,
                    vault |-> stored.active \in stored.rows \cap SeedWallets,
                    loaded |-> /\ stored.active \in stored.rows \cap SeedWallets
                               /\ stored.active \in stored.loaded, ok |-> TRUE]
              g == [r EXCEPT !.answer = a]
  <2>1. gets' = (gets \ {r}) \cup {g}
    BY <1>3 DEF ReadAccounts
  <2>2. Shaped(a, AnswerFields) /\ (a.rows = {} => wasEmpty)
    BY DEF Shaped, AnswerFields, ViewsKept
  <2>. HIDE DEF a
  <2>3. GetIsTrue(g, wasEmpty)
    BY <1>0, <2>2 DEF GetIsTrue, GetShape, Shaped
  <2>. HIDE DEF g
  <2> QED BY <1>3, <2>1, <2>3 DEF ReadAccounts, ViewsKept
<1>4. ASSUME NEW r \in gets, Loaded(r) PROVE ViewsKept'
  <2>. DEFINE v == [view EXCEPT !.rows = r.answer.rows, !.active = r.answer.active,
                          !.vault = r.answer.vault, !.loaded = r.answer.loaded,
                          !.succeeded = TRUE, !.failed = FALSE, !.hydrated = TRUE]
              to == ResolveMainRoute(LockedIn(r.answer),
                         IF view.route \in OnboardingRoutes THEN "home" ELSE view.route)
              w == [v EXCEPT !.route = to]
  <2>1. \/ UNCHANGED <<view, tabOpened>>
        \/ Renders(v)
        \/ Renders(w)
    BY <1>4 DEF Loaded
  <2>2. EmptyIsKnown(v, wasEmpty)
    BY <1>0, <1>4 DEF EmptyIsKnown, GetIsTrue, Shaped, ViewFields, Loaded
  <2>. HIDE DEF v
  <2>3. EmptyIsKnown(w, wasEmpty)
    BY <2>2 DEF EmptyIsKnown, Shaped, ViewFields
  <2>. HIDE DEF w
  <2>4. UNCHANGED <<stored, wasEmpty>> /\ gets' \subseteq gets
    BY <1>4 DEF Loaded
  <2> QED BY <2>1, <2>2, <2>3, <2>4, ViewChanges DEF ViewsKept
<1>5. ASSUME NEW r \in gets, LoadFailed(r) PROVE ViewsKept'
  <2>. DEFINE v == [view EXCEPT !.succeeded = FALSE, !.failed = TRUE, !.hydrated = TRUE]
  <2>1. \/ UNCHANGED <<view, tabOpened>>
        \/ Renders(v)
    BY <1>5 DEF LoadFailed
  <2>2. EmptyIsKnown(v, wasEmpty)
    BY <1>0 DEF EmptyIsKnown, Shaped, ViewFields
  <2>. HIDE DEF v
  <2>3. UNCHANGED <<stored, wasEmpty>> /\ gets' \subseteq gets
    BY <1>5 DEF LoadFailed
  <2> QED BY <2>1, <2>2, <2>3, ViewChanges DEF ViewsKept
<1>6. ASSUME NEW r \in gets, Refreshed(r) PROVE ViewsKept'
  <2>1. EmptyIsKnown(Snapshot(view, r.answer), wasEmpty)
    BY <1>0, <1>1, <1>6 DEF Refreshed
  <2>2. EmptyIsKnown(After(Snapshot(view, r.answer), r.why, LockedIn(r.answer)), wasEmpty)
    BY <2>1, <1>2
  <2> QED BY <1>6, <2>2, ViewChanges DEF Refreshed
<1>7. ASSUME NEW r \in gets, RefreshRefused(r) PROVE ViewsKept'
  <2>1. EmptyIsKnown(After(view, r.why, FALSE), wasEmpty)
    BY <1>0, <1>2
  <2> QED BY <1>0, <1>7, <2>1, ViewChanges DEF RefreshRefused
<1>8. ASSUME NEW r \in gets, RefreshTimesOut(r) PROVE ViewsKept'
  <2>1. PICK x : Renders([view EXCEPT !.busy = x])
    BY <1>8 DEF RefreshTimesOut
  <2> QED BY <1>8, <2>1, SameAccounts, ViewChanges DEF RefreshTimesOut
<1>9. ASSUME ReopenResult PROVE ViewsKept'
  BY <1>9, SameAccounts, ViewChanges DEF ReopenResult
<1>10. ASSUME RetryLoad PROVE ViewsKept'
  <2>1. EmptyIsKnown(view', wasEmpty)
    BY <1>10, SameAccounts DEF RetryLoad
  <2>2. \A r \in gets' : GetIsTrue(r, wasEmpty)
    BY <1>0, <1>10, AsksKeeps DEF RetryLoad, Asks
  <2> QED BY <1>10, <2>1, <2>2 DEF RetryLoad, ViewsKept
<1>11. ASSUME SyncBringsNews PROVE ViewsKept'
  <2>1. \A r \in gets' : GetIsTrue(r, wasEmpty)
    BY <1>0, <1>11, AsksKeeps DEF SyncBringsNews, Asks
  <2> QED BY <1>11, <2>1 DEF SyncBringsNews, ViewsKept
<1>12. ASSUME NEW to, Navigate(to) PROVE ViewsKept'
  BY <1>12, SameAccounts, ViewChanges DEF Navigate
<1>13. ASSUME ToggleSettings PROVE ViewsKept'
  <2>1. PICK x : Renders([view EXCEPT !.settings = x])
    BY <1>13 DEF ToggleSettings
  <2> QED BY <1>13, <2>1, SameAccounts, ViewChanges DEF ToggleSettings
<1>14. ASSUME MigrationNeedsUnlock PROVE ViewsKept'
  BY <1>14, SameAccounts, ViewChanges DEF MigrationNeedsUnlock
<1>15. ASSUME LogoutOrder \/ UnlockVault \/ \E w \in ViewWallets : SelectAccount(w) PROVE ViewsKept'
  <2>1. EmptyIsKnown(view', wasEmpty)
    BY <1>0, <1>15, SameAccounts DEF LogoutOrder, UnlockVault, SelectAccount
  <2> QED BY <1>15, <2>1 DEF LogoutOrder, UnlockVault, SelectAccount, ViewsKept
<1>16. ASSUME NEW w \in ViewWallets, DeleteAccount(w) PROVE ViewsKept'
  BY <1>16 DEF DeleteAccount, ViewsKept
<1>17. ASSUME NEW w \in ViewWallets, LoginStored(w) PROVE ViewsKept'
  <2>1. EmptyIsKnown(view', wasEmpty)
    BY <1>17, SameAccounts DEF LoginStored
  <2>2. \A r \in gets' : GetIsTrue(r, wasEmpty)
    BY <1>0, <1>17, AsksKeeps DEF LoginStored, Asks
  <2>3. Shaped(stored, {"rows", "active", "loaded"})' /\ stored'.rows # {}
    BY <1>17 DEF LoginStored, ViewsKept, Shaped
  <2> QED BY <1>17, <2>1, <2>2, <2>3 DEF LoginStored, ViewsKept
<1>18. ASSUME NEW w \in ViewWallets, OtherPageAdds(w) PROVE ViewsKept'
  BY <1>18 DEF OtherPageAdds, ViewsKept, Shaped
<1>19. ASSUME ViewsStop PROVE ViewsKept'
  <2>1. Shaped(stored, {"rows", "active", "loaded"})' /\ stored'.rows = stored.rows
    BY <1>19 DEF ViewsStop, ViewsKept, Shaped
  <2> QED BY <1>19, <2>1 DEF ViewsStop, ViewsKept
<1>20. ASSUME NEW m \in orders, Selected(m) PROVE ViewsKept'
  <2>1. \A r \in gets' : GetIsTrue(r, wasEmpty)
    BY <1>0, <1>20, AsksKeeps DEF Selected, Asks
  <2>2. Shaped(stored, {"rows", "active", "loaded"})' /\ stored'.rows = stored.rows
    BY <1>20 DEF Selected, ViewsKept, Shaped
  <2> QED BY <1>20, <2>1, <2>2 DEF Selected, ViewsKept
<1>21. ASSUME NEW m \in orders, Unlocked(m) PROVE ViewsKept'
  <2>1. \A r \in gets' : GetIsTrue(r, wasEmpty)
    BY <1>0, <1>21, AsksKeeps DEF Unlocked, Asks
  <2>2. Shaped(stored, {"rows", "active", "loaded"})' /\ stored'.rows = stored.rows
    BY <1>21 DEF Unlocked, ViewsKept, Shaped
  <2> QED BY <1>21, <2>1, <2>2 DEF Unlocked, ViewsKept
<1>22. ASSUME NEW m \in orders, OrderFails(m) PROVE ViewsKept'
  <2>1. PICK x : Renders([view EXCEPT !.busy = x])
    BY <1>22 DEF OrderFails
  <2> QED BY <1>22, <2>1, SameAccounts, ViewChanges DEF OrderFails
\* A view of no account, and one that goes away.
<1>23. ASSUME NEW v, NEW was, EmptyIsKnown(v, was)
       PROVE  /\ EmptyIsKnown([v EXCEPT !.opened = TRUE], was)
              /\ EmptyIsKnown(Exit(v), was)
  BY <1>23 DEF EmptyIsKnown, Shaped, ViewFields, Exit
<1>24. ASSUME NEW rows, NEW w, NEW was, rows = {} => was
       PROVE  EmptyIsKnown(Snapshot(view, [NoAnswer EXCEPT !.rows = rows, !.active = w]), was)
  <2>. DEFINE a == [NoAnswer EXCEPT !.rows = rows, !.active = w]
  <2>1. Shaped(a, AnswerFields) /\ a.rows = rows
    BY DEF NoAnswer, Shaped, AnswerFields
  <2>. HIDE DEF a
  <2>2. EmptyIsKnown(Snapshot(view, a), was)
    BY <1>0, <1>24, <2>1 DEF Snapshot, EmptyIsKnown, Shaped, ViewFields
  <2> QED BY <2>2 DEF a
<1>25. ASSUME NEW m \in orders, Deleted(m) PROVE ViewsKept'
  <2>. DEFINE rows == stored.rows \ {m.w}
              next == IF stored.active \in rows \/ rows = {} THEN stored.active
                      ELSE CHOOSE w \in rows : \A x \in rows : w <= x
              v == Snapshot(view, [NoAnswer EXCEPT !.rows = rows, !.active = next])
  <2>1. /\ stored' = [rows |-> rows, loaded |-> stored.loaded \ {m.w},
                      active |-> IF rows = {} THEN NoWallet ELSE next]
        /\ wasEmpty' = (wasEmpty \/ rows = {})
        /\ IF rows = {} THEN Renders(Exit([v EXCEPT !.opened = TRUE])) /\ UNCHANGED gets
           ELSE Renders(v) /\ Asks(Ask("delete", 0))
    BY <1>25 DEF Deleted
  <2>. HIDE DEF rows, next
  <2>2. EmptyIsKnown(v, wasEmpty')
    BY <1>24, <2>1
  <2>. HIDE DEF v
  <2>3. EmptyIsKnown(Exit([v EXCEPT !.opened = TRUE]), wasEmpty')
    BY <2>2, <1>23
  <2>4. EmptyIsKnown(view', wasEmpty') /\ (tabOpened' => wasEmpty')
    BY <2>1, <2>2, <2>3, RendersKeeps DEF ViewsKept
  <2>5. \A r \in gets' : GetIsTrue(r, wasEmpty')
    BY <1>0, <2>1, AsksKeeps DEF Asks
  <2>6. Shaped(stored, {"rows", "active", "loaded"})' /\ (stored'.rows = {} => wasEmpty')
    BY <2>1 DEF Shaped
  <2> QED BY <2>4, <2>5, <2>6 DEF ViewsKept
<1>26. ASSUME NEW m \in orders, LoggedOut(m) PROVE ViewsKept'
  <2>. DEFINE v == Snapshot(view, NoAnswer)
  <2>1. /\ stored' = [rows |-> {}, active |-> NoWallet, loaded |-> {}] /\ wasEmpty'
        /\ Renders(Exit([v EXCEPT !.opened = TRUE])) /\ UNCHANGED gets
    BY <1>26 DEF LoggedOut
  <2>2. EmptyIsKnown(v, wasEmpty')
    BY <1>0, <2>1 DEF Snapshot, NoAnswer, EmptyIsKnown, Shaped, ViewFields
  <2>. HIDE DEF v
  <2>3. EmptyIsKnown(Exit([v EXCEPT !.opened = TRUE]), wasEmpty')
    BY <2>2, <1>23
  <2>4. EmptyIsKnown(view', wasEmpty') /\ (tabOpened' => wasEmpty')
    BY <2>1, <2>3, RendersKeeps DEF ViewsKept
  <2>5. \A r \in gets' : GetIsTrue(r, wasEmpty')
    BY <1>0, <2>1 DEF GetIsTrue
  <2>6. Shaped(stored, {"rows", "active", "loaded"})'
    BY <2>1 DEF Shaped
  <2> QED BY <2>1, <2>4, <2>5, <2>6 DEF ViewsKept
<1>27. CASE UNCHANGED viewsVars
  BY <1>27 DEF viewsVars, ViewsKept
<1> QED BY <1>3, <1>4, <1>5, <1>6, <1>7, <1>8, <1>9, <1>10, <1>11, <1>12, <1>13, <1>14, <1>15,
           <1>16, <1>17, <1>18, <1>19, <1>20, <1>21, <1>22, <1>25, <1>26, <1>27
        DEF ViewsNext, ViewsAnswer

\* The set-up tab is opened, and its prompt covers the screens, only if the worker has
\* had no account, whatever GET_ACCOUNTS failed or came late (LatchRoot.tsx).
THEOREM SetupNeedsAnEmptyWallet == UseSpec => []SetupOnlyWhenEmpty
<1>1. UseInit => ViewsKept
  BY ViewsStart DEF UseInit
<1>2. ViewsKept /\ [UseNext]_useVars => ViewsKept'
  BY ViewsOnly, ViewsKeep
<1>3. ViewsKept => SetupOnlyWhenEmpty
  BY DEF ViewsKept, SetupOnlyWhenEmpty, EmptyIsKnown, ShowsSetup
<1> QED BY <1>1, <1>2, <1>3, PTL DEF UseSpec

-----------------------------------------------------------------------------
(* The backup passkeys. *)

JobFields == {"kind", "cred", "at", "tries"}

\* A job that may yet send the transaction that adds its passkey.
MayAdd(j) == j.kind = "add" /\ j.at \in {"build", "sign"}

\* What is so of a job: the passkey it may add was never sent, the one it
\* removes was added, and what it is about to record has settled.
JobIsEarned(j) ==
    /\ Shaped(j, JobFields)
    /\ j.at = "keep" => j.kind = "add"
    /\ MayAdd(j) => /\ j.cred \in Backups /\ signers[j.cred] # Unlisted
                    /\ j.cred \notin chain.added /\ <<"add", j.cred>> \notin chain.sent
    /\ j.kind = "remove" /\ j.at \in {"sign", "confirm", "record"} => j.cred \in chain.added
    /\ j.at = "record" =>
          IF j.kind = "remove" THEN j.cred \notin chain.rule ELSE j.cred \in chain.added

ChainIsEarned ==
    /\ Shaped(chain, {"rule", "index", "sent", "added", "proved"})
    /\ \A c \in chain.rule : c \in chain.added
    /\ \A c \in chain.index : c \in chain.added
    /\ \A tx \in chain.sent : /\ tx = <<tx[1], tx[2]>>
                              /\ tx[1] = "add" => tx[2] \notin chain.added

\* The inductive invariant of the backup passkeys.
SignersKept ==
    /\ signers = [c \in Backups |-> signers[c]]
    /\ ChainIsEarned
    /\ \A j \in signerJobs : JobIsEarned(j)
    /\ \A i, j \in signerJobs : MayAdd(i) /\ MayAdd(j) /\ i.cred = j.cred => i = j
    /\ SignersAreListed

LEMMA SignersStart == SignersInit => SignersKept
<1>. SUFFICES ASSUME SignersInit PROVE SignersKept
  OBVIOUS
<1>1. ChainIsEarned
  BY DEF SignersInit, ChainIsEarned, Shaped
<1>2. SignersAreListed
  BY DEF SignersInit, SignersAreListed, Unlisted
<1> QED BY <1>1, <1>2 DEF SignersInit, SignersKept

\* A job at another place is a job of the same passkey.
LEMMA JobMoved ==
  ASSUME NEW j, Shaped(j, JobFields), NEW at
  PROVE  LET k == [j EXCEPT !.at = at]
         IN Shaped(k, JobFields) /\ k.at = at /\ k.kind = j.kind /\ k.cred = j.cred
BY DEF Shaped, JobFields

\* One job moves, or ends; what is recorded of others does not change.
LEMMA JobStep ==
  ASSUME SignersKept, NEW j \in signerJobs, NEW k,
         signerJobs' \subseteq (signerJobs \ {j}) \cup {k},
         k \in signerJobs' => JobIsEarned(k)' /\ (MayAdd(k) => MayAdd(j) /\ k.cred = j.cred),
         \A i \in signerJobs \ {j} : JobIsEarned(i) => JobIsEarned(i)',
         signers' = [c \in Backups |-> signers'[c]], ChainIsEarned', SignersAreListed'
  PROVE  SignersKept'
<1>1. \A i \in signerJobs' : JobIsEarned(i)'
  BY DEF SignersKept
<1>2. \A a, b \in signerJobs' : MayAdd(a) /\ MayAdd(b) /\ a.cred = b.cred => a = b
  <2>. SUFFICES ASSUME NEW a \in signerJobs', NEW b \in signerJobs', MayAdd(a), MayAdd(b),
                       a.cred = b.cred
                PROVE  a = b
    OBVIOUS
  <2>1. CASE a = k /\ b # k
    BY <2>1 DEF SignersKept
  <2>2. CASE b = k /\ a # k
    BY <2>2 DEF SignersKept
  <2>3. CASE a # k /\ b # k
    BY <2>3 DEF SignersKept
  <2> QED BY <2>1, <2>2, <2>3
<1>3. (\A a, b \in signerJobs : MayAdd(a) /\ MayAdd(b) /\ a.cred = b.cred => a = b)'
  BY <1>2 DEF MayAdd
<1> QED BY <1>1, <1>3 DEF SignersKept

LEMMA RecordKeeps ==
  ASSUME SignersKept, NEW c, NEW rec, Record(c, rec)
  PROVE  /\ signers' = [d \in Backups |-> signers'[d]]
         /\ \A d \in Backups : signers'[d] = IF d = c THEN rec ELSE signers[d]
BY DEF SignersKept, Record

LEMMA BuildsKeep == ASSUME SignersKept, NEW j \in signerJobs, JobBuilds(j) PROVE SignersKept'
<1>1. JobIsEarned(j) /\ j.at = "build" /\ UNCHANGED chain
  BY DEF JobBuilds, SignersKept
<1>0. ChainIsEarned' /\ ChainIsEarned
  BY <1>1 DEF SignersKept, ChainIsEarned
<1>2. CASE \E code : JobEnds(j, code) /\ UNCHANGED signers
  <2>1. signerJobs' = signerJobs \ {j}
    BY <1>2 DEF JobEnds
  <2>2. \A i \in signerJobs \ {j} : JobIsEarned(i) => JobIsEarned(i)'
    BY <1>1, <1>2 DEF JobIsEarned, MayAdd
  <2>3. SignersAreListed' /\ signers' = [c \in Backups |-> signers'[c]]
    BY <1>1, <1>2 DEF SignersAreListed, SignersKept
  <2>4. signerJobs' \subseteq (signerJobs \ {j}) \cup {j} /\ j \notin signerJobs'
    BY <2>1
  <2> QED BY <1>0, <2>2, <2>3, <2>4, JobStep
<1>3. CASE /\ j.cred \in chain.rule /\ JobEnds(j, "already_configured")
           /\ Record(j.cred, Listed("onchain", FALSE))
  <2>1. signerJobs' = signerJobs \ {j}
    BY <1>3 DEF JobEnds
  <2>2. /\ signers' = [d \in Backups |-> signers'[d]]
        /\ \A d \in Backups : signers'[d] = IF d = j.cred THEN Listed("onchain", FALSE) ELSE signers[d]
    BY <1>3, RecordKeeps
  <2>3. Listed("onchain", FALSE) # Unlisted /\ Listed("onchain", FALSE).status = "onchain"
    BY DEF Listed, Unlisted
  <2>4. \A i \in signerJobs \ {j} : JobIsEarned(i) => JobIsEarned(i)'
    BY <1>1, <2>2, <2>3 DEF JobIsEarned, MayAdd
  <2>5. j.cred \in chain.added
    BY <1>0, <1>3 DEF ChainIsEarned
  <2>6. SignersAreListed'
    BY <1>1, <2>2, <2>3, <2>5 DEF SignersAreListed, SignersKept
  <2>7. signerJobs' \subseteq (signerJobs \ {j}) \cup {j} /\ j \notin signerJobs'
    BY <2>1
  <2> QED BY <1>0, <2>2, <2>4, <2>6, <2>7, JobStep
<1>4. CASE /\ IF j.kind = "add" THEN chain.rule = {} ELSE j.cred \in chain.index
           /\ JobMoves(j, "sign") /\ UNCHANGED signers
  <2>. DEFINE k == [j EXCEPT !.at = "sign"]
  <2>1. Shaped(k, JobFields) /\ k.at = "sign" /\ k.kind = j.kind /\ k.cred = j.cred
    BY <1>1, JobMoved DEF JobIsEarned
  <2>2. signerJobs' = (signerJobs \ {j}) \cup {k}
    BY <1>4 DEF JobMoves
  <2>. HIDE DEF k
  <2>3. JobIsEarned(k)' /\ (MayAdd(k) => MayAdd(j) /\ k.cred = j.cred)
    <3>1. MayAdd(k) => MayAdd(j)
      BY <1>1, <2>1 DEF MayAdd
    <3>2. k.kind = "remove" => k.cred \in chain.added
      BY <1>0, <1>4, <2>1 DEF ChainIsEarned
    <3> QED BY <1>1, <1>4, <2>1, <3>1, <3>2 DEF JobIsEarned, MayAdd
  <2>4. \A i \in signerJobs \ {j} : JobIsEarned(i) => JobIsEarned(i)'
    BY <1>1, <1>4 DEF JobIsEarned, MayAdd
  <2>5. SignersAreListed' /\ signers' = [c \in Backups |-> signers'[c]]
    BY <1>1, <1>4 DEF SignersAreListed, SignersKept
  <2> QED BY <1>0, <2>2, <2>3, <2>4, <2>5, JobStep
<1> QED BY <1>2, <1>3, <1>4 DEF JobBuilds

LEMMA SignsKeep == ASSUME SignersKept, NEW j \in signerJobs, JobSigns(j) PROVE SignersKept'
<1>1. JobIsEarned(j) /\ j.at = "sign" /\ UNCHANGED signers
  BY DEF JobSigns, SignersKept
<1>0. signers' = [c \in Backups |-> signers'[c]]
  BY <1>1 DEF SignersKept
<1>2. CASE UNCHANGED chain /\ JobEnds(j, "not_signed")
  <2>1. signerJobs' = signerJobs \ {j}
    BY <1>2 DEF JobEnds
  <2>2. \A i \in signerJobs \ {j} : JobIsEarned(i) => JobIsEarned(i)'
    BY <1>1, <1>2 DEF JobIsEarned, MayAdd
  <2>3. SignersAreListed' /\ ChainIsEarned'
    BY <1>1, <1>2 DEF SignersAreListed, SignersKept, ChainIsEarned
  <2>4. signerJobs' \subseteq (signerJobs \ {j}) \cup {j} /\ j \notin signerJobs'
    BY <2>1
  <2> QED BY <1>0, <2>2, <2>3, <2>4, JobStep
<1>3. ASSUME chain' = [chain EXCEPT !.sent = @ \cup {<<j.kind, j.cred>>}],
             JobMoves(j, IF j.kind = "add" THEN "keep" ELSE "confirm")
             \/ JobEnds(j, "signer_confirm_missing_hash")
      PROVE  SignersKept'
  <2>. DEFINE to == IF j.kind = "add" THEN "keep" ELSE "confirm"
              k == [j EXCEPT !.at = to]
  <2>1. Shaped(k, JobFields) /\ k.at = to /\ k.kind = j.kind /\ k.cred = j.cred
    BY <1>1, JobMoved DEF JobIsEarned
  <2>2. signerJobs' \subseteq (signerJobs \ {j}) \cup {k}
    BY <1>3 DEF JobMoves, JobEnds
  <2>. HIDE DEF k
  <2>3. /\ Shaped(chain, {"rule", "index", "sent", "added", "proved"})'
        /\ chain'.rule = chain.rule /\ chain'.index = chain.index /\ chain'.added = chain.added
        /\ chain'.sent = chain.sent \cup {<<j.kind, j.cred>>}
    BY <1>3 DEF SignersKept, ChainIsEarned, Shaped
  <2>4. ChainIsEarned'
    <3>1. j.kind = "add" => j.cred \notin chain.added
      BY <1>1 DEF JobIsEarned, MayAdd
    <3> QED BY <2>3, <3>1 DEF SignersKept, ChainIsEarned
  <2>5. JobIsEarned(k)' /\ ~MayAdd(k)
    BY <1>1, <2>1, <2>3 DEF JobIsEarned, MayAdd
  <2>6. \A i \in signerJobs \ {j} : JobIsEarned(i) => JobIsEarned(i)'
    <3>. SUFFICES ASSUME NEW i \in signerJobs, i # j, JobIsEarned(i) PROVE JobIsEarned(i)'
      OBVIOUS
    <3>1. MayAdd(i) => <<"add", i.cred>> # <<j.kind, j.cred>>
      BY <1>1 DEF SignersKept, MayAdd
    <3> QED BY <1>1, <2>3, <3>1 DEF JobIsEarned, MayAdd
  <2>7. SignersAreListed'
    <3>1. j.kind = "add" => signers[j.cred] # Unlisted
      BY <1>1 DEF JobIsEarned, MayAdd
    <3> QED BY <1>1, <2>3, <3>1 DEF SignersAreListed, SignersKept
  <2> QED BY <1>0, <2>2, <2>4, <2>5, <2>6, <2>7, JobStep
<1> QED BY <1>2, <1>3 DEF JobSigns

LEMMA KeepsHashKeeps == ASSUME SignersKept, NEW j \in signerJobs, JobKeepsHash(j) PROVE SignersKept'
<1>1. JobIsEarned(j) /\ j.at = "keep" /\ UNCHANGED chain /\ Record(j.cred, Listed("pending", TRUE))
  BY DEF JobKeepsHash, SignersKept
<1>2. /\ signers' = [d \in Backups |-> signers'[d]]
      /\ \A d \in Backups : signers'[d] = IF d = j.cred THEN Listed("pending", TRUE) ELSE signers[d]
  BY <1>1, RecordKeeps
<1>3. Listed("pending", TRUE) # Unlisted /\ Listed("pending", TRUE).status = "pending"
  BY DEF Listed, Unlisted
<1>. DEFINE k == [j EXCEPT !.at = "confirm"]
<1>4. Shaped(k, JobFields) /\ k.at = "confirm" /\ k.kind = j.kind /\ k.cred = j.cred
  BY <1>1, JobMoved DEF JobIsEarned
<1>5. signerJobs' = (signerJobs \ {j}) \cup {k}
  BY DEF JobKeepsHash, JobMoves
<1>. HIDE DEF k
<1>6. JobIsEarned(k)' /\ ~MayAdd(k)
  BY <1>1, <1>4 DEF JobIsEarned, MayAdd
<1>7. \A i \in signerJobs \ {j} : JobIsEarned(i) => JobIsEarned(i)'
  BY <1>1, <1>2, <1>3 DEF JobIsEarned, MayAdd
<1>8. SignersAreListed' /\ ChainIsEarned'
  BY <1>1, <1>2, <1>3 DEF SignersAreListed, SignersKept, ChainIsEarned
<1> QED BY <1>2, <1>5, <1>6, <1>7, <1>8, JobStep

LEMMA ConfirmsKeep == ASSUME SignersKept, NEW j \in signerJobs, JobConfirms(j) PROVE SignersKept'
<1>1. JobIsEarned(j) /\ j.at = "confirm" /\ UNCHANGED signers
  BY DEF JobConfirms, SignersKept
<1>0. signers' = [c \in Backups |-> signers'[c]]
  BY <1>1 DEF SignersKept
<1>2. ASSUME Settled(j), chain' = [chain EXCEPT !.index = IF j.kind = "remove" THEN @ \ {j.cred}
                                                           ELSE @ \cup {j.cred}],
             JobMoves(j, "record") \/ JobEnds(j, "lost")
      PROVE  SignersKept'
  <2>. DEFINE k == [j EXCEPT !.at = "record"]
  <2>1. Shaped(k, JobFields) /\ k.at = "record" /\ k.kind = j.kind /\ k.cred = j.cred
    BY <1>1, JobMoved DEF JobIsEarned
  <2>2. signerJobs' \subseteq (signerJobs \ {j}) \cup {k}
    BY <1>2 DEF JobMoves, JobEnds
  <2>. HIDE DEF k
  <2>3. /\ Shaped(chain, {"rule", "index", "sent", "added", "proved"})'
        /\ chain'.rule = chain.rule /\ chain'.sent = chain.sent /\ chain'.added = chain.added
        /\ chain'.index = IF j.kind = "remove" THEN chain.index \ {j.cred}
                          ELSE chain.index \cup {j.cred}
    BY <1>2 DEF SignersKept, ChainIsEarned, Shaped
  <2>4. ChainIsEarned'
    BY <1>2, <2>3 DEF SignersKept, ChainIsEarned, Settled
  <2>5. JobIsEarned(k)' /\ ~MayAdd(k)
    BY <1>1, <1>2, <2>1, <2>3 DEF JobIsEarned, MayAdd, Settled
  <2>6. \A i \in signerJobs \ {j} : JobIsEarned(i) => JobIsEarned(i)'
    BY <1>1, <2>3 DEF JobIsEarned, MayAdd
  <2>7. SignersAreListed'
    BY <1>1, <2>3 DEF SignersAreListed, SignersKept
  <2> QED BY <1>0, <2>2, <2>4, <2>5, <2>6, <2>7, JobStep
<1>3. ASSUME UNCHANGED chain, NEW k, signerJobs' \subseteq (signerJobs \ {j}) \cup {k},
             k \in signerJobs' => /\ Shaped(k, JobFields) /\ k.at = "confirm"
                                  /\ k.kind = j.kind /\ k.cred = j.cred
      PROVE  SignersKept'
  <2>1. k \in signerJobs' => JobIsEarned(k)' /\ ~MayAdd(k)
    BY <1>1, <1>3 DEF JobIsEarned, MayAdd
  <2>2. \A i \in signerJobs \ {j} : JobIsEarned(i) => JobIsEarned(i)'
    BY <1>1, <1>3 DEF JobIsEarned, MayAdd
  <2>3. SignersAreListed' /\ ChainIsEarned'
    BY <1>1, <1>3 DEF SignersAreListed, SignersKept, ChainIsEarned
  <2> QED BY <1>0, <1>3, <2>1, <2>2, <2>3, JobStep
<1>4. CASE signerJobs' = (signerJobs \ {j}) \cup {[j EXCEPT !.tries = @ + 1]} /\ UNCHANGED chain
  <2>. DEFINE k == [j EXCEPT !.tries = @ + 1]
  <2>1. Shaped(k, JobFields) /\ k.at = "confirm" /\ k.kind = j.kind /\ k.cred = j.cred
    BY <1>1 DEF JobIsEarned, Shaped, JobFields
  <2>2. signerJobs' \subseteq (signerJobs \ {j}) \cup {k}
    BY <1>4
  <2>. HIDE DEF k
  <2> QED BY <1>3, <1>4, <2>1, <2>2
<1>5. CASE (\E code : JobEnds(j, code)) /\ UNCHANGED chain
  <2>1. signerJobs' \subseteq (signerJobs \ {j}) \cup {j} /\ j \notin signerJobs'
    BY <1>5 DEF JobEnds
  <2> QED BY <1>3, <1>5, <2>1
<1> QED BY <1>2, <1>4, <1>5 DEF JobConfirms

LEMMA RecordsKeep == ASSUME SignersKept, NEW j \in signerJobs, JobRecords(j) PROVE SignersKept'
<1>. DEFINE rec == IF j.kind = "remove" THEN Unlisted ELSE Listed("onchain", FALSE)
<1>1. JobIsEarned(j) /\ j.at = "record" /\ UNCHANGED chain /\ Record(j.cred, rec)
  BY DEF JobRecords, SignersKept
<1>. HIDE DEF rec
<1>2. /\ signers' = [d \in Backups |-> signers'[d]]
      /\ \A d \in Backups : signers'[d] = IF d = j.cred THEN rec ELSE signers[d]
  BY <1>1, RecordKeeps
<1>3. /\ rec = Unlisted => j.kind = "remove"
      /\ rec.status = "onchain" => j.kind # "remove"
  BY DEF rec, Listed, Unlisted
<1>4. signerJobs' \subseteq (signerJobs \ {j}) \cup {j} /\ j \notin signerJobs'
  BY DEF JobRecords, JobEnds
<1>5. /\ j.cred \in chain.added
      /\ j.kind = "remove" => j.cred \notin chain.rule
  BY <1>1 DEF JobIsEarned
<1>6. <<"add", j.cred>> \notin chain.sent
  BY <1>5 DEF SignersKept, ChainIsEarned
<1>7. \A i \in signerJobs \ {j} : JobIsEarned(i) => JobIsEarned(i)'
  BY <1>1, <1>2, <1>5 DEF JobIsEarned, MayAdd
<1>8. SignersAreListed' /\ ChainIsEarned'
  BY <1>1, <1>2, <1>3, <1>5, <1>6 DEF SignersAreListed, SignersKept, ChainIsEarned
<1> QED BY <1>2, <1>4, <1>7, <1>8, JobStep

LEMMA SettlesKeeps == ASSUME SignersKept, NEW tx \in chain.sent, SettlesOnChain(tx) PROVE SignersKept'
<1>1. PICK included \in BOOLEAN :
          chain' = [chain EXCEPT
              !.sent = @ \ {tx},
              !.rule = IF ~included THEN @ ELSE IF tx[1] = "add" THEN @ \cup {tx[2]} ELSE @ \ {tx[2]},
              !.added = IF included /\ tx[1] = "add" THEN @ \cup {tx[2]} ELSE @]
  BY DEF SettlesOnChain
<1>2. /\ Shaped(chain, {"rule", "index", "sent", "added", "proved"})'
      /\ chain'.sent = chain.sent \ {tx} /\ chain'.index = chain.index
      /\ chain'.rule = IF ~included THEN chain.rule
                       ELSE IF tx[1] = "add" THEN chain.rule \cup {tx[2]} ELSE chain.rule \ {tx[2]}
      /\ chain'.added = IF included /\ tx[1] = "add" THEN chain.added \cup {tx[2]} ELSE chain.added
  BY <1>1 DEF SignersKept, ChainIsEarned, Shaped
<1>3. tx = <<tx[1], tx[2]>> /\ (tx[1] = "add" => tx[2] \notin chain.added)
  BY DEF SignersKept, ChainIsEarned
<1>4. UNCHANGED <<signers, signerJobs>>
  BY DEF SettlesOnChain
<1>5. ChainIsEarned'
  <2>1. ASSUME NEW t \in chain'.sent, t[1] = "add" PROVE t[2] \notin chain'.added
    BY <1>2, <1>3, <2>1 DEF SignersKept, ChainIsEarned
  <2> QED BY <1>2, <2>1 DEF SignersKept, ChainIsEarned
<1>6. \A j \in signerJobs : JobIsEarned(j) => JobIsEarned(j)'
  <2>. SUFFICES ASSUME NEW j \in signerJobs, JobIsEarned(j) PROVE JobIsEarned(j)'
    OBVIOUS
  <2>1. MayAdd(j) /\ tx[1] = "add" => tx[2] # j.cred
    BY <1>3 DEF JobIsEarned
  <2> QED BY <1>2, <1>3, <1>4, <2>1 DEF JobIsEarned, MayAdd
<1>7. SignersAreListed'
  BY <1>2, <1>3, <1>4 DEF SignersKept, SignersAreListed
<1> QED BY <1>4, <1>5, <1>6, <1>7 DEF SignersKept, MayAdd

\* A job begins; which passkeys are listed does not change, or one more is.
LEMMA JobBegins ==
  ASSUME SignersKept, NEW kind, NEW c, NEW at, at \in {"build", "confirm"},
         kind = "remove" => at = "build", Starts(Job(kind, c, at)),
         chain'.rule = chain.rule, chain'.index = chain.index, chain'.sent = chain.sent,
         chain'.added = chain.added,
         Shaped(chain, {"rule", "index", "sent", "added", "proved"})',
         \/ (kind = "add" => at = "confirm") /\ UNCHANGED signers
         \/ /\ c \in Backups /\ signers[c] = Unlisted /\ c \notin chain.added
            /\ \A tx \in chain.sent : tx[2] # c
            /\ Record(c, Listed("pending", FALSE))
  PROVE  SignersKept'
<1>. DEFINE job == Job(kind, c, at)
<1>1. Shaped(job, JobFields) /\ job.kind = kind /\ job.cred = c /\ job.at = at
  BY DEF Job, Shaped, JobFields
<1>2. signerJobs' = signerJobs \cup {job}
  BY DEF Starts
<1>. HIDE DEF job
<1>3. ChainIsEarned'
  BY DEF SignersKept, ChainIsEarned
<1>4. Listed("pending", FALSE) # Unlisted /\ Listed("pending", FALSE).status = "pending"
  BY DEF Listed, Unlisted
<1>5. /\ signers' = [d \in Backups |-> signers'[d]]
      /\ \A d \in Backups : \/ signers'[d] = signers[d]
                            \/ d = c /\ signers'[d] = Listed("pending", FALSE)
  <2>1. CASE UNCHANGED signers
    BY <2>1 DEF SignersKept
  <2>2. CASE Record(c, Listed("pending", FALSE))
    BY <2>2, RecordKeeps
  <2> QED BY <2>1, <2>2
<1>6. \A j \in signerJobs : JobIsEarned(j)'
  BY <1>4, <1>5 DEF SignersKept, JobIsEarned, MayAdd
<1>7. JobIsEarned(job)'
  <2>1. CASE kind = "add" => at = "confirm"
    BY <1>1, <2>1 DEF JobIsEarned, MayAdd
  <2>2. CASE kind = "add" /\ at = "build"
    <3>1. /\ c \in Backups /\ c \notin chain.added /\ Record(c, Listed("pending", FALSE))
          /\ \A tx \in chain.sent : tx[2] # c
      BY <2>2
    <3>2. signers'[c] # Unlisted
      BY <1>4, <3>1, RecordKeeps
    <3>3. <<"add", c>> \notin chain.sent
      BY <3>1
    <3> QED BY <1>1, <2>2, <3>1, <3>2, <3>3 DEF JobIsEarned, MayAdd
  <2> QED BY <2>1, <2>2
<1>8. SignersAreListed'
  BY <1>4, <1>5 DEF SignersKept, SignersAreListed
<1>9. \A j \in signerJobs : MayAdd(j) /\ MayAdd(job) => j.cred # job.cred
  BY <1>1 DEF SignersKept, JobIsEarned, MayAdd
<1>10. \A a, b \in signerJobs' : MayAdd(a) /\ MayAdd(b) /\ a.cred = b.cred => a = b
  BY <1>2, <1>9 DEF SignersKept
<1> QED BY <1>2, <1>3, <1>5, <1>6, <1>7, <1>8, <1>10 DEF SignersKept, MayAdd

LEMMA SignersKeep == SignersKept /\ [SignersNext]_signersVars => SignersKept'
<1>. SUFFICES ASSUME SignersKept, [SignersNext]_signersVars PROVE SignersKept'
  OBVIOUS
<1>0. Shaped(chain, {"rule", "index", "sent", "added", "proved"})
  BY DEF SignersKept, ChainIsEarned
<1>1. ASSUME NEW j \in signerJobs, SignerJobMoves(j) PROVE SignersKept'
  BY <1>1, BuildsKeep, SignsKeep, KeepsHashKeeps, ConfirmsKeep, RecordsKeep DEF SignerJobMoves
<1>2. ASSUME NEW tx \in chain.sent, SettlesOnChain(tx) PROVE SignersKept'
  BY <1>2, SettlesKeeps
<1>3. ASSUME NEW c \in Backups, AddBackup(c) PROVE SignersKept'
  BY <1>0, <1>3, JobBegins DEF AddBackup
<1>4. ASSUME NEW c \in Backups, FinishSetup(c) PROVE SignersKept'
  BY <1>0, <1>4, JobBegins DEF FinishSetup
<1>5. ASSUME NEW c \in Backups, RemoveSigner(c) PROVE SignersKept'
  BY <1>0, <1>5, JobBegins DEF RemoveSigner
\* What is recorded, sent and under way stays.
<1>6. ASSUME UNCHANGED signers, signerJobs' \subseteq signerJobs,
             chain'.rule = chain.rule, chain'.index = chain.index, chain'.sent = chain.sent,
             chain'.added = chain.added,
             Shaped(chain, {"rule", "index", "sent", "added", "proved"})'
      PROVE  SignersKept'
  BY <1>6 DEF SignersKept, ChainIsEarned, JobIsEarned, MayAdd, SignersAreListed
<1>7. ASSUME SignerWorkerStops PROVE SignersKept'
  BY <1>0, <1>6, <1>7 DEF SignerWorkerStops
<1>8. ASSUME ProveActiveSigner PROVE SignersKept'
  <2>1. /\ chain'.rule = chain.rule /\ chain'.index = chain.index /\ chain'.sent = chain.sent
        /\ chain'.added = chain.added
        /\ Shaped(chain, {"rule", "index", "sent", "added", "proved"})'
    BY <1>0, <1>8 DEF ProveActiveSigner, Shaped
  <2>2. ASSUME NEW r \in desk.retry,
               Starts(Job(r[1], r[2], IF r[1] = "remove" THEN "build" ELSE "confirm"))
        PROVE  SignersKept'
    <3> QED BY <1>8, <2>1, <2>2, JobBegins DEF ProveActiveSigner
  <2> QED BY <1>6, <1>8, <2>1, <2>2 DEF ProveActiveSigner
<1>9. ASSUME ProofEnds PROVE SignersKept'
  <2>1. /\ chain'.rule = chain.rule /\ chain'.index = chain.index /\ chain'.sent = chain.sent
        /\ chain'.added = chain.added
        /\ Shaped(chain, {"rule", "index", "sent", "added", "proved"})'
    BY <1>0, <1>9 DEF ProofEnds, Shaped
  <2> QED BY <1>6, <1>9, <2>1 DEF ProofEnds
<1>10. ASSUME PopupReopens \/ (\E at : GoToSigners(at)) \/ UNCHANGED signersVars PROVE SignersKept'
  BY <1>0, <1>6, <1>10 DEF PopupReopens, GoToSigners, signersVars
<1> QED BY <1>1, <1>2, <1>3, <1>4, <1>5, <1>7, <1>8, <1>9, <1>10 DEF SignersNext

LEMMA SignersOnly == [UseNext]_useVars => [SignersNext]_signersVars
BY DEF UseNext, useVars, Using

\* A passkey that can sign for the wallet is on its list of signers, whatever stops
\* between the transaction that adds it and its record (addBackupSigner.ts).
THEOREM SignersListed == UseSpec => []SignersAreListed
<1>1. UseInit => SignersKept
  BY SignersStart DEF UseInit
<1>2. SignersKept /\ [UseNext]_useVars => SignersKept'
  BY SignersOnly, SignersKeep
<1>3. SignersKept => SignersAreListed
  BY DEF SignersKept
<1> QED BY <1>1, <1>2, <1>3, PTL DEF UseSpec

-----------------------------------------------------------------------------
(* The review of a website's transaction. *)

SessionFields == {"at", "tx", "net", "of", "mine", "err", "tries", "setup", "review"}

\* The inductive invariant of the review.
ReviewKept ==
    /\ Shaped(session, SessionFields)
    /\ session.at \in {"idle", "resolving"} => session.setup = "none"
    /\ ReviewedIsPrepared /\ SetupIsNamed /\ KeySignsItsEntry

LEMMA ReviewStart == ReviewInit => ReviewKept
BY DEF ReviewInit, ReviewKept, NoSession, Shaped, SessionFields, ReviewedIsPrepared, SetupIsNamed,
       KeySignsItsEntry

\* What the review accepts.
LEMMA Assessed ==
  ASSUME NEW s, NEW prep, Assess(s, prep).code = "ok"
  PROVE  LET r == Assess(s, prep)
         IN /\ InvokeContractIds(r.tx) \ {Forwarder} = InvokeContractIds(r.prep) \ {Forwarder}
            /\ Wrapped(r.prep) => r.prep.payer = s.of /\ r.fees = {r.prep.fee}
            /\ Wrapped(r.tx) /\ r.fees # {r.tx.fee} => r.warned
<1>. DEFINE warns == FeeTokenWarnings(s.tx)
            basic == [code |-> "ok", tx |-> s.tx, prep |-> prep.tx, fees |-> FeeRows(s.tx),
                      warned |-> warns # {}]
            repriced == FeeRows(s.tx) # {} /\ FeeRows(s.tx) # FeeRows(prep.tx)
            warned == warns # {} \/ repriced \/ FeeTokenWarnings(prep.tx) # {}
            final == [basic EXCEPT !.fees = FeeRows(prep.tx),
                                   !.warned = @ \/ repriced \/ FeeTokenWarnings(prep.tx) # {}]
            r == Assess(s, prep)
<1>1. /\ final.code = "ok" /\ final.tx = s.tx /\ final.prep = prep.tx
      /\ final.fees = FeeRows(prep.tx) /\ final.warned = warned
  OBVIOUS
<1>2. \A code : [basic EXCEPT !.code = code].code = code
  OBVIOUS
<1>3. \A code : [final EXCEPT !.code = code].code = code
  OBVIOUS
<1>4. /\ r = final
      /\ (ForwardUsers(s.tx) \cup ForwardUsers(prep.tx)) \ {s.mine} = {}
      /\ ContractIdSetsEqual(InvokeContractIds(s.tx), InvokeContractIds(prep.tx))
      /\ s.of = prep.of /\ prep.of = s.mine
  <2>. DEFINE same(a, b, c) == a = b /\ b = c
  <2>1. r = CASE ~same(s.net, prep.net, here.net) -> [basic EXCEPT !.code = "network_mismatch"]
         [] ~same(s.of, prep.of, s.mine) -> [basic EXCEPT !.code = "account_mismatch"]
         [] NotRead \in {s.tx, prep.tx} -> [basic EXCEPT !.code = "unparsable_xdr"]
         [] (ForwardUsers(s.tx) \cup ForwardUsers(prep.tx)) \ {s.mine} # {} ->
              [final EXCEPT !.code = "user_mismatch"]
         [] ~ContractIdSetsEqual(InvokeContractIds(s.tx), InvokeContractIds(prep.tx)) ->
              [final EXCEPT !.code = "contract_mismatch"]
         [] OTHER -> final
    BY DEF Assess
  <2>. HIDE DEF basic, final
  <2> QED BY <1>2, <1>3, <2>1
<1>. HIDE DEF final, r
<1>5. InvokeContractIds(r.tx) \ {Forwarder} = InvokeContractIds(r.prep) \ {Forwarder}
  BY <1>1, <1>4 DEF ContractIdSetsEqual
<1>6. ASSUME Wrapped(r.prep) PROVE r.prep.payer = s.of /\ r.fees = {r.prep.fee}
  BY <1>1, <1>4, <1>6 DEF ForwardUsers, FeeRows
<1>7. ASSUME Wrapped(r.tx), r.fees # {r.tx.fee} PROVE r.warned
  <2>1. FeeRows(s.tx) = {r.tx.fee}
    BY <1>1, <1>4, <1>7 DEF FeeRows
  <2> QED BY <1>1, <1>4, <1>7, <2>1
<1> QED BY <1>5, <1>6, <1>7 DEF r

\* The rules of a setup are of a contract the transaction calls.
LEMMA SetupForCalls == \A s : SetupFor(s) \subseteq InvokeContractIds(s.tx)
BY DEF SetupFor, TransferOf, InvokeContractIds

LEMMA LeastExists == ASSUME NEW S, S \subseteq Nat, S # {} PROVE Least(S) \in S
<1>1. PICK x \in S : \A y \in S : <<y, x>> \notin OpToRel(<, Nat)
  BY NatLessThanWellFounded, WFMin
<1>2. \A y \in S : ~(y < x)
  BY <1>1 DEF OpToRel
<1>3. \A y \in S : x <= y
  BY <1>2
<1> QED BY <1>3 DEF Least

\* The entry a key signs is its own, or does not say whose it is.
LEMMA DelegatedIsOwn ==
  ASSUME NEW b \in Shapes, NEW g, NEW e \in DelegatedEntry(b, g)
  PROVE  /\ e[1] \in {g, "unsaid"}
         /\ g \in Range(b.entries) => b.entries[e[2]] = g
<1>. DEFINE own == {k \in DOMAIN b.natives : b.natives[k] \in EntriesOf(b, g)}
            first == IF own # {} THEN b.natives[Least(own)] ELSE Least(EntriesOf(b, g))
<1>0. EntriesOf(b, g) \subseteq Nat /\ own \subseteq Nat
  BY ReviewAssumption DEF EntriesOf
<1>1. CASE EntriesOf(b, g) # {}
  <2>1. first \in EntriesOf(b, g)
    BY <1>0, <1>1, LeastExists
  <2>2. e = <<b.entries[first], first>>
    BY <1>1 DEF DelegatedEntry
  <2>. HIDE DEF first
  <2> QED BY <2>1, <2>2 DEF EntriesOf
<1>2. CASE EntriesOf(b, g) = {}
  <2>1. e[1] \in {g, "unsaid"}
    BY <1>2 DEF DelegatedEntry
  <2>2. g \notin Range(b.entries)
    BY <1>2 DEF EntriesOf, Range
  <2> QED BY <2>1, <2>2
<1> QED BY <1>1, <1>2

\* A session that ended, or was never reviewed, promises nothing but its setup.
LEMMA NotReviewed ==
  ASSUME Shaped(session, SessionFields)', session'.at \notin {"review", "signed"},
         session'.at \in {"idle", "resolving"} => session'.setup = "none",
         session'.setup = "none" \/ session'.setup \in InvokeContractIds(session'.tx)
  PROVE  ReviewKept'
BY DEF ReviewKept, ReviewedIsPrepared, SetupIsNamed, KeySignsItsEntry

LEMMA Ended ==
  ASSUME ReviewKept, NEW err, session' = EndsAs(session, err)
  PROVE  ReviewKept'
<1>1. /\ Shaped(session, SessionFields)' /\ session'.at = "failed"
      /\ session'.setup = session.setup /\ session'.tx = session.tx
  BY DEF ReviewKept, EndsAs, Shaped, SessionFields
<1> QED BY <1>1, NotReviewed DEF ReviewKept, SetupIsNamed

LEMMA Prepared ==
  ASSUME NEW s, Shaped(s, SessionFields), s.setup = "none", s.at \in {"idle", "resolving"},
         session' = Preparing(s)
  PROVE  ReviewKept'
<1>1. /\ Shaped(session, SessionFields)' /\ session'.at \in {"failed", "preparing"}
      /\ session'.setup = "none"
  BY DEF Preparing, EndsAs, Shaped, SessionFields
<1> QED BY <1>1, NotReviewed

\* Confirm ends the session, or seals an entry that is the key's.
LEMMA ConfirmKeeps == ASSUME ReviewKept, NEW b \in Shapes, ConfirmReview(b) PROVE ReviewKept'
<1>1. ASSUME session' = Seal(session),
             sealed'.by \in KeyWallets =>
                /\ sealed'.entry \in {sealed'.by, "unsaid"}
                /\ sealed'.by \in Range(sealed'.all) => sealed'.all[sealed'.index] = sealed'.by
      PROVE  ReviewKept'
  <2>1. Shaped(session, SessionFields)' /\ session'.at = "signed" /\ session'.setup = "none"
    BY <1>1 DEF Seal, NoSession, Shaped, SessionFields
  <2> QED BY <1>1, <2>1 DEF ReviewKept, ReviewedIsPrepared, SetupIsNamed, KeySignsItsEntry
<1>2. CASE SignedByKey(b)
  <2>1. CASE \E err : session' = EndsAs(session, err)
    BY <2>1, Ended
  <2>2. CASE \E e \in DelegatedEntry(b, here.of) :
               /\ session' = Seal(session)
               /\ sealed' = [entry |-> e[1], by |-> here.of, index |-> e[2], all |-> b.entries]
    <3>1. PICK e \in DelegatedEntry(b, here.of) :
               /\ session' = Seal(session)
               /\ sealed' = [entry |-> e[1], by |-> here.of, index |-> e[2], all |-> b.entries]
      BY <2>2
    <3>2. e[1] \in {here.of, "unsaid"} /\ (here.of \in Range(b.entries) => b.entries[e[2]] = here.of)
      BY DelegatedIsOwn
    <3> QED BY <1>1, <3>1, <3>2
  <2> QED BY <1>2, <2>1, <2>2 DEF SignedByKey
<1>3. CASE SignedByPasskey(b)
  <2>1. CASE \E err : session' = EndsAs(session, err)
    BY <2>1, Ended
  <2>2. CASE /\ here.of \notin KeyWallets /\ session' = Seal(session)
             /\ sealed' = [entry |-> SmartEntry(b), by |-> here.of, index |-> SmartIndex(b),
                           all |-> b.entries]
    BY <1>1, <2>2
  <2> QED BY <1>3, <2>1, <2>2 DEF SignedByPasskey
<1> QED BY <1>2, <1>3 DEF ConfirmReview

LEMMA ReviewKeep == ReviewKept /\ [ReviewNext]_reviewVars => ReviewKept'
<1>. SUFFICES ASSUME ReviewKept, [ReviewNext]_reviewVars PROVE ReviewKept'
  OBVIOUS
<1>1. ASSUME NEW tx, NEW net, NEW of, RequestReview(tx, net, of) PROVE ReviewKept'
  <2>. DEFINE s == [session EXCEPT !.tx = tx, !.net = net, !.of = of]
  <2>1. Shaped(s, SessionFields) /\ s.at = "idle" /\ s.setup = "none"
    BY <1>1 DEF RequestReview, ReviewKept, Shaped, SessionFields
  <2>2. CASE session' = Preparing(s)
    <3>. HIDE DEF s
    <3> QED BY <2>1, <2>2, Prepared
  <2>3. CASE session' = [session EXCEPT !.at = "resolving", !.net = net, !.of = of]
    <3>1. Shaped(session, SessionFields)' /\ session'.at = "resolving" /\ session'.setup = "none"
      BY <1>1, <2>3 DEF RequestReview, ReviewKept, Shaped, SessionFields
    <3> QED BY <3>1, NotReviewed
  <2> QED BY <1>1, <2>2, <2>3 DEF RequestReview
<1>2. ASSUME NEW tx, NEW net, NEW of, ResolveUnsignedXdr(tx, net, of) PROVE ReviewKept'
  <2>. DEFINE s == [session EXCEPT !.tx = tx]
  <2>1. Shaped(s, SessionFields) /\ s.at = "resolving" /\ s.setup = "none"
    BY <1>2 DEF ResolveUnsignedXdr, ReviewKept, Shaped, SessionFields
  <2>2. (\E err : session' = EndsAs(session, err)) \/ session' = Preparing(s)
    BY <1>2 DEF ResolveUnsignedXdr
  <2>. HIDE DEF s
  <2> QED BY <2>1, <2>2, Ended, Prepared
<1>3. ASSUME NEW prep, PrepareSign(prep) PROVE ReviewKept'
  <2>1. /\ Shaped(session, SessionFields)' /\ session'.at = "review" /\ session'.setup = "none"
        /\ session'.review = Assess(session, prep) /\ session'.of = session.of
    BY <1>3 DEF PrepareSign, ReviewKept, Shaped, SessionFields
  <2>2. ReviewedIsPrepared'
    <3>. DEFINE r == Assess(session, prep)
    <3>1. r.code = "ok" =>
            /\ InvokeContractIds(r.tx) \ {Forwarder} = InvokeContractIds(r.prep) \ {Forwarder}
            /\ Wrapped(r.prep) => r.prep.payer = session.of /\ r.fees = {r.prep.fee}
            /\ Wrapped(r.tx) /\ r.fees # {r.tx.fee} => r.warned
      BY Assessed
    <3>2. session'.review = r
      BY <2>1
    <3>. HIDE DEF r
    <3> QED BY <2>1, <3>1, <3>2, Zenon DEF ReviewedIsPrepared
  <2> QED BY <2>1, <2>2 DEF ReviewKept, SetupIsNamed, KeySignsItsEntry
<1>4. ASSUME NEW err, PrepareSignFails(err) PROVE ReviewKept'
  <2>. DEFINE t == CHOOSE x \in SetupFor(session) : TRUE
  <2>1. CASE \E e : session' = EndsAs(session, e)
    BY <2>1, Ended
  <2>2. CASE /\ SetupFor(session) # {}
             /\ session' = [session EXCEPT !.at = "settingUp", !.err = err, !.setup = t]
    <3>1. t \in InvokeContractIds(session.tx)
      BY <2>2, SetupForCalls
    <3>. HIDE DEF t
    <3>2. /\ Shaped(session, SessionFields)' /\ session'.at = "settingUp"
          /\ session'.setup = t /\ session'.tx = session.tx
      BY <2>2 DEF ReviewKept, Shaped, SessionFields
    <3> QED BY <3>1, <3>2, NotReviewed
  <2> QED BY <1>4, <2>1, <2>2 DEF PrepareSignFails
<1>5. ASSUME NEW r, RunContextRuleSetup(r) PROVE ReviewKept'
  <2>1. CASE \E e : session' = EndsAs(session, e)
    BY <2>1, Ended
  <2>2. CASE session' = [session EXCEPT !.at = "preparing", !.tries = 2, !.err = "none"]
    <3>1. /\ Shaped(session, SessionFields)' /\ session'.at = "preparing"
          /\ session'.setup = session.setup /\ session'.tx = session.tx
      BY <2>2 DEF ReviewKept, Shaped, SessionFields
    <3> QED BY <3>1, NotReviewed DEF ReviewKept, SetupIsNamed
  <2> QED BY <1>5, <2>1, <2>2 DEF RunContextRuleSetup
<1>6. ASSUME (\E h : SwitchHere(h)) \/ UNCHANGED reviewVars PROVE ReviewKept'
  <2>1. UNCHANGED <<session, sealed>>
    BY <1>6 DEF SwitchHere, reviewVars
  <2> QED BY <2>1 DEF ReviewKept, ReviewedIsPrepared, SetupIsNamed, KeySignsItsEntry
<1>7. ASSUME NEW b \in Shapes, ConfirmReview(b) PROVE ReviewKept'
  BY <1>7, ConfirmKeeps
<1>8. ASSUME Dismissed PROVE ReviewKept'
  <2>1. Shaped(session, SessionFields)' /\ session'.at = "idle" /\ session'.setup = "none"
    BY <1>8 DEF Dismissed, NoSession, Shaped, SessionFields
  <2> QED BY <2>1, NotReviewed
<1> QED BY <1>1, <1>2, <1>3, <1>4, <1>5, <1>6, <1>7, <1>8 DEF ReviewNext

LEMMA ReviewOnly == [UseNext]_useVars => [ReviewNext]_reviewVars
BY DEF UseNext, useVars, Using

\* A website's transaction is signed as it was reviewed, rules are set up for the
\* contracts it calls, and a key signs its own entry (parseTxForReview.ts,
\* signBuiltTx.ts).
THEOREM ReviewedAsPrepared == UseSpec => [](ReviewedIsPrepared /\ SetupIsNamed /\ KeySignsItsEntry)
<1>1. UseInit => ReviewKept
  BY ReviewStart DEF UseInit
<1>2. ReviewKept /\ [UseNext]_useVars => ReviewKept'
  BY ReviewOnly, ReviewKeep
<1>3. ReviewKept => ReviewedIsPrepared /\ SetupIsNamed /\ KeySignsItsEntry
  BY DEF ReviewKept
<1> QED BY <1>1, <1>2, <1>3, PTL DEF UseSpec

-----------------------------------------------------------------------------
(* The icons of tokens. *)

\* A list of a network, kept since some time: it was fetched at most its time
\* before that.
IsKept(m, n) ==
    /\ m.list.net = n /\ {m.since, m.list.time} \subseteq Nat
    /\ m.list.time <= m.since /\ m.since <= listNow /\ m.since < m.list.time + ListTtl

AskIsOfOne(ask) ==
    /\ ask.at # "idle" => ask.net \in ListNets
    /\ ask.at \in {"saving", "listed"} => ask.list.net = ask.net
    /\ ask.at = "saving" => /\ ask.list.time = listNow
                            /\ ask = [at |-> "saving", net |-> ask.net, list |-> ask.list]

\* The inductive invariant of the lists.
ListKept ==
    /\ listNet \in ListNets /\ listNow \in Nat
    /\ listMemory # NoneKept => listMemory.net \in ListNets /\ IsKept(listMemory, listMemory.net)
    /\ listStored = [n \in ListNets |-> listStored[n]]
    /\ \A n \in ListNets : listStored[n] # NoneKept =>
          IsKept(listStored[n], n) /\ listStored[n].since = listStored[n].list.time
    /\ iconAsk = [k \in IconAsks |-> iconAsk[k]]
    /\ \A k \in IconAsks : AskIsOfOne(iconAsk[k])
    /\ iconStored = [n \in ListNets |-> iconStored[n]] /\ IconIsOfItsNetwork

LEMMA ListStart == ListInit => ListKept
BY DEF ListInit, ListKept, ListNets, NoneKept, NoIcon, IconIsOfItsNetwork, AskIsOfOne, Unasked

\* What is kept answers in time.
LEMMA KeptIsRecent == ListKept => ListIsRecent
<1>. SUFFICES ASSUME ListKept, NEW n \in ListNets
              PROVE  /\ MemoryServes(n) => listNow - listMemory.list.time < 2 * ListTtl
                     /\ StoredServes(n) => listNow - listStored[n].list.time < ListTtl
  BY DEF ListIsRecent
<1>0. listNow \in Nat /\ ListTtl \in Nat
  BY TokenListsAssumption DEF ListKept
<1>1. ASSUME MemoryServes(n) PROVE listNow - listMemory.list.time < 2 * ListTtl
  <2>. DEFINE since == listMemory.since
              time == listMemory.list.time
  <2>1. since \in Nat /\ time \in Nat /\ since < time + ListTtl /\ listNow - since < ListTtl
    BY <1>1 DEF MemoryServes, ListKept, IsKept
  <2>. HIDE DEF since, time
  <2>2. listNow - time < 2 * ListTtl
    BY <1>0, <2>1
  <2> QED BY <2>2 DEF time
<1>2. ASSUME StoredServes(n) PROVE listNow - listStored[n].list.time < ListTtl
  BY <1>2 DEF StoredServes, ListKept
<1> QED BY <1>1, <1>2

\* A request that goes on, while what is kept stays.
LEMMA AskGoes ==
  ASSUME ListKept, NEW k \in IconAsks, NEW ask, Goes(k, ask), AskIsOfOne(ask),
         UNCHANGED <<netVars, listBounds, listStored, iconStored>>,
         listMemory' = listMemory
         \/ (listMemory'.net \in ListNets /\ IsKept(listMemory', listMemory'.net))
  PROVE  ListKept'
<1>1. iconAsk' = [j \in IconAsks |-> IF j = k THEN ask ELSE iconAsk[j]]
  BY DEF Goes, ListKept
<1>2. \A j \in IconAsks : AskIsOfOne(iconAsk'[j])
  BY <1>1 DEF ListKept
<1>3. \A a : AskIsOfOne(a) => AskIsOfOne(a)'
  BY DEF AskIsOfOne, listBounds
<1>4. (\A j \in IconAsks : AskIsOfOne(iconAsk[j]))'
  BY <1>1, <1>2 DEF AskIsOfOne, listBounds
<1> QED BY <1>1, <1>4 DEF ListKept, IsKept, netVars, listBounds, IconIsOfItsNetwork

LEMMA ListKeep == ListKept /\ [ListNext]_listVars => ListKept'
<1>. SUFFICES ASSUME ListKept, [ListNext]_listVars PROVE ListKept'
  OBVIOUS
<1>0. /\ listNow \in Nat /\ ListTtl \in Nat \ {0}
      /\ \A k \in IconAsks : AskIsOfOne(iconAsk[k])
  BY TokenListsAssumption DEF ListKept
<1>1. ASSUME NEW k \in IconAsks, AskIcon(k) PROVE ListKept'
  <2>. DEFINE ask == [at |-> "kept?", net |-> listNet]
  <2>1. AskIsOfOne(ask)
    BY DEF AskIsOfOne, ListKept
  <2>. HIDE DEF ask
  <2> QED BY <1>1, <2>1, AskGoes DEF AskIcon, ask
<1>2. ASSUME NEW k \in IconAsks, KeptIconRead(k) PROVE ListKept'
  <2>. DEFINE n == iconAsk[k].net
              kept == [at |-> "listed", net |-> n, list |-> listMemory.list]
              next == [at |-> "stored?", net |-> n]
  <2>1. n \in ListNets
    BY <1>0, <1>2 DEF KeptIconRead, AskAt, AskIsOfOne
  <2>2. AskIsOfOne(Unasked) /\ AskIsOfOne(next)
    BY <2>1 DEF AskIsOfOne, Unasked
  <2>3. MemoryServes(n) => AskIsOfOne(kept)
    BY <2>1 DEF AskIsOfOne, MemoryServes, ListKept, IsKept
  <2>4. \/ Goes(k, Unasked) \/ Goes(k, next)
        \/ Goes(k, kept) /\ MemoryServes(n)
    BY <1>2 DEF KeptIconRead
  <2>. HIDE DEF kept, next, n
  <2>5. UNCHANGED <<netVars, listMemory, listStored, iconStored, listBounds>>
    BY <1>2 DEF KeptIconRead
  <2> QED BY <2>2, <2>3, <2>4, <2>5, AskGoes
<1>3. ASSUME NEW k \in IconAsks, StoredListRead(k) PROVE ListKept'
  <2>. DEFINE n == iconAsk[k].net
              kept == [at |-> "listed", net |-> n, list |-> listStored[n].list]
              fetching == [at |-> "fetching", net |-> n]
  <2>1. n \in ListNets
    BY <1>0, <1>3 DEF StoredListRead, AskAt, AskIsOfOne
  <2>2. AskIsOfOne(fetching)
    BY <2>1 DEF AskIsOfOne
  <2>3. CASE StoredServes(n) /\ Keeps(n, listStored[n].list) /\ Goes(k, kept)
    <3>1. IsKept(listStored[n], n) /\ listStored[n].since = listStored[n].list.time
      BY <2>1, <2>3 DEF StoredServes, ListKept
    <3>2. AskIsOfOne(kept)
      BY <2>1, <3>1 DEF AskIsOfOne, IsKept
    <3>3. /\ listMemory'.net = n /\ listMemory'.since = listNow
          /\ listMemory'.list = listStored[n].list
      BY <2>3 DEF Keeps
    <3>4. listNow < listStored[n].list.time + ListTtl
      BY <1>0, <2>3, <3>1 DEF StoredServes, IsKept
    <3>5. IsKept(listMemory', n)
      BY <1>0, <3>1, <3>3, <3>4 DEF IsKept
    <3>. HIDE DEF kept, n
    <3> QED BY <1>3, <2>1, <2>3, <3>2, <3>3, <3>5, AskGoes DEF StoredListRead
  <2>4. CASE Goes(k, fetching) /\ UNCHANGED listMemory
    <3>. HIDE DEF fetching
    <3> QED BY <1>3, <2>2, <2>4, AskGoes DEF StoredListRead
  <2> QED BY <1>3, <2>3, <2>4 DEF StoredListRead
<1>4. ASSUME NEW k \in IconAsks, ListsArrive(k) PROVE ListKept'
  <2>. DEFINE n == iconAsk[k].net
              list == TokenList(n)
              saving == [at |-> "saving", net |-> n, list |-> list]
  <2>1. n \in ListNets
    BY <1>0, <1>4 DEF ListsArrive, AskAt, AskIsOfOne
  <2>2. AskIsOfOne(saving)
    BY <2>1 DEF AskIsOfOne, TokenList
  <2>3. list.net = n /\ list.time = listNow
    BY DEF TokenList
  <2>4. listMemory'.net = n /\ listMemory'.since = listNow /\ listMemory'.list = list
    BY <1>4 DEF ListsArrive, Keeps
  <2>5. IsKept(listMemory', n)
    BY <1>0, <2>3, <2>4 DEF IsKept
  <2>6. Goes(k, saving) /\ UNCHANGED <<netVars, listStored, iconStored, listBounds>>
    BY <1>4 DEF ListsArrive
  <2>. HIDE DEF saving, n
  <2> QED BY <2>1, <2>2, <2>4, <2>5, <2>6, AskGoes
<1>5. ASSUME NEW k \in IconAsks, ListSaved(k) PROVE ListKept'
  <2>. DEFINE ask == iconAsk[k]
              next == [ask EXCEPT !.at = "listed"]
              new == [net |-> ask.net, since |-> listNow, list |-> ask.list]
  <2>1. /\ ask.net \in ListNets /\ ask.list.net = ask.net /\ ask.list.time = listNow
    BY <1>0, <1>5 DEF ListSaved, AskAt, AskIsOfOne
  <2>2. /\ listStored' = [n \in ListNets |-> IF n = ask.net THEN new ELSE listStored[n]]
        /\ Goes(k, next)
        /\ UNCHANGED <<netVars, listMemory, iconStored, listBounds>>
    BY <1>5, <2>1 DEF ListSaved, ListKept
  <2>3. IsKept(new, ask.net) /\ new.since = new.list.time
    BY <1>0, <2>1 DEF IsKept
  <2>4. next = [at |-> "listed", net |-> ask.net, list |-> ask.list]
    <3>1. ask.at = "saving" /\ AskIsOfOne(ask)
      BY <1>0, <1>5 DEF ListSaved, AskAt
    <3>. HIDE DEF ask
    <3>2. ask = [at |-> "saving", net |-> ask.net, list |-> ask.list]
      BY <3>1 DEF AskIsOfOne
    <3> QED BY <3>2
  <2>5. AskIsOfOne(next)
    BY <2>1, <2>4 DEF AskIsOfOne
  <2>. HIDE DEF next, new, ask
  <2>6. iconAsk' = [j \in IconAsks |-> IF j = k THEN next ELSE iconAsk[j]]
    BY <2>2 DEF Goes, ListKept
  <2>7. \A j \in IconAsks : AskIsOfOne(iconAsk'[j])
    BY <1>0, <2>5, <2>6
  <2>8. (\A j \in IconAsks : AskIsOfOne(iconAsk[j]))'
    BY <2>2, <2>7 DEF AskIsOfOne, listBounds
  <2>9. \A n \in ListNets : listStored'[n] # NoneKept =>
          IsKept(listStored'[n], n) /\ listStored'[n].since = listStored'[n].list.time
    BY <2>2, <2>3 DEF ListKept
  <2> QED BY <2>2, <2>6, <2>8, <2>9 DEF ListKept, IsKept, netVars, listBounds, IconIsOfItsNetwork
<1>6. ASSUME NEW k \in IconAsks, IconEnds(k) PROVE ListKept'
  <2>. DEFINE ask == iconAsk[k]
  <2>1. ask.net \in ListNets /\ ask.list.net = ask.net
    BY <1>0, <1>6 DEF IconEnds, AskAt, AskIsOfOne
  <2>2. \/ iconStored' = [iconStored EXCEPT ![ask.net] = ask.net]
        \/ UNCHANGED iconStored
    BY <1>6, <2>1 DEF IconEnds, IconFoundOn
  <2>. HIDE DEF ask
  <2>3. iconStored' = [n \in ListNets |-> iconStored'[n]] /\ IconIsOfItsNetwork'
    BY <2>2 DEF ListKept, IconIsOfItsNetwork
  <2>4. iconAsk' = [j \in IconAsks |-> IF j = k THEN Unasked ELSE iconAsk[j]]
    BY <1>6 DEF IconEnds, Goes, ListKept
  <2>5. UNCHANGED <<netVars, listMemory, listStored, listBounds>>
    BY <1>6 DEF IconEnds
  <2>6. (\A j \in IconAsks : AskIsOfOne(iconAsk[j]))'
    BY <1>0, <2>4, <2>5 DEF AskIsOfOne, Unasked, listBounds
  <2> QED BY <2>3, <2>4, <2>5, <2>6 DEF ListKept, IsKept, netVars, listBounds
<1>7. ASSUME MoveNetwork \/ ClearListMemory \/ UNCHANGED listVars PROVE ListKept'
  BY <1>7 DEF MoveNetwork, ClearListMemory, listVars, listBounds, ListKept, IsKept, AskIsOfOne,
              IconIsOfItsNetwork, ListNets
<1>8. ASSUME HoursPass PROVE ListKept'
  <2>1. \A m, n : IsKept(m, n) => IsKept(m, n)'
    BY <1>0, <1>8 DEF HoursPass, IsKept
  <2>2. (\A j \in IconAsks : AskIsOfOne(iconAsk[j]))'
    BY <1>8 DEF HoursPass, AskIsOfOne, AskAt
  <2> QED BY <1>0, <1>8, <2>2 DEF HoursPass, ListKept, IsKept, netVars, IconIsOfItsNetwork
<1>9. ASSUME ListStop PROVE ListKept'
  BY <1>9 DEF ListStop, ListKept, IsKept, AskIsOfOne, Unasked, IconIsOfItsNetwork
<1> QED BY <1>1, <1>2, <1>3, <1>4, <1>5, <1>6, <1>7, <1>8, <1>9 DEF ListNext

LEMMA ListOnly == [UseNext]_useVars => [ListNext]_listVars
BY DEF UseNext, useVars, Using

\* An icon is of the network it is shown on, and of a list under two days old, for
\* any overlap of requests, switches and stops (assetTokenLists.ts).
THEOREM IconsFit == UseSpec => [](IconIsOfItsNetwork /\ ListIsRecent)
<1>1. UseInit => ListKept
  BY ListStart DEF UseInit
<1>2. ListKept /\ [UseNext]_useVars => ListKept'
  BY ListOnly, ListKeep
<1>3. ListKept => IconIsOfItsNetwork /\ ListIsRecent
  BY KeptIsRecent DEF ListKept
<1> QED BY <1>1, <1>2, <1>3, PTL DEF UseSpec

-----------------------------------------------------------------------------
(* The quotes of a swap. *)

AskingFields == {"id", "loading", "due"}
ConfirmingFields == {"gen", "loading", "error", "forced", "prepare"}

\* A request is numbered, and the current one of the swap screen is of its field.
AskIsOfTheField(r) ==
    /\ r[2] \in 1 .. asksMade
    /\ r[1] = "edit" /\ r[2] = asking.id => r[3] = typed

\* The inductive invariant of the quotes: nothing is reviewed, or prepared, while
\* a quote is on its way that would replace the one on screen.
SwapKept ==
    /\ asksMade \in Nat
    /\ Shaped(asking, AskingFields) /\ asking.id \in 0 .. asksMade
    /\ Shaped(confirming, ConfirmingFields)
    /\ \A r \in asks : AskIsOfTheField(r)
    /\ ~asking.loading /\ preview # NoQuote => preview.amount = typed
    /\ confirming.gen # 0 => page = "confirm" /\ confirming.prepare = "none" /\ reviewedNo = 0
    /\ signing # NoQuote => page = "confirm"
    /\ SignedQuoteIsShown

LEMMA PreviewFits == SwapKept => PreviewIsOfTheField
BY DEF SwapKept, PreviewIsOfTheField

LEMMA SwapStart == SwapInit => SwapKept
BY DEF SwapInit, SwapKept, Shaped, AskingFields, ConfirmingFields, NoQuote, SignedQuoteIsShown

\* The requests stay, or some are answered or taken.
LEMMA AsksStay ==
  ASSUME SwapKept, UNCHANGED <<asksMade, asking, typed>>,
         \A r \in asks' : \E s \in asks : r[1] = s[1] /\ r[2] = s[2] /\ r[3] = s[3]
  PROVE  \A r \in asks' : AskIsOfTheField(r)'
BY DEF SwapKept, AskIsOfTheField

LEMMA AnswerKeeps ==
  ASSUME SwapKept, NEW r \in asks, NEW no, Answer(r, no),
         UNCHANGED <<editVars, page, confirmVars, asksMade>>
  PROVE  SwapKept'
<1>1. \A q \in asks' : \E s \in asks : q[1] = s[1] /\ q[2] = s[2] /\ q[3] = s[3]
  BY DEF Answer
<1>2. \A q \in asks' : AskIsOfTheField(q)'
  BY <1>1, AsksStay DEF editVars
<1> QED BY <1>2 DEF SwapKept, editVars, confirmVars, SignedQuoteIsShown

\* The confirm screen changes what it does, with the same quote on it, and while
\* none is on its way.
LEMMA ConfirmingMoves ==
  ASSUME SwapKept, UNCHANGED <<editVars, asks, page, shown, asksMade>>,
         Shaped(confirming, ConfirmingFields)', confirming'.gen = 0,
         signing' = NoQuote \/ (page = "confirm" /\ signing' = shown /\ shown.amount = typed),
         reviewedNo' \in {reviewedNo, 0} \/ reviewedNo' = shown.no
  PROVE  SwapKept'
<1>1. \A q \in asks' : AskIsOfTheField(q)'
  BY AsksStay DEF editVars
<1> QED BY <1>1 DEF SwapKept, editVars, SignedQuoteIsShown

\* A screen comes up, or the visit is over.
LEMMA PageTurns ==
  ASSUME SwapKept, UNCHANGED <<asks, asksMade>>, Shaped(confirming, ConfirmingFields)',
         confirming'.gen = 0, signing' = NoQuote,
         \/ UNCHANGED <<typed, preview, asking>>
         \/ /\ Shaped(asking, AskingFields)' /\ asking'.id = 0 /\ preview' = NoQuote,
         page' = "confirm" => reviewedNo' = 0
  PROVE  SwapKept'
<1>1. \A r \in asks' : AskIsOfTheField(r)'
  <2>1. CASE UNCHANGED <<typed, preview, asking>>
    BY <2>1, AsksStay
  <2>2. CASE asking'.id = 0
    BY <2>2 DEF SwapKept, AskIsOfTheField
  <2> QED BY <2>1, <2>2
<1> QED BY <1>1 DEF SwapKept, SignedQuoteIsShown

LEMMA SwapKeep == SwapKept /\ [SwapNext]_swapVars => SwapKept'
<1>. SUFFICES ASSUME SwapKept, [SwapNext]_swapVars PROVE SwapKept'
  OBVIOUS
<1>0. /\ Shaped(confirming, ConfirmingFields) /\ Shaped(asking, AskingFields)
      /\ asksMade \in Nat /\ \A r \in asks : AskIsOfTheField(r)
      /\ signing # NoQuote => page = "confirm"
  BY DEF SwapKept
<1>1. ASSUME NEW r \in asks, FetchQuote(r) \/ CachedQuote(r) PROVE SwapKept'
  <2>1. (\E no : Answer(r, no)) /\ UNCHANGED <<editVars, page, confirmVars, asksMade>>
    BY <1>1 DEF FetchQuote, CachedQuote
  <2> QED BY <2>1, AnswerKeeps
<1>2. ASSUME NEW n, QuoteAges(n) PROVE SwapKept'
  <2>1. \A r \in asks' : AskIsOfTheField(r)'
    BY <1>2, AsksStay DEF QuoteAges, editVars
  <2> QED BY <1>2, <2>1 DEF QuoteAges, SwapKept, editVars, confirmVars, SignedQuoteIsShown
<1>3. ASSUME NEW a, Type(a) PROVE SwapKept'
  <2>1. Shaped(asking, AskingFields)' /\ asking'.id = 0 /\ (~asking'.loading => preview' = NoQuote)
    BY <1>3 DEF Type, Shaped, AskingFields
  <2>2. \A r \in asks' : AskIsOfTheField(r)'
    BY <1>0, <1>3, <2>1 DEF Type, AskIsOfTheField
  <2> QED BY <1>3, <2>1, <2>2 DEF Type, SwapKept, confirmVars, SignedQuoteIsShown
<1>4. ASSUME AskPreview PROVE SwapKept'
  <2>1. /\ Shaped(asking, AskingFields)' /\ asking'.id = asksMade + 1
        /\ asking'.loading = asking.loading
    BY <1>0, <1>4 DEF AskPreview, Shaped, AskingFields
  <2>2. ASSUME NEW r \in asks' PROVE AskIsOfTheField(r)'
    <3>. DEFINE new == <<"edit", asksMade + 1, typed, 0>>
    <3>0. new[1] = "edit" /\ new[2] = asksMade + 1 /\ new[3] = typed
      OBVIOUS
    <3>1. asks' = asks \cup {new} /\ asksMade' = asksMade + 1 /\ typed' = typed
      BY <1>4 DEF AskPreview
    <3>. HIDE DEF new
    <3>2. CASE r = new
      BY <1>0, <3>0, <3>1, <3>2 DEF AskIsOfTheField
    <3>3. CASE r \in asks
      BY <1>0, <2>1, <3>1, <3>3 DEF AskIsOfTheField
    <3> QED BY <3>1, <3>2, <3>3
  <2>3. asksMade' = asksMade + 1 /\ UNCHANGED <<typed, preview, page, confirmVars>>
    BY <1>4 DEF AskPreview
  <2>4. (\A r \in asks : AskIsOfTheField(r))'
    BY <2>2
  <2> QED BY <2>1, <2>3, <2>4 DEF SwapKept, confirmVars, SignedQuoteIsShown
<1>5. ASSUME NEW r \in asks, TakePreview(r) PROVE SwapKept'
  <2>0. UNCHANGED <<typed, page, confirmVars, asksMade>>
    BY <1>5 DEF TakePreview
  <2>1. Shaped(asking, AskingFields)' /\ asking'.id = asking.id
    BY <1>0, <1>5 DEF TakePreview, Shaped, AskingFields
  <2>2. ~asking'.loading /\ preview' # NoQuote => preview'.amount = typed
    <3>1. CASE page = "edit" /\ AppliesPreview(r[2])
      BY <1>0, <1>5, <3>1 DEF TakePreview, AppliesPreview, AskIsOfTheField
    <3>2. CASE ~(page = "edit" /\ AppliesPreview(r[2]))
      BY <1>5, <3>2 DEF TakePreview, SwapKept
    <3> QED BY <3>1, <3>2
  <2>3. \A q \in asks' : AskIsOfTheField(q)'
    BY <1>0, <1>5, <2>0, <2>1 DEF TakePreview, AskIsOfTheField
  <2> QED BY <2>0, <2>1, <2>2, <2>3 DEF SwapKept, confirmVars, SignedQuoteIsShown
<1>6. ASSUME NEW quote, ShowConfirm(quote), page \in {"edit", "failed"} PROVE SwapKept'
  <2>1. Shaped(confirming, ConfirmingFields)' /\ confirming'.gen = 0
    BY <1>0, <1>6 DEF ShowConfirm, SwapKept, Shaped, ConfirmingFields
  <2> QED BY <1>0, <1>6, <2>1, PageTurns DEF ShowConfirm, editVars
<1>7. ASSUME Approve \/ TryAgain PROVE SwapKept'
  BY <1>6, <1>7 DEF Approve, TryAgain
<1>8. ASSUME StartRefresh PROVE SwapKept'
  <2>1. /\ Shaped(confirming, ConfirmingFields)' /\ confirming'.gen = asksMade + 1
        /\ confirming'.prepare = "none"
    BY <1>0, <1>8 DEF StartRefresh, Shaped, ConfirmingFields
  <2>2. ASSUME NEW r \in asks' PROVE AskIsOfTheField(r)'
    <3>. DEFINE new == <<"confirm", asksMade + 1, typed, 0>>
    <3>0. new[1] = "confirm" /\ new[2] = asksMade + 1
      OBVIOUS
    <3>1. asks' = asks \cup {new} /\ asksMade' = asksMade + 1 /\ typed' = typed /\ asking' = asking
      BY <1>8 DEF StartRefresh, editVars
    <3>. HIDE DEF new
    <3>2. CASE r = new
      BY <1>0, <3>0, <3>1, <3>2 DEF AskIsOfTheField
    <3>3. CASE r \in asks
      BY <1>0, <3>1, <3>3 DEF AskIsOfTheField
    <3> QED BY <3>1, <3>2, <3>3
  <2>3. /\ asksMade' = asksMade + 1 /\ reviewedNo' = 0 /\ page = "confirm" /\ signing = NoQuote
        /\ UNCHANGED <<editVars, page, shown, signing>>
    BY <1>8 DEF StartRefresh, RefreshDue
  <2>4. (\A r \in asks : AskIsOfTheField(r))'
    BY <2>2
  <2> QED BY <2>1, <2>3, <2>4 DEF SwapKept, editVars, SignedQuoteIsShown
<1>9. ASSUME NEW r \in asks, TakeRefresh(r) PROVE SwapKept'
  <2>1. \A q \in asks' : AskIsOfTheField(q)'
    BY <1>0, <1>9 DEF TakeRefresh, AskIsOfTheField, editVars
  <2>2. UNCHANGED <<editVars, page, reviewedNo, signing, asksMade>>
    BY <1>9 DEF TakeRefresh
  <2>3. CASE AppliesRefresh(r[2])
    <3>1. signing = NoQuote /\ confirming.gen # 0 /\ reviewedNo = 0
      BY <1>0, <2>3 DEF AppliesRefresh, AskIsOfTheField, SwapKept
    <3>2. Shaped(confirming, ConfirmingFields)' /\ confirming'.gen = 0
      BY <1>0, <1>9, <2>3 DEF TakeRefresh, Shaped, ConfirmingFields
    <3> QED BY <2>1, <2>2, <3>1, <3>2 DEF SwapKept, editVars, SignedQuoteIsShown
  <2>4. CASE ~AppliesRefresh(r[2])
    BY <1>9, <2>1, <2>2, <2>4 DEF TakeRefresh, SwapKept, editVars, SignedQuoteIsShown
  <2> QED BY <2>3, <2>4
<1>10. ASSUME RetryDue \/ UNCHANGED swapVars PROVE SwapKept'
  <2>1. UNCHANGED <<editVars, asks, page, shown, confirming, reviewedNo, signing, asksMade>>
    BY <1>10 DEF RetryDue, swapVars, editVars
  <2>2. \A r \in asks' : AskIsOfTheField(r)'
    BY <2>1, AsksStay DEF editVars
  <2> QED BY <2>1, <2>2 DEF SwapKept, editVars, SignedQuoteIsShown
<1>11. ASSUME StartPrepare \/ TakePrepare PROVE SwapKept'
  <2>0. confirming.gen = 0
    BY <1>11 DEF StartPrepare, TakePrepare, SwapKept
  <2>1. Shaped(confirming, ConfirmingFields)' /\ confirming'.gen = 0
    BY <1>0, <1>11, <2>0 DEF StartPrepare, TakePrepare, Shaped, ConfirmingFields
  <2>2. /\ UNCHANGED <<editVars, asks, page, shown, asksMade, signing>>
        /\ reviewedNo' \in {reviewedNo, 0} \/ reviewedNo' = shown.no
    BY <1>11 DEF StartPrepare, TakePrepare
  <2>3. signing' = NoQuote \/ (page = "confirm" /\ signing' = shown /\ shown.amount = typed)
    BY <1>0, <2>2 DEF SwapKept, SignedQuoteIsShown
  <2> QED BY <2>1, <2>2, <2>3, ConfirmingMoves
<1>12. ASSUME ConfirmSwap PROVE SwapKept'
  <2>1. Shaped(confirming, ConfirmingFields)' /\ confirming'.gen = 0
    BY <1>0, <1>12 DEF ConfirmSwap, Shaped, ConfirmingFields
  <2> QED BY <1>12, <2>1, ConfirmingMoves DEF ConfirmSwap
<1>13. ASSUME RefuseStale \/ ReviewAgain PROVE SwapKept'
  <2>0. confirming.gen = 0
    BY <1>13 DEF RefuseStale, ReviewAgain, Refreshing, SwapKept
  <2>1. Shaped(confirming, ConfirmingFields)' /\ confirming'.gen = 0
    BY <1>0, <1>13, <2>0 DEF RefuseStale, ReviewAgain, Shaped, ConfirmingFields
  <2> QED BY <1>13, <2>1, ConfirmingMoves DEF RefuseStale, ReviewAgain
<1>14. ASSUME VisitOver PROVE Shaped(confirming, ConfirmingFields)' /\ confirming'.gen = 0
  BY <1>0, <1>14 DEF VisitOver, Shaped, ConfirmingFields
<1>15. ASSUME SwapSettles PROVE SwapKept'
  BY <1>14, <1>15, PageTurns DEF SwapSettles, VisitOver, editVars
<1>16. ASSUME BackToEdit \/ LeaveSwap PROVE SwapKept'
  <2>1. /\ Shaped(asking, AskingFields)' /\ asking'.id = 0 /\ preview' = NoQuote
        /\ page' = "edit" /\ VisitOver /\ UNCHANGED <<asks, asksMade>>
    BY <1>16 DEF BackToEdit, LeaveSwap, Shaped, AskingFields, VisitOver
  <2>2. signing' = NoQuote
    BY <1>0, <1>16 DEF BackToEdit, LeaveSwap
  <2> QED BY <1>14, <2>1, <2>2, PageTurns
<1> QED BY <1>1, <1>2, <1>3, <1>4, <1>5, <1>7, <1>8, <1>9, <1>10, <1>11, <1>12, <1>13, <1>15, <1>16
        DEF SwapNext

LEMMA SwapOnly == [UseNext]_useVars => [SwapNext]_swapVars
BY DEF UseNext, useVars, Using

\* A preview is of the amount in its field and the quote signed is the one on
\* screen, however late quotes are answered (swapQuoteRefresh.ts).
THEOREM QuotesFit == UseSpec => [](PreviewIsOfTheField /\ SignedQuoteIsShown)
<1>1. UseInit => SwapKept
  BY SwapStart DEF UseInit
<1>2. SwapKept /\ [UseNext]_useVars => SwapKept'
  BY SwapOnly, SwapKeep
<1>3. SwapKept => PreviewIsOfTheField /\ SignedQuoteIsShown
  BY PreviewFits DEF SwapKept
<1> QED BY <1>1, <1>2, <1>3, PTL DEF UseSpec

-----------------------------------------------------------------------------
(* The prices of tokens. *)

\* An answer of the market that is being written is in memory, and no snapshot is
\* being read that would take its place.
WriteIsKept(T) ==
    flights[T].at = "writing" =>
        /\ HasPrices(priceMemory) /\ T \cap Priced \subseteq priceMemory.codes
        /\ ReadsOutstanding => ~HasPrices(priceStored)
        /\ flights[T].snapshot.codes = T \cap Priced

AskHasThePrices(ask) ==
    /\ ask.at = "answered" => ask.asked \cap Priced \subseteq ask.got
    /\ ask.at = "waiting" => Shaped(ask, {"at", "asked", "since", "own"})

\* The inductive invariant of the prices.
PricesKept ==
    /\ flights = [T \in TokenSets |-> flights[T]]
    /\ priceAsk = [k \in PriceAsks |-> priceAsk[k]]
    /\ \A T \in TokenSets : WriteIsKept(T)
    /\ \A k \in PriceAsks : AskHasThePrices(priceAsk[k])

LEMMA PricesStart == PricesInit => PricesKept
BY DEF PricesInit, PricesKept, WriteIsKept, AskHasThePrices, Grounded, Resting

LEMMA PricesAreAnswered == PricesKept => AnswerHasThePrices
BY DEF PricesKept, AskHasThePrices, AnswerHasThePrices

\* One call goes on: with an answer from a snapshot that covers it, or to wait.
LEMMA ProceedsKeeps ==
  ASSUME PricesKept, NEW k \in PriceAsks, NEW T, NEW s, Proceeds(k, T, s), UNCHANGED priceStored,
         priceMemory' = priceMemory \/ (ReadsOutstanding /\ HasPrices(priceStored))
  PROVE  PricesKept'
<1>. DEFINE answer == PriceAnswer(T, s, "answered")
            aboard == Aboard(k, T)
            own == [Aboard(k, T) EXCEPT !.own = TRUE]
<1>1. /\ Covers(s, T) => AskHasThePrices(answer)
      /\ AskHasThePrices(aboard) /\ AskHasThePrices(own)
      /\ {answer.at, aboard.at, own.at} \subseteq {"answered", "waiting"}
  BY DEF AskHasThePrices, PriceAnswer, Aboard, Covers, Shaped
<1>2. PICK ask \in {answer, aboard, own} :
         /\ AskHasThePrices(ask) /\ ask.at # "reading"
         /\ priceAsk' = [priceAsk EXCEPT ![k] = ask]
         /\ flights' = flights \/ flights' = [flights EXCEPT ![T] = [at |-> "asked"]]
  <2>. HIDE DEF answer, aboard, own
  <2>1. \/ Covers(s, T) /\ priceAsk' = [priceAsk EXCEPT ![k] = answer] /\ UNCHANGED flights
        \/ priceAsk' = [priceAsk EXCEPT ![k] = aboard] /\ UNCHANGED flights
        \/ /\ priceAsk' = [priceAsk EXCEPT ![k] = own]
           /\ flights' = [flights EXCEPT ![T] = [at |-> "asked"]]
    BY DEF Proceeds, answer, aboard, own
  <2> QED BY <1>1, <2>1
<1>3. /\ priceAsk' = [j \in PriceAsks |-> IF j = k THEN ask ELSE priceAsk[j]]
      /\ \A j \in PriceAsks : AskHasThePrices(priceAsk'[j])
  BY <1>2 DEF PricesKept
<1>4. ReadsOutstanding' => ReadsOutstanding
  BY <1>2, <1>3 DEF ReadsOutstanding
<1>5. /\ flights' = [U \in TokenSets |-> flights'[U]]
      /\ \A U \in TokenSets : flights'[U] = flights[U] \/ flights'[U].at = "asked"
  BY <1>2 DEF PricesKept
<1>6. \A U \in TokenSets : flights'[U].at = "writing" => WriteIsKept(U) /\ flights'[U] = flights[U]
  BY <1>5 DEF PricesKept
<1>7. \A U \in TokenSets : WriteIsKept(U)'
  BY <1>4, <1>6 DEF WriteIsKept
<1> QED BY <1>3, <1>5, <1>7 DEF PricesKept, AskHasThePrices, WriteIsKept

LEMMA PricesKeep == PricesKept /\ [PricesNext]_priceVars => PricesKept'
<1>. SUFFICES ASSUME PricesKept, [PricesNext]_priceVars PROVE PricesKept'
  OBVIOUS
<1>0. /\ \A T \in TokenSets : WriteIsKept(T)
      /\ \A k \in PriceAsks : AskHasThePrices(priceAsk[k])
  BY DEF PricesKept
<1>1. ASSUME NEW k \in PriceAsks, NEW T \in TokenSets, AskPrices(k, T) PROVE PricesKept'
  <2>1. CASE Proceeds(k, T, priceMemory)
    BY <1>1, <2>1, ProceedsKeeps DEF AskPrices
  <2>2. CASE /\ ~HasPrices(priceMemory) /\ UNCHANGED flights
             /\ priceAsk' = [priceAsk EXCEPT ![k] = [at |-> "reading", asked |-> T]]
    <3>1. \A U \in TokenSets : flights[U].at # "writing"
      BY <1>0, <2>2 DEF WriteIsKept
    <3>2. \A U \in TokenSets : WriteIsKept(U)'
      BY <2>2, <3>1 DEF WriteIsKept
    <3> QED BY <1>0, <1>1, <2>2, <3>2 DEF PricesKept, AskHasThePrices, AskPrices
  <2> QED BY <1>1, <2>1, <2>2 DEF AskPrices
<1>2. ASSUME NEW k \in PriceAsks, StoredPricesRead(k) PROVE PricesKept'
  <2>. DEFINE s == IF HasPrices(priceStored) THEN priceStored ELSE priceMemory
  <2>1. ReadsOutstanding
    BY <1>2 DEF StoredPricesRead, ReadsOutstanding
  <2>2. priceMemory' = s /\ Proceeds(k, priceAsk[k].asked, s) /\ UNCHANGED priceStored
    BY <1>2 DEF StoredPricesRead
  <2>3. priceMemory' = priceMemory \/ HasPrices(priceStored)
    BY <2>2
  <2>. HIDE DEF s
  <2> QED BY <2>1, <2>2, <2>3, ProceedsKeeps
\* What a call or a request comes to leaves the others as they are.
<1>3. ASSUME ReadsOutstanding' => ReadsOutstanding, priceAsk' = [j \in PriceAsks |-> priceAsk'[j]],
             \A j \in PriceAsks : AskHasThePrices(priceAsk'[j]),
             HasPrices(priceMemory) => HasPrices(priceMemory'),
             \A c \in priceMemory.codes : c \in priceMemory'.codes,
             flights' = [U \in TokenSets |-> flights'[U]],
             NEW T, \A U \in TokenSets : flights'[U] = flights[U] \/ U = T,
             T \in TokenSets => WriteIsKept(T)',
             UNCHANGED priceStored \/ ~ReadsOutstanding
      PROVE  PricesKept'
  <2>1. ASSUME NEW U \in TokenSets PROVE WriteIsKept(U)'
    <3>1. CASE U = T
      BY <1>3, <3>1
    <3>2. CASE U # T
      <4>1. flights'[U] = flights[U] /\ WriteIsKept(U)
        BY <1>0, <1>3, <3>2
      <4> QED BY <1>3, <4>1 DEF WriteIsKept, HasPrices
    <3> QED BY <3>1, <3>2
  <2> QED BY <1>3, <2>1 DEF PricesKept, AskHasThePrices, WriteIsKept
<1>4. ASSUME NEW k \in PriceAsks, TakePrices(k) PROVE PricesKept'
  <2>1. priceAsk' = [j \in PriceAsks |-> IF j = k THEN Resting ELSE priceAsk[j]]
    BY <1>4 DEF TakePrices, PricesKept
  <2>2. \A j \in PriceAsks : AskHasThePrices(priceAsk'[j])
    BY <1>0, <2>1 DEF AskHasThePrices, Resting
  <2>3. ReadsOutstanding' => ReadsOutstanding
    BY <2>1 DEF ReadsOutstanding, Resting
  <2>4. UNCHANGED <<flights, priceMemory, priceStored>>
    BY <1>4 DEF TakePrices
  <2>5. \A U \in TokenSets : WriteIsKept(U)'
    BY <1>0, <2>3, <2>4 DEF WriteIsKept
  <2> QED BY <2>1, <2>2, <2>4, <2>5 DEF PricesKept, AskHasThePrices, WriteIsKept
<1>5. ASSUME NEW T \in TokenSets, MarketAnswers(T) PROVE PricesKept'
  <2>. DEFINE s == [kept |-> TRUE, codes |-> T \cap Priced, age |-> 0]
              m == MergedPrices(priceMemory, s)
              f == [at |-> "writing", snapshot |-> s, write |-> m]
  <2>1. /\ HasPrices(m) /\ m.codes = priceMemory.codes \cup (T \cap Priced)
        /\ f.snapshot.codes = T \cap Priced
    BY DEF MergedPrices, HasPrices
  <2>2. priceMemory' = m /\ flights' = [flights EXCEPT ![T] = f]
        /\ UNCHANGED <<priceStored, priceAsk>> /\ (ReadsOutstanding => ~HasPrices(priceStored))
    BY <1>5 DEF MarketAnswers
  <2>. HIDE DEF m, f
  <2>3. flights' = [U \in TokenSets |-> IF U = T THEN f ELSE flights[U]]
    BY <2>2 DEF PricesKept
  <2>4. ReadsOutstanding' = ReadsOutstanding
    BY <2>2 DEF ReadsOutstanding
  <2>6. WriteIsKept(T)'
    <3>1. flights'[T] = f
      BY <2>3
    <3> QED BY <2>1, <2>2, <2>4, <3>1 DEF WriteIsKept
  <2>7. \A U \in TokenSets : flights'[U] = flights[U] \/ U = T
    BY <2>3
  <2>8. priceAsk' = [j \in PriceAsks |-> priceAsk'[j]] /\ \A j \in PriceAsks : AskHasThePrices(priceAsk'[j])
    BY <1>0, <2>2 DEF PricesKept
  <2> QED BY <1>3, <2>1, <2>2, <2>3, <2>4, <2>6, <2>7, <2>8
<1>6. ASSUME NEW T \in TokenSets, PricesWritten(T) PROVE PricesKept'
  <2>. DEFINE joined == \E k \in Waiting(T) : ~priceAsk[k].own
              merged == MergedPrices(priceMemory, flights[T].snapshot)
              m == IF joined THEN merged ELSE priceMemory
  <2>0. /\ WriteIsKept(T) /\ flights[T].at = "writing" /\ ~ReadsOutstanding
    BY <1>0, <1>6 DEF PricesWritten
  <2>1. /\ HasPrices(merged) /\ merged.codes = priceMemory.codes \cup flights[T].snapshot.codes
    BY DEF MergedPrices, HasPrices
  <2>2. /\ priceMemory' = m /\ flights' = [flights EXCEPT ![T] = Grounded]
        /\ priceAsk' = [k \in PriceAsks |->
              CASE k \notin Waiting(T) -> priceAsk[k]
                [] k \in Waiting(T) /\ priceAsk[k].own -> PriceAnswer(T, priceMemory, "answered")
                [] OTHER -> PriceAnswer(T, m, "answered")]
    BY <1>6 DEF PricesWritten
  <2>. HIDE DEF merged
  <2>3. HasPrices(m) /\ \A c \in priceMemory.codes : c \in m.codes
    BY <2>0, <2>1 DEF WriteIsKept
  <2>. HIDE DEF m
  <2>4. /\ \A c \in T \cap Priced : c \in priceMemory.codes /\ c \in m.codes
    BY <2>0, <2>3 DEF WriteIsKept
  <2>5. ASSUME NEW s, \A c \in T \cap Priced : c \in s.codes
        PROVE  /\ AskHasThePrices(PriceAnswer(T, s, "answered"))
               /\ PriceAnswer(T, s, "answered").at = "answered"
    BY <2>5 DEF AskHasThePrices, PriceAnswer
  <2>6. \A j \in PriceAsks : /\ AskHasThePrices(priceAsk'[j])
                             /\ priceAsk'[j].at = "reading" => priceAsk[j].at = "reading"
    <3>. TAKE j \in PriceAsks
    <3>1. \/ priceAsk'[j] = priceAsk[j]
          \/ priceAsk'[j] = PriceAnswer(T, priceMemory, "answered")
          \/ priceAsk'[j] = PriceAnswer(T, m, "answered")
      BY <2>2
    <3> QED BY <1>0, <2>4, <2>5, <3>1
  <2>7. ReadsOutstanding' => ReadsOutstanding
    BY <2>6 DEF ReadsOutstanding
  <2>8. flights' = [U \in TokenSets |-> IF U = T THEN Grounded ELSE flights[U]]
    BY <2>2 DEF PricesKept
  <2>9. \A U \in TokenSets : flights'[U] = flights[U] \/ U = T
    BY <2>8
  <2>10. WriteIsKept(T)'
    BY <2>8 DEF WriteIsKept, Grounded
  <2>11. priceAsk' = [j \in PriceAsks |-> priceAsk'[j]]
    BY <2>2
  <2>12. priceMemory' = m
    BY <2>2
  <2> QED BY <1>3, <2>0, <2>3, <2>6, <2>7, <2>8, <2>9, <2>10, <2>11, <2>12
<1>7. ASSUME NEW T \in TokenSets, MarketFails(T) PROVE PricesKept'
  <2>1. /\ flights' = [U \in TokenSets |-> IF U = T THEN Grounded ELSE flights[U]]
        /\ UNCHANGED <<priceMemory, priceStored>>
    BY <1>7 DEF MarketFails, PricesKept
  <2>2. \A s : \A how \in {"instead", "failed"} :
           AskHasThePrices(PriceAnswer(T, s, how)) /\ PriceAnswer(T, s, how).at = how
    BY DEF AskHasThePrices, PriceAnswer
  <2>3. priceAsk' = [j \in PriceAsks |-> priceAsk'[j]]
    BY <1>7 DEF MarketFails
  <2>4. \A j \in PriceAsks : /\ AskHasThePrices(priceAsk'[j])
                             /\ priceAsk'[j].at = "reading" => priceAsk[j].at = "reading"
    <3>. TAKE j \in PriceAsks
    <3>1. \/ priceAsk'[j] = priceAsk[j]
          \/ priceAsk'[j] = PriceAnswer(T, priceMemory, "instead")
          \/ priceAsk'[j] = PriceAnswer(T, NoPrices, "failed")
      BY <1>7 DEF MarketFails
    <3> QED BY <1>0, <2>2, <3>1
  <2>5. ReadsOutstanding' => ReadsOutstanding
    BY <2>4 DEF ReadsOutstanding
  <2>6. \A U \in TokenSets : flights'[U] = flights[U] \/ U = T
    BY <2>1
  <2>7. WriteIsKept(T)'
    BY <2>1 DEF WriteIsKept, Grounded
  <2> QED BY <1>3, <2>1, <2>3, <2>4, <2>5, <2>6, <2>7
\* Nothing is being written.
<1>8. ASSUME MinutePasses PROVE PricesKept'
  <2>1. UNCHANGED flights /\ \A T \in TokenSets : flights[T].at # "writing"
    BY <1>8 DEF MinutePasses
  <2>2. priceAsk' = [k \in PriceAsks |->
          IF priceAsk[k].at = "waiting" THEN [priceAsk[k] EXCEPT !.since = @ + 1]
          ELSE priceAsk[k]]
    BY <1>8 DEF MinutePasses
  <2>3. ASSUME NEW ask, AskHasThePrices(ask), ask.at = "waiting"
        PROVE  AskHasThePrices([ask EXCEPT !.since = @ + 1])
    BY <2>3 DEF AskHasThePrices, Shaped
  <2>4. \A j \in PriceAsks : AskHasThePrices(priceAsk'[j])
    BY <1>0, <2>2, <2>3
  <2> QED BY <2>1, <2>2, <2>4 DEF PricesKept, AskHasThePrices, WriteIsKept
<1>9. ASSUME PricesStop PROVE PricesKept'
  BY <1>9 DEF PricesStop, PricesKept, WriteIsKept, AskHasThePrices, Grounded, Resting
<1>10. ASSUME UNCHANGED priceVars PROVE PricesKept'
  BY <1>10 DEF priceVars, PricesKept, WriteIsKept, AskHasThePrices, ReadsOutstanding, HasPrices
<1> QED BY <1>1, <1>2, <1>4, <1>5, <1>6, <1>7, <1>8, <1>9, <1>10 DEF PricesNext

LEMMA PricesOnly == [UseNext]_useVars => [PricesNext]_priceVars
BY DEF UseNext, useVars, Using

\* A call for prices has those it asked for that the market has, whatever calls it
\* shares a request with (marketPrices.ts).
THEOREM PricesAnswered == UseSpec => []AnswerHasThePrices
<1>1. UseInit => PricesKept
  BY PricesStart DEF UseInit
<1>2. PricesKept /\ [UseNext]_useVars => PricesKept'
  BY PricesOnly, PricesKeep
<1>3. PricesKept => AnswerHasThePrices
  BY PricesAreAnswered
<1> QED BY <1>1, <1>2, <1>3, PTL DEF UseSpec

-----------------------------------------------------------------------------
(* The toolbar button. *)

HasTheWallet == toolNet \in funded
InThePanel == toolNet \in funded /\ surface = "sidepanel"

\* A run that has not read the wallets yet, one that has not seen to the setup
\* state, and one whose calls are still to come.
Early(at) == at \in {"init", "match", "state", "write"}
Pending == \E r \in Runs : Early(runs[r].at) \/ runs[r].at = "apply"
FreshAt(places) == \E r \in Runs : runs[r].at \in places /\ ~runs[r].stale

RunShape(x) ==
    /\ Shaped(x, {"at", "stale"}) \/ Shaped(x, {"at", "stale", "sets"})
    /\ x.at \in {"popup", "panel"} => Shaped(x, {"at", "stale", "sets"})
    /\ x.stale \in BOOLEAN

\* What a run has read, and no change has come since, is so.
ReadRight(x) ==
    /\ x.at = "pref" /\ ~x.stale => HasTheWallet
    /\ x.at \in {"popup", "panel"} /\ ~x.stale =>
          /\ x.sets = "popup" <=> HasTheWallet /\ surface # "sidepanel"
          /\ x.sets = "sidepanel" <=> InThePanel

\* What the button is, but for what runs that have read are about to set.
ButtonRight ==
    /\ button.listening = ~HasTheWallet
    /\ FreshAt({"pref", "popup"})
       \/ button.popup = IF HasTheWallet /\ surface # "sidepanel" THEN "popup" ELSE "none"
    /\ FreshAt({"pref", "popup", "panel"}) \/ button.panel = InThePanel

\* The inductive invariant of the button.
ToolbarKept ==
    /\ runs = [r \in Runs |-> runs[r]] /\ \A r \in Runs : RunShape(runs[r])
    /\ Shaped(button, {"popup", "panel", "listening"}) /\ muddled \in BOOLEAN
    /\ \A r \in Runs : ReadRight(runs[r])
    /\ muddled \/ Pending \/ ButtonRight
    /\ (\E r \in Runs : Early(runs[r].at)) \/ (HasTheWallet => toolNet \in setUp)

LEMMA ButtonOpens == ToolbarKept => ButtonOpensTheWallet
<1>. SUFFICES ASSUME ToolbarKept, \A r \in Runs : runs[r].at = "none", ~muddled
              PROVE  /\ toolNet \in funded => toolNet \in setUp
                     /\ button = [popup |-> IF toolNet \in funded /\ surface # "sidepanel"
                                            THEN "popup" ELSE "none",
                                  panel |-> toolNet \in funded /\ surface = "sidepanel",
                                  listening |-> toolNet \notin funded]
  BY DEF ButtonOpensTheWallet
<1>1. toolNet \in funded => toolNet \in setUp
  BY DEF ToolbarKept, Early, HasTheWallet
<1>2. ~Pending /\ \A places \in {{"pref", "popup"}, {"pref", "popup", "panel"}} : ~FreshAt(places)
  BY DEF Pending, Early, FreshAt
<1>3. /\ button.listening = (toolNet \notin funded)
      /\ button.popup = IF toolNet \in funded /\ surface # "sidepanel" THEN "popup" ELSE "none"
      /\ button.panel = (toolNet \in funded /\ surface = "sidepanel")
  BY <1>2 DEF ToolbarKept, ButtonRight, HasTheWallet, InThePanel
<1>4. button = [f \in {"popup", "panel", "listening"} |-> button[f]]
  BY DEF ToolbarKept, Shaped
<1>5. button = [popup |-> button.popup, panel |-> button.panel, listening |-> button.listening]
  BY <1>4
<1> QED BY <1>1, <1>3, <1>5

LEMMA NewRunShape == ASSUME NEW at, at \notin {"pref", "popup", "panel"}
                     PROVE  LET x == NewRun(at) IN x.at = at /\ RunShape(x) /\ ReadRight(x)
BY DEF NewRun, RunShape, Shaped, ReadRight

LEMMA ToolbarStart == ToolbarInit => ToolbarKept
<1>. SUFFICES ASSUME ToolbarInit PROVE ToolbarKept
  OBVIOUS
<1>1. /\ runs = [r \in Runs |-> IF r = 1 THEN NewRun("init") ELSE NewRun("none")]
      /\ 1 \in Runs
  BY ToolbarAssumption DEF ToolbarInit, NoRun, NewRun
<1>2. \A r \in Runs : RunShape(runs[r]) /\ ReadRight(runs[r])
  BY <1>1, NewRunShape
<1>3. runs[1].at = "init"
  BY <1>1, NewRunShape
<1> QED BY <1>1, <1>2, <1>3 DEF ToolbarInit, ToolbarKept, Shaped, Pending, Early

\* A run that is about to look at everything makes all else good again.
LEMMA Pends ==
  ASSUME runs' = [r \in Runs |-> runs'[r]], \A r \in Runs : RunShape(runs'[r]),
         (\A r \in Runs : ReadRight(runs[r]))',
         Shaped(button, {"popup", "panel", "listening"})', muddled' \in BOOLEAN,
         NEW c \in Runs, Early(runs'[c].at)
  PROVE  ToolbarKept'
BY DEF ToolbarKept, Pending

\* One more run.
LEMMA Begins ==
  ASSUME ToolbarKept, FreeRuns # {}, NEW rs, runs' = Begun(rs), rs = [r \in Runs |-> rs[r]],
         \A r \in Runs : RunShape(rs[r]), \A r \in Runs : ReadRight(rs[r])
  PROVE  /\ runs' = [r \in Runs |-> runs'[r]] /\ \A r \in Runs : RunShape(runs'[r])
         /\ \A r \in Runs : ReadRight(runs'[r])
         /\ \E c \in Runs : Early(runs'[c].at)
<1>. DEFINE c == CHOOSE r \in FreeRuns : TRUE
            x == NewRun("match")
<1>1. c \in Runs
  BY DEF FreeRuns
<1>2. x.at = "match" /\ RunShape(x) /\ ReadRight(x)
  BY NewRunShape
<1>3. runs' = [rs EXCEPT ![c] = x]
  BY DEF Begun
<1>. HIDE DEF c, x
<1>4. runs' = [r \in Runs |-> IF r = c THEN x ELSE rs[r]]
  BY <1>3
<1> QED BY <1>1, <1>2, <1>4 DEF Early

\* After a change the runs that have read are stale.
LEMMA ChangeKeeps ==
  ASSUME ToolbarKept, FreeRuns # {}, runs' = Begun(Staled), UNCHANGED <<button, muddled>>
  PROVE  ToolbarKept'
<1>. DEFINE rs == Staled
<1>1. /\ rs = [r \in Runs |-> rs[r]]
      /\ \A r \in Runs : rs[r] = [runs[r] EXCEPT !.stale = @ \/ HasRead(r)]
  BY DEF Staled
<1>2. \A r \in Runs : RunShape(rs[r]) /\ (rs[r].at \in {"pref", "popup", "panel"} => rs[r].stale)
  <2>. SUFFICES ASSUME NEW r \in Runs
                PROVE  RunShape(rs[r]) /\ (rs[r].at \in {"pref", "popup", "panel"} => rs[r].stale)
    OBVIOUS
  <2>. DEFINE x == runs[r]
              stale == x.stale \/ HasRead(r)
              y == [x EXCEPT !.stale = stale]
  <2>1. RunShape(x) /\ stale \in BOOLEAN /\ (x.at \in {"pref", "popup", "panel"} => stale)
    BY DEF ToolbarKept, HasRead
  <2>2. rs[r] = y
    BY <1>1
  <2>. HIDE DEF rs, x, stale
  <2>3. y.at = x.at /\ y.stale = stale /\ RunShape(y)
    BY <2>1 DEF RunShape, Shaped
  <2> QED BY <2>1, <2>2, <2>3
<1>. HIDE DEF rs
<1>3. \A r \in Runs : ReadRight(rs[r])
  BY <1>2 DEF ReadRight
<1>4. \A r \in Runs : rs[r].at \in {"pref", "popup", "panel"} => rs[r].stale
  BY <1>2
<1>5. /\ runs' = [r \in Runs |-> runs'[r]] /\ \A r \in Runs : RunShape(runs'[r])
      /\ \E c \in Runs : Early(runs'[c].at)
  BY <1>1, <1>2, <1>3, Begins DEF rs
<1>6. \A r \in Runs : runs'[r] = rs[r] \/ runs'[r] = NewRun("match")
  <2>1. runs' = [rs EXCEPT ![CHOOSE r \in FreeRuns : TRUE] = NewRun("match")]
    BY DEF Begun, rs
  <2> QED BY <1>1, <2>1
<1>7. \A r \in Runs : runs'[r].at \in {"pref", "popup", "panel"} => runs'[r].stale
  BY <1>4, <1>6, NewRunShape
<1>8. (\A r \in Runs : ReadRight(runs[r]))'
  BY <1>7 DEF ReadRight
<1>9. Shaped(button, {"popup", "panel", "listening"})' /\ muddled' \in BOOLEAN
  BY DEF ToolbarKept
<1> QED BY <1>5, <1>8, <1>9, Pends

\* One run goes on.
LEMMA RunGoes ==
  ASSUME ToolbarKept, NEW r \in Runs, NEW x, runs' = [runs EXCEPT ![r] = x], RunShape(x)
  PROVE  /\ runs' = [q \in Runs |-> IF q = r THEN x ELSE runs[q]]
         /\ runs' = [q \in Runs |-> runs'[q]] /\ \A q \in Runs : RunShape(runs'[q])
BY DEF ToolbarKept

\* The wallets, the network and the choice stay.
LEMMA SameReads ==
  ASSUME UNCHANGED <<funded, toolNet, surface>>, NEW x, ReadRight(x) PROVE ReadRight(x)'
BY DEF ReadRight, HasTheWallet, InThePanel

\* A run that had read goes on: the others are where they were.
LEMMA ReadRunGoes ==
  ASSUME ToolbarKept, NEW r \in Runs, NEW x, runs' = [runs EXCEPT ![r] = x], RunShape(x),
         runs[r].at \in {"apply", "pref", "popup", "panel"}, ReadRight(x),
         x.at \in {"none", "pref", "popup", "panel"},
         UNCHANGED <<funded, setUp, toolNet, surface>>,
         Shaped(button, {"popup", "panel", "listening"})', muddled' \in BOOLEAN,
         muddled' \/ Pending' \/ ButtonRight'
  PROVE  ToolbarKept'
<1>1. /\ runs' = [q \in Runs |-> IF q = r THEN x ELSE runs[q]]
      /\ runs' = [q \in Runs |-> runs'[q]] /\ \A q \in Runs : RunShape(runs'[q])
  BY RunGoes
<1>2. \A q \in Runs : ReadRight(runs'[q])
  BY <1>1 DEF ToolbarKept
<1>3. (\A q \in Runs : ReadRight(runs[q]))'
  BY <1>2 DEF ReadRight, HasTheWallet, InThePanel
<1>4. ((\E q \in Runs : Early(runs[q].at)) \/ (HasTheWallet => toolNet \in setUp))'
  BY <1>1 DEF ToolbarKept, Early, HasTheWallet
<1> QED BY <1>1, <1>3, <1>4 DEF ToolbarKept

LEMMA RunKeeps ==
  ASSUME ToolbarKept, NEW r \in Runs,
         \/ RunInits(r) \/ RunMatches(r) \/ RunReadsState(r) \/ RunWritesState(r)
         \/ RunReads(r) \/ RunReadsPref(r) \/ RunSetsPopup(r) \/ RunSetsPanel(r) \/ RunFails(r)
  PROVE  ToolbarKept'
<1>0. /\ RunShape(runs[r]) /\ ReadRight(runs[r]) /\ muddled \in BOOLEAN
      /\ \A q \in Runs : RunShape(runs[q]) /\ ReadRight(runs[q])
      /\ Shaped(button, {"popup", "panel", "listening"})
  BY DEF ToolbarKept
<1>00. ASSUME NEW at PROVE LET x == [runs[r] EXCEPT !.at = at]
                           IN /\ x.at = at /\ x.stale = runs[r].stale
                              /\ runs[r].at \in {"popup"} => x.sets = runs[r].sets
                              /\ at \notin {"popup", "panel"} \/ runs[r].at = "popup" => RunShape(x)
  BY <1>0 DEF RunShape, Shaped
<1>1. ASSUME RunInits(r) PROVE ToolbarKept'
  <2>. DEFINE x == NewRun("match")
              next == [runs EXCEPT ![r] = x]
  <2>1. x.at = "match" /\ RunShape(x) /\ ReadRight(x)
    BY NewRunShape
  <2>2. /\ next = [q \in Runs |-> IF q = r THEN x ELSE runs[q]]
        /\ runs' = next \/ (FreeRuns # {} /\ runs' = Begun(next))
    BY <1>1 DEF RunInits, ToolbarKept
  <2>. HIDE DEF x, next
  <2>3. \A q \in Runs : RunShape(next[q]) /\ ReadRight(next[q])
    BY <1>0, <2>1, <2>2
  <2>4. /\ runs' = [q \in Runs |-> runs'[q]] /\ \A q \in Runs : RunShape(runs'[q])
        /\ \A q \in Runs : ReadRight(runs'[q])
        /\ \E c \in Runs : Early(runs'[c].at)
    <3>1. CASE runs' = next
      BY <2>1, <2>2, <2>3, <3>1 DEF Early
    <3>2. CASE FreeRuns # {} /\ runs' = Begun(next)
      BY <2>2, <2>3, <3>2, Begins
    <3> QED BY <2>2, <3>1, <3>2
  <2>5. /\ funded' = funded /\ toolNet' = toolNet
        /\ surface' = surface \/ (surface = "unset" /\ surface' = "popup")
    BY <1>1 DEF RunInits
  <2>6. (\A q \in Runs : ReadRight(runs[q]))'
    BY <2>4, <2>5 DEF ReadRight, HasTheWallet, InThePanel
  <2>7. UNCHANGED <<button, muddled>>
    BY <1>1 DEF RunInits
  <2> QED BY <1>0, <2>4, <2>6, <2>7, Pends
\* A run that still sees to the setup state.
<1>2. ASSUME NEW at \in {"state", "write", "apply"}, runs' = [runs EXCEPT ![r].at = at],
             UNCHANGED <<funded, toolNet, surface, button, muddled>>,
             at = "apply" => (HasTheWallet => toolNet \in setUp')
      PROVE  ToolbarKept'
  <2>. DEFINE x == [runs[r] EXCEPT !.at = at]
  <2>1. x.at = at /\ RunShape(x) /\ runs' = [runs EXCEPT ![r] = x]
    BY <1>00, <1>2
  <2>. HIDE DEF x
  <2>2. /\ runs' = [q \in Runs |-> IF q = r THEN x ELSE runs[q]]
        /\ runs' = [q \in Runs |-> runs'[q]] /\ \A q \in Runs : RunShape(runs'[q])
    BY <2>1, RunGoes
  <2>3. ReadRight(x)
    BY <2>1 DEF ReadRight
  <2>4. \A q \in Runs : ReadRight(runs'[q])
    BY <1>0, <2>2, <2>3
  <2>5. (\A q \in Runs : ReadRight(runs[q]))'
    BY <1>2, <2>4 DEF ReadRight, HasTheWallet, InThePanel
  <2>6. Pending'
    BY <1>2, <2>1, <2>2 DEF Pending, Early
  <2>7. ((\E q \in Runs : Early(runs[q].at)) \/ (HasTheWallet => toolNet \in setUp))'
    BY <1>2, <2>1, <2>2 DEF Early, HasTheWallet
  <2> QED BY <1>0, <1>2, <2>2, <2>5, <2>6, <2>7 DEF ToolbarKept
<1>3. ASSUME RunMatches(r) PROVE ToolbarKept'
  <2>. DEFINE at == IF toolNet \in funded THEN "state" ELSE "apply"
  <2>1. runs' = [runs EXCEPT ![r].at = at] /\ UNCHANGED <<funded, setUp, toolNet, surface, button, muddled>>
    BY <1>3 DEF RunMatches
  <2>2. at \in {"state", "write", "apply"} /\ (at = "apply" => ~HasTheWallet)
    BY DEF HasTheWallet
  <2>. HIDE DEF at
  <2> QED BY <1>2, <2>1, <2>2
<1>4. ASSUME RunReadsState(r) PROVE ToolbarKept'
  <2>. DEFINE at == IF toolNet \in setUp THEN "apply" ELSE "write"
  <2>1. runs' = [runs EXCEPT ![r].at = at] /\ UNCHANGED <<funded, setUp, toolNet, surface, button, muddled>>
    BY <1>4 DEF RunReadsState
  <2>2. at \in {"state", "write", "apply"} /\ (at = "apply" => toolNet \in setUp')
    BY <2>1
  <2>. HIDE DEF at
  <2> QED BY <1>2, <2>1, <2>2
<1>5. ASSUME RunWritesState(r) PROVE ToolbarKept'
  <2>. DEFINE next == [runs EXCEPT ![r].at = "apply"]
  <2>1. /\ UNCHANGED <<funded, toolNet, surface, button, muddled>> /\ toolNet \in setUp'
        /\ runs' = next \/ (FreeRuns # {} /\ runs' = Begun(next))
    BY <1>5 DEF RunWritesState
  <2>2. CASE runs' = next
    BY <1>2, <2>1, <2>2
  <2>3. CASE FreeRuns # {} /\ runs' = Begun(next)
    <3>. DEFINE x == [runs[r] EXCEPT !.at = "apply"]
    <3>1. x.at = "apply" /\ RunShape(x)
      BY <1>00
    <3>2. next = [q \in Runs |-> IF q = r THEN x ELSE runs[q]]
      BY DEF ToolbarKept
    <3>. HIDE DEF x, next
    <3>3. ReadRight(x)
      BY <3>1 DEF ReadRight
    <3>4. \A q \in Runs : RunShape(next[q]) /\ ReadRight(next[q])
      BY <1>0, <3>1, <3>2, <3>3
    <3>5. /\ runs' = [q \in Runs |-> runs'[q]] /\ \A q \in Runs : RunShape(runs'[q])
          /\ \A q \in Runs : ReadRight(runs'[q])
          /\ \E c \in Runs : Early(runs'[c].at)
      BY <2>3, <3>2, <3>4, Begins
    <3>6. (\A q \in Runs : ReadRight(runs[q]))'
      BY <2>1, <3>5 DEF ReadRight, HasTheWallet, InThePanel
    <3> QED BY <1>0, <2>1, <3>5, <3>6, Pends
  <2> QED BY <2>1, <2>2, <2>3
<1>6. ASSUME RunReads(r) PROVE ToolbarKept'
  <2>. DEFINE x == IF ~HasTheWallet THEN [at |-> "popup", stale |-> FALSE, sets |-> "setup"]
                   ELSE NewRun("pref")
  <2>1. /\ RunShape(x) /\ x.at \in {"pref", "popup"} /\ x.stale = FALSE /\ ReadRight(x)
    BY DEF RunShape, Shaped, ReadRight, NewRun, InThePanel, HasTheWallet
  <2>2. /\ runs' = [runs EXCEPT ![r] = x] /\ muddled' = FALSE /\ runs[r].at = "apply"
        /\ UNCHANGED <<funded, setUp, toolNet, surface>>
        /\ button' = [button EXCEPT !.listening = ~HasTheWallet]
    BY <1>6 DEF RunReads, HasTheWallet
  <2>. HIDE DEF x
  <2>3. Shaped(button, {"popup", "panel", "listening"})' /\ button'.listening = ~HasTheWallet
    BY <1>0, <2>2 DEF Shaped
  <2>4. runs'[r] = x
    BY <2>2 DEF ToolbarKept
  <2>5. (FreshAt({"pref", "popup"}) /\ FreshAt({"pref", "popup", "panel"}))'
    BY <2>1, <2>4 DEF FreshAt
  <2>6. ButtonRight'
    BY <2>2, <2>3, <2>5 DEF ButtonRight, HasTheWallet
  <2> QED BY <2>1, <2>2, <2>3, <2>6, ReadRunGoes
<1>7. ASSUME RunReadsPref(r) PROVE ToolbarKept'
  <2>. DEFINE sets == IF surface = "sidepanel" THEN "sidepanel" ELSE "popup"
              x == [at |-> "popup", stale |-> runs[r].stale, sets |-> sets]
  <2>1. /\ RunShape(x) /\ x.at = "popup" /\ x.stale = runs[r].stale /\ x.sets = sets
    BY <1>0 DEF RunShape, Shaped
  <2>2. /\ runs' = [runs EXCEPT ![r] = x] /\ runs[r].at = "pref"
        /\ UNCHANGED <<funded, setUp, toolNet, surface, button, muddled>>
    BY <1>7 DEF RunReadsPref, ToolbarKept
  <2>. HIDE DEF x
  <2>3. ReadRight(x)
    <3>1. ~x.stale => HasTheWallet
      BY <1>0, <2>1, <2>2 DEF ReadRight
    <3>2. /\ x.sets = "popup" <=> surface # "sidepanel"
          /\ x.sets = "sidepanel" <=> surface = "sidepanel"
      BY <2>1
    <3> QED BY <2>1, <3>1, <3>2 DEF ReadRight, InThePanel, HasTheWallet
  <2>4. runs' = [q \in Runs |-> IF q = r THEN x ELSE runs[q]]
    BY <2>1, <2>2, RunGoes
  <2>5. Pending <=> Pending'
    BY <2>1, <2>2, <2>4 DEF Pending, Early
  <2>6. \A q \in Runs : /\ runs[q].at \in {"pref", "popup"} => runs'[q].at \in {"pref", "popup"}
                        /\ runs[q].at = "panel" => runs'[q].at = "panel"
                        /\ runs'[q].stale = runs[q].stale
    BY <2>1, <2>2, <2>4
  <2>7. /\ FreshAt({"pref", "popup"}) => FreshAt({"pref", "popup"})'
        /\ FreshAt({"pref", "popup", "panel"}) => FreshAt({"pref", "popup", "panel"})'
    <3>1. ASSUME FreshAt({"pref", "popup"}) PROVE FreshAt({"pref", "popup"})'
      <4>1. PICK q \in Runs : runs[q].at \in {"pref", "popup"} /\ ~runs[q].stale
        BY <3>1 DEF FreshAt
      <4>2. runs'[q].at \in {"pref", "popup"} /\ ~runs'[q].stale
        BY <2>6, <4>1
      <4> QED BY <4>2 DEF FreshAt
    <3>2. ASSUME FreshAt({"pref", "popup", "panel"}) PROVE FreshAt({"pref", "popup", "panel"})'
      <4>1. PICK q \in Runs : runs[q].at \in {"pref", "popup", "panel"} /\ ~runs[q].stale
        BY <3>2 DEF FreshAt
      <4>2. runs'[q].at \in {"pref", "popup", "panel"} /\ ~runs'[q].stale
        BY <2>6, <4>1
      <4> QED BY <4>2 DEF FreshAt
    <3> QED BY <3>1, <3>2
  <2>8. ButtonRight => ButtonRight'
    BY <2>2, <2>7 DEF ButtonRight, HasTheWallet, InThePanel
  <2>9. muddled' \/ Pending' \/ ButtonRight'
    BY <2>2, <2>5, <2>8 DEF ToolbarKept
  <2> QED BY <1>0, <2>1, <2>2, <2>3, <2>9, ReadRunGoes
<1>8. ASSUME RunSetsPopup(r) PROVE ToolbarKept'
  <2>. DEFINE x == [runs[r] EXCEPT !.at = "panel"]
  <2>1. /\ RunShape(x) /\ x.at = "panel" /\ x.stale = runs[r].stale /\ x.sets = runs[r].sets
    BY <1>00, <1>8 DEF RunSetsPopup
  <2>2. /\ runs' = [runs EXCEPT ![r] = x] /\ runs[r].at = "popup"
        /\ UNCHANGED <<funded, setUp, toolNet, surface>> /\ muddled' = (muddled \/ runs[r].stale)
        /\ button' = [button EXCEPT !.popup = IF runs[r].sets = "popup" THEN "popup" ELSE "none"]
    BY <1>8 DEF RunSetsPopup
  <2>. HIDE DEF x
  <2>3. ReadRight(x)
    BY <1>0, <2>1, <2>2 DEF ReadRight
  <2>4. /\ Shaped(button, {"popup", "panel", "listening"})'
        /\ button'.listening = button.listening
        /\ button'.popup = IF runs[r].sets = "popup" THEN "popup" ELSE "none"
    BY <1>0, <2>2 DEF Shaped
  <2>5. runs' = [q \in Runs |-> IF q = r THEN x ELSE runs[q]]
    BY <2>1, <2>2, RunGoes
  <2>6. Pending <=> Pending'
    BY <2>1, <2>2, <2>5 DEF Pending, Early
  <2>7. muddled' \in BOOLEAN
    BY <1>0, <2>2 DEF RunShape
  <2>8. ASSUME ~runs[r].stale, ButtonRight PROVE ButtonRight'
    <3>1. FreshAt({"pref", "popup", "panel"})'
      BY <2>1, <2>5, <2>8 DEF FreshAt
    <3>2. runs[r].sets = "popup" <=> HasTheWallet /\ surface # "sidepanel"
      BY <1>0, <2>2, <2>8 DEF ReadRight
    <3> QED BY <2>2, <2>4, <2>8, <3>1, <3>2 DEF ButtonRight, HasTheWallet
  <2>9. muddled' \/ Pending' \/ ButtonRight'
    BY <2>2, <2>6, <2>8 DEF ToolbarKept
  <2> QED BY <2>1, <2>2, <2>3, <2>4, <2>7, <2>9, ReadRunGoes
<1>9. ASSUME RunSetsPanel(r) PROVE ToolbarKept'
  <2>. DEFINE x == NoRun
  <2>1. RunShape(x) /\ x.at = "none" /\ ReadRight(x)
    BY DEF RunShape, Shaped, NoRun, ReadRight
  <2>2. /\ runs' = [runs EXCEPT ![r] = x] /\ runs[r].at = "panel"
        /\ UNCHANGED <<funded, setUp, toolNet, surface>> /\ muddled' = (muddled \/ runs[r].stale)
        /\ button' = [button EXCEPT !.panel = runs[r].sets = "sidepanel"]
    BY <1>9 DEF RunSetsPanel
  <2>. HIDE DEF x
  <2>4. /\ Shaped(button, {"popup", "panel", "listening"})'
        /\ button'.listening = button.listening /\ button'.popup = button.popup
        /\ button'.panel = (runs[r].sets = "sidepanel")
    BY <1>0, <2>2 DEF Shaped
  <2>5. runs' = [q \in Runs |-> IF q = r THEN x ELSE runs[q]]
    BY <2>1, <2>2, RunGoes
  <2>6. Pending <=> Pending'
    BY <2>1, <2>2, <2>5 DEF Pending, Early
  <2>7. muddled' \in BOOLEAN
    BY <1>0, <2>2 DEF RunShape
  <2>8. ASSUME ~runs[r].stale, ButtonRight PROVE ButtonRight'
    <3>1. FreshAt({"pref", "popup"}) => FreshAt({"pref", "popup"})'
      BY <2>2, <2>5 DEF FreshAt
    <3>2. runs[r].sets = "sidepanel" <=> InThePanel
      BY <1>0, <2>2, <2>8 DEF ReadRight
    <3>3. button'.panel = InThePanel
      BY <2>4, <3>2 DEF InThePanel
    <3> QED BY <2>2, <2>4, <2>8, <3>1, <3>3 DEF ButtonRight, HasTheWallet, InThePanel
  <2>9. muddled' \/ Pending' \/ ButtonRight'
    BY <2>2, <2>6, <2>8 DEF ToolbarKept
  <2> QED BY <2>1, <2>2, <2>4, <2>7, <2>9, ReadRunGoes
<1>10. ASSUME RunFails(r) PROVE ToolbarKept'
  <2>1. RunShape(NoRun) /\ NoRun.at = "none" /\ ReadRight(NoRun)
    BY DEF RunShape, Shaped, NoRun, ReadRight
  <2>2. /\ runs' = [runs EXCEPT ![r] = NoRun] /\ runs[r].at \in {"popup", "panel"} /\ muddled' = TRUE
        /\ UNCHANGED <<funded, setUp, toolNet, surface, button>>
    BY <1>10 DEF RunFails
  <2> QED BY <1>0, <2>1, <2>2, ReadRunGoes
<1> QED BY <1>1, <1>3, <1>4, <1>5, <1>6, <1>7, <1>8, <1>9, <1>10

LEMMA ToolbarKeep == ToolbarKept /\ [ToolbarNext]_toolbarVars => ToolbarKept'
<1>. SUFFICES ASSUME ToolbarKept, [ToolbarNext]_toolbarVars PROVE ToolbarKept'
  OBVIOUS
<1>1. ASSUME WalletsMove \/ NetMoves \/ SurfaceMoves PROVE ToolbarKept'
  <2>1. FreeRuns # {} /\ runs' = Begun(Staled) /\ UNCHANGED <<button, muddled>>
    BY <1>1 DEF WalletsMove, NetMoves, SurfaceMoves, ToolMoves, Followed
  <2> QED BY <2>1, ChangeKeeps
<1>2. ASSUME WorkerRuns PROVE ToolbarKept'
  <2>1. FreeRuns # {} /\ runs' = Begun(runs) /\ UNCHANGED <<funded, toolNet, surface, button, muddled>>
    BY <1>2 DEF WorkerRuns, ToolMoves
  <2>2. /\ runs' = [q \in Runs |-> runs'[q]] /\ \A q \in Runs : RunShape(runs'[q])
        /\ \A q \in Runs : ReadRight(runs'[q])
        /\ \E c \in Runs : Early(runs'[c].at)
    BY <2>1, Begins DEF ToolbarKept
  <2>3. (\A q \in Runs : ReadRight(runs[q]))'
    BY <2>1, <2>2 DEF ReadRight, HasTheWallet, InThePanel
  <2>4. Shaped(button, {"popup", "panel", "listening"})' /\ muddled' \in BOOLEAN
    BY <2>1 DEF ToolbarKept
  <2> QED BY <2>2, <2>3, <2>4, Pends
<1>3. ASSUME Clicked \/ SetupTabShown \/ UNCHANGED toolbarVars PROVE ToolbarKept'
  <2>1. UNCHANGED <<funded, setUp, toolNet, surface, button, runs, muddled>>
    BY <1>3 DEF Clicked, SetupTabShown, toolbarVars
  <2> QED BY <2>1 DEF ToolbarKept, ReadRight, HasTheWallet, InThePanel, Pending, ButtonRight, FreshAt
<1>4. ASSUME ToolbarRestart PROVE ToolbarKept'
  <2>1. /\ runs' = [r \in Runs |-> IF r = 1 THEN NewRun("init") ELSE NewRun("none")]
        /\ 1 \in Runs /\ muddled' = TRUE
    BY <1>4, ToolbarAssumption DEF ToolbarRestart, NoRun, NewRun
  <2>2. \A r \in Runs : RunShape(runs'[r]) /\ runs'[r].at \in {"init", "none"}
    BY <2>1, NewRunShape
  <2>3. runs'[1].at = "init"
    BY <2>1, NewRunShape
  <2>4. Shaped(button, {"popup", "panel", "listening"})'
    BY <1>4 DEF ToolbarRestart, ToolbarKept, Shaped
  <2>5. (\A r \in Runs : ReadRight(runs[r]))'
    BY <2>2 DEF ReadRight
  <2> QED BY <2>1, <2>2, <2>3, <2>4, <2>5, Pends DEF Early
<1> QED BY <1>1, <1>2, <1>3, <1>4, RunKeeps DEF ToolbarNext

LEMMA ToolbarOnly == [UseNext]_useVars => [ToolbarNext]_toolbarVars
BY DEF UseNext, useVars, Using

\* Once the runs have ended the toolbar button does what wallets, network and choice
\* ask for, for any number of overlapping runs (actionBehavior.ts).
THEOREM ButtonIsRight == UseSpec => []ButtonOpensTheWallet
<1>1. UseInit => ToolbarKept
  BY ToolbarStart DEF UseInit
<1>2. ToolbarKept /\ [UseNext]_useVars => ToolbarKept'
  BY ToolbarOnly, ToolbarKeep
<1>3. ToolbarKept => ButtonOpensTheWallet
  BY ButtonOpens
<1> QED BY <1>1, <1>2, <1>3, PTL DEF UseSpec

-----------------------------------------------------------------------------
(* What a swap is built with. *)

\* A quote on screen: its minimum is at most what slippage leaves of its price.
GoodOffer(o) == o.pay # o.receive /\ o.min \in Nat /\ o.out \in Nat /\ o.min <= Slip(o.out)

\* A transaction: of its quote, with the quote's minimum, or that of the probe
\* when it is the lower one.
GoodSwapTx(tx) ==
    /\ GoodOffer(tx.offer) /\ tx.net = tx.offer.net /\ tx.route = tx.offer.route
    /\ {tx.simulated, tx.min} \subseteq Int
    /\ \/ tx.min = tx.offer.min
       \/ /\ tx.min = Slip(tx.simulated) /\ tx.simulated > 0
          /\ tx.offer.min = 0 \/ tx.offer.min >= tx.min

GoodSwap(p) == GoodSwapTx(p.tx) /\ p.paid \in Int /\ p.paid >= p.tx.min

\* The inductive invariant of the swap's transaction.
BuildsKept ==
    /\ market \in Int
    /\ offer # NoOffer => GoodOffer(offer)
    /\ swapTx # NoOffer => GoodSwapTx(swapTx)
    /\ swapPaid # NoOffer => GoodSwap(swapPaid)

\* What slippage leaves is an amount, and more of more.
LEMMA SlipGrows == /\ \A a \in Nat : Slip(a) \in Nat
                   /\ \A a \in Int : Slip(a) \in Int
                   /\ \A a, b \in Nat : a <= b => Slip(a) <= Slip(b)
<1>1. KeptOf4 \in {0, 1, 2, 3, 4}
  BY SwapBuildsAssumption
<1>2. CASE KeptOf4 = 0
  BY <1>2 DEF Slip
<1>3. CASE KeptOf4 = 1
  BY <1>3 DEF Slip
<1>4. CASE KeptOf4 = 2
  BY <1>4 DEF Slip
<1>5. CASE KeptOf4 = 3
  BY <1>5 DEF Slip
<1>6. CASE KeptOf4 = 4
  BY <1>6 DEF Slip
<1> QED BY <1>1, <1>2, <1>3, <1>4, <1>5, <1>6

LEMMA LesserIs == ASSUME NEW a \in Int, NEW b \in Int
                  PROVE  /\ LesserOf(a, b) \in {a, b}
                         /\ LesserOf(a, b) <= a /\ LesserOf(a, b) <= b
BY DEF LesserOf

\* What the invariant is for.
LEMMA SwapPays == BuildsKept => SwapPaysAsShown
<1>. SUFFICES ASSUME BuildsKept, swapPaid # NoOffer,
                     NEW tx, tx = swapPaid.tx, NEW quote, quote = tx.offer,
                     NEW paid, paid = swapPaid.paid
              PROVE  /\ quote.pay # quote.receive /\ tx.net = quote.net /\ tx.route = quote.route
                     /\ paid < quote.min => tx.simulated < quote.out
                     /\ paid >= LesserOf(quote.min, Slip(tx.simulated))
  BY DEF SwapPaysAsShown
<1>1. GoodSwapTx(tx) /\ paid \in Int /\ paid >= tx.min
  BY DEF BuildsKept, GoodSwap
<1>2. /\ GoodOffer(quote) /\ tx.net = quote.net /\ tx.route = quote.route
      /\ tx.simulated \in Int /\ tx.min \in Int
      /\ \/ tx.min = quote.min
         \/ /\ tx.min = Slip(tx.simulated) /\ tx.simulated > 0
            /\ quote.min = 0 \/ quote.min >= tx.min
  BY <1>1 DEF GoodSwapTx
<1>3. quote.pay # quote.receive /\ quote.min \in Nat /\ quote.out \in Nat
      /\ quote.min <= Slip(quote.out)
  BY <1>2 DEF GoodOffer
<1>4. ASSUME paid < quote.min PROVE tx.simulated < quote.out
  <2>1. tx.min = Slip(tx.simulated) /\ tx.simulated \in Nat
    BY <1>1, <1>2, <1>3, <1>4
  <2>2. Slip(tx.simulated) < Slip(quote.out) /\ Slip(tx.simulated) \in Nat /\ Slip(quote.out) \in Nat
    BY <1>1, <1>2, <1>3, <1>4, <2>1, SlipGrows
  <2>3. ~(quote.out <= tx.simulated)
    BY <1>3, <2>1, <2>2, SlipGrows
  <2> QED BY <1>3, <2>1, <2>3
<1>5. paid >= LesserOf(quote.min, Slip(tx.simulated))
  <2>1. Slip(tx.simulated) \in Int
    BY <1>2, SlipGrows
  <2>2. /\ LesserOf(quote.min, Slip(tx.simulated)) \in Int
        /\ LesserOf(quote.min, Slip(tx.simulated)) <= quote.min
        /\ LesserOf(quote.min, Slip(tx.simulated)) <= Slip(tx.simulated)
    BY <1>3, <2>1, LesserIs
  <2> QED BY <1>1, <1>2, <1>3, <2>1, <2>2
<1> QED BY <1>2, <1>3, <1>4, <1>5

LEMMA SwapBuildsStart == SwapBuildsInit => BuildsKept
BY SwapBuildsAssumption DEF SwapBuildsInit, BuildsKept

\* The minimum of a quote.
LEMMA QuoteIsGood ==
  ASSUME BuildsKept, NEW a \in AnswersOf(ProviderOf(quoting.net)), QuoteAnswered(a)
  PROVE  GoodOffer(offer')
<1>1. a.out \in Nat /\ a.least \in Nat
  BY SwapBuildsAssumption DEF AnswersOf, ChainAnswers, RouterAnswers, Outs
<1>. DEFINE least == LesserOf(Slip(a.out), a.least)
<1>2. least \in Nat /\ least <= Slip(a.out)
  BY <1>1, SlipGrows, LesserIs
<1>. HIDE DEF least
<1>3. /\ offer' = [pay |-> quoting.pay, receive |-> quoting.receive, net |-> quoting.net,
                   route |-> a.route, out |-> a.out, min |-> least]
      /\ quoting.pay # quoting.receive
  BY DEF QuoteAnswered, least
<1> QED BY <1>1, <1>2, <1>3 DEF GoodOffer

LEMMA TxIsGood ==
  ASSUME BuildsKept, NEW seedAccount \in BOOLEAN, PrepareSwap(seedAccount)
  PROVE  GoodSwapTx(swapTx')
<1>1. /\ GoodOffer(offer) /\ market \in Int
      /\ swapTx' = [offer |-> offer, net |-> swapNet, min |-> BuiltMin, simulated |-> market,
                    route |-> offer.route]
      /\ swapNet = offer.net /\ (offer.route # "chain" => market > 0)
  BY DEF PrepareSwap, Builds, BuildsKept
<1>2. offer.min \in Nat /\ Slip(market) \in Int
  BY <1>1, SlipGrows DEF GoodOffer
<1>3. /\ BuiltMin \in Int
      /\ \/ BuiltMin = offer.min
         \/ /\ BuiltMin = Slip(market) /\ market > 0
            /\ offer.min = 0 \/ offer.min >= BuiltMin
  BY <1>1, <1>2 DEF BuiltMin, FinalMin
<1> QED BY <1>1, <1>3 DEF GoodSwapTx

LEMMA SwapBuildsKeep == BuildsKept /\ [SwapBuildsNext]_swapBuildVars => BuildsKept'
<1>. SUFFICES ASSUME BuildsKept, [SwapBuildsNext]_swapBuildVars PROVE BuildsKept'
  OBVIOUS
<1>1. CASE UNCHANGED swapBuildVars
  BY <1>1 DEF swapBuildVars, BuildsKept
<1>2. CASE OpenSwap \/ LoadMenu \/ SetUpSwapRules
  BY <1>2 DEF OpenSwap, LoadMenu, SetUpSwapRules, BuildsKept
<1>3. CASE AskQuote \/ ReadRegistry \/ RegistryLoaded \/ QuoteFails
  BY <1>3 DEF AskQuote, ReadRegistry, RegistryLoaded, QuoteFails, QuoteKeeps, BuildsKept
<1>4. ASSUME NEW side \in 1..2, NEW t \in SwapTokens, PickToken(side, t) PROVE BuildsKept'
  BY <1>4 DEF PickToken, BuildsKept
<1>5. ASSUME NEW a \in AnswersOf(ProviderOf(quoting.net)), QuoteAnswered(a) PROVE BuildsKept'
  BY <1>5, QuoteIsGood DEF QuoteAnswered, QuoteKeeps, BuildsKept
<1>6. ASSUME NEW seedAccount \in BOOLEAN, PrepareSwap(seedAccount) PROVE BuildsKept'
  <2>1. GoodSwapTx(swapTx')
    BY <1>6, TxIsGood
  <2>2. UNCHANGED <<market, offer, swapPaid>>
    BY <1>6 DEF PrepareSwap
  <2> QED BY <2>1, <2>2 DEF BuildsKept
<1>7. CASE SwapRuns
  <2>1. GoodSwapTx(swapTx) /\ market \in Int /\ market >= swapTx.min
    BY <1>7 DEF SwapRuns, BuildsKept
  <2>2. swapPaid' = [tx |-> swapTx, paid |-> market] /\ UNCHANGED <<market, offer, swapTx>>
    BY <1>7 DEF SwapRuns
  <2> QED BY <2>1, <2>2 DEF BuildsKept, GoodSwap
<1>8. CASE SwitchesNetwork
  BY <1>8 DEF SwitchesNetwork, BuildsKept
<1>9. ASSUME NEW to \in Outs, PriceMoves(to) PROVE BuildsKept'
  BY <1>9, SwapBuildsAssumption DEF PriceMoves, BuildsKept, Outs
<1> QED BY <1>1, <1>2, <1>3, <1>4, <1>5, <1>6, <1>7, <1>8, <1>9 DEF SwapBuildsNext

LEMMA BuildsOnly == [UseNext]_useVars => [SwapBuildsNext]_swapBuildVars
BY DEF UseNext, useVars, Using

\* A swap is sent on the network and the route of its quote; it pays less than the
\* minimum shown only if its probe already did worse, and no less than slippage leaves of
\* that (soroswapBuild.ts).
THEOREM SwapsPay == UseSpec => []SwapPaysAsShown
<1>1. UseInit => BuildsKept
  BY SwapBuildsStart DEF UseInit
<1>2. BuildsKept /\ [UseNext]_useVars => BuildsKept'
  BY BuildsOnly, SwapBuildsKeep
<1>3. BuildsKept => SwapPaysAsShown
  BY SwapPays
<1> QED BY <1>1, <1>2, <1>3, PTL DEF UseSpec

-----------------------------------------------------------------------------
(* Sequences of anything. *)

IsSeq(s) == \E S : s \in Seq(S)

LEMMA Appends ==
  ASSUME NEW s, IsSeq(s), NEW e, NEW t, t = Append(s, e)
  PROVE  /\ IsSeq(t) /\ Len(s) \in Nat /\ DOMAIN s = 1..Len(s) /\ DOMAIN t = 1..(Len(s) + 1)
         /\ t[Len(s) + 1] = e /\ \A i \in DOMAIN s : t[i] = s[i]
<1>1. PICK S : s \in Seq(S)
  BY DEF IsSeq
<1>2. s \in Seq(S \cup {e}) /\ Len(s) \in Nat /\ DOMAIN s = 1..Len(s)
  BY <1>1, SeqMonotonic, LenProperties
<1>3. t \in Seq(S \cup {e}) /\ Len(t) = Len(s) + 1 /\ t[Len(s) + 1] = e
      /\ \A i \in 1..Len(s) : t[i] = s[i]
  BY <1>2
<1>4. DOMAIN t = 1..(Len(s) + 1)
  BY <1>3, LenProperties
<1> QED BY <1>2, <1>3, <1>4 DEF IsSeq

LEMMA Replaces ==
  ASSUME NEW s, IsSeq(s), NEW i \in DOMAIN s, NEW e, NEW t, t = [s EXCEPT ![i] = e]
  PROVE  /\ IsSeq(t) /\ DOMAIN t = DOMAIN s
         /\ \A j \in DOMAIN s : t[j] = IF j = i THEN e ELSE s[j]
<1>1. PICK S : s \in Seq(S)
  BY DEF IsSeq
<1>2. s \in Seq(S \cup {e}) /\ i \in 1..Len(s)
  BY <1>1, SeqMonotonic, LenProperties
<1>3. t \in Seq(S \cup {e})
  BY <1>2, ExceptSeq
<1> QED BY <1>3 DEF IsSeq

-----------------------------------------------------------------------------
(* The page websites open for a signature. *)

LoadFields == {"at", "q", "asked", "account", "row", "job", "signNet", "rejecting", "got", "told"}
PageRowFields == {"net", "wallet", "callback", "submit", "blocked", "status", "result"}
Unshown == {"unopened", "listing", "preparing", "asking"}

\* The signature of an opening of the page, of the row it shows, and what a
\* result may say of it.
MadeBy(x, l, rows, made, result) ==
    \E s \in made : /\ s.load = l /\ s.row = x.row /\ s.wallet = rows[x.row].wallet
                    /\ s.id = <<x.row, l>> /\ result \in {s.id, NoResult}

\* A page, among the rows and the signatures that were made.
KeptLoad(x, l, rows, made) ==
    /\ Shaped(x, LoadFields) /\ Shaped(x.asked, {"net", "wallet", "callback", "submit"})
    /\ x.asked.callback = x.q.callback
    /\ x.told.status # "none" => x.told.to = x.q.callback
    /\ x.at \in Unshown => x.job = "none" /\ x.told.status = "none" /\ ~x.rejecting
    /\ x.at = "review" \/ x.rejecting \/ x.job # "none" \/ x.told.status \in {"signed", "rejected"} =>
          x.row \in DOMAIN rows
    /\ x.job # "none" => ~rows[x.row].blocked
    /\ x.job = "approving" => MadeBy(x, l, rows, made, x.got)
    /\ x.told.status = "signed" => /\ MadeBy(x, l, rows, made, x.told.result)
                                   /\ MadeBy(x, l, rows, made, x.told.fragment)
    /\ x.at = "review" /\ x.job = "none" => rows[x.row].result # <<x.row, l>>
    /\ x.rejecting \/ x.told.status = "rejected" =>
          rows[x.row].status \notin LiveStatuses /\ rows[x.row].result # <<x.row, l>>

\* The rows, and what became of the signatures.
GoodRows(rows) == IsSeq(rows) /\ \A r \in DOMAIN rows : Shaped(rows[r], PageRowFields)
MadeKept(rows, made) ==
    \A s \in made : /\ s.row \in DOMAIN rows
                    /\ rows[s.row].submit = s.submitted /\ ~rows[s.row].blocked
ApprovedKept(rows, made) ==
    \A r \in DOMAIN rows : rows[r].status = "approved" =>
       \E s \in made : s.row = r /\ rows[r].result \in {s.id, NoResult}
PopupKept(at, rows) == at.row # NoRow => at.row \in DOMAIN rows /\ ~rows[at.row].blocked

\* The inductive invariant of the page.
PagesKept ==
    /\ loads = [l \in PageLoads |-> loads[l]]
    /\ GoodRows(pageRows) /\ \A l \in PageLoads : KeptLoad(loads[l], l, pageRows, pageMade)
    /\ MadeKept(pageRows, pageMade) /\ ApprovedKept(pageRows, pageMade)
    /\ PopupKept(popupAt, pageRows)

\* What the invariant is for.
LEMMA CallbackTrue == PagesKept => CallbackIsTrue
<1>. SUFFICES ASSUME PagesKept PROVE CallbackIsTrue
  OBVIOUS
<1>1. ASSUME NEW l \in PageLoads
      PROVE  LET load == loads[l]
                 told == load.told
             IN /\ told.status # "none" => told.to = load.q.callback
                /\ told.status = "signed" =>
                      \E s \in pageMade :
                         /\ s.load = l /\ s.row = load.row
                         /\ s.wallet = pageRows[load.row].wallet
                         /\ {told.result, told.fragment} \subseteq {s.id, NoResult}
                /\ told.status = "rejected" => pageRows[load.row].result # <<load.row, l>>
  <2>. DEFINE x == loads[l]
  <2>1. KeptLoad(x, l, pageRows, pageMade)
    BY DEF PagesKept
  <2>. HIDE DEF x
  <2>2. /\ x.told.status # "none" => x.told.to = x.q.callback
        /\ x.told.status = "rejected" => pageRows[x.row].result # <<x.row, l>>
    BY <2>1 DEF KeptLoad
  <2>3. ASSUME x.told.status = "signed"
        PROVE  \E s \in pageMade :
                  /\ s.load = l /\ s.row = x.row /\ s.wallet = pageRows[x.row].wallet
                  /\ {x.told.result, x.told.fragment} \subseteq {s.id, NoResult}
    BY <2>1, <2>3 DEF KeptLoad, MadeBy
  <2> QED BY <2>2, <2>3 DEF x
<1> QED BY <1>1 DEF CallbackIsTrue, PagesKept, MadeKept, ApprovedKept

LEMMA PagesStart == SignPageInit => PagesKept
<1>. SUFFICES ASSUME SignPageInit PROVE PagesKept
  OBVIOUS
<1>1. pageRows = << >> /\ pageMade = {} /\ popupAt.row = NoRow /\ loads = [l \in PageLoads |-> Unopened]
  BY DEF SignPageInit
<1>2. GoodRows(pageRows)
  BY <1>1, EmptySeq DEF GoodRows, IsSeq
<1>3. \A l \in PageLoads : KeptLoad(Unopened, l, pageRows, pageMade)
  BY DEF KeptLoad, Unopened, Shaped, LoadFields, Unshown, NotTold
<1> QED BY <1>1, <1>2, <1>3 DEF PagesKept, MadeKept, ApprovedKept, PopupKept

-----------------------------------------------------------------------------
\* Rows that are decided, or joined by another.
Follow(rows, to) ==
    \A r \in DOMAIN rows :
       /\ r \in DOMAIN to
       /\ to[r].wallet = rows[r].wallet /\ to[r].submit = rows[r].submit
       /\ to[r].blocked = rows[r].blocked
       /\ rows[r].status \notin LiveStatuses => to[r] = rows[r]
Foreign(l, rows, to) ==
    \A r \in DOMAIN rows : to[r].result = rows[r].result \/ to[r].result # <<r, l>>

LEMMA MadeStays ==
  ASSUME NEW rows, NEW to, Follow(rows, to), NEW made, NEW more, made \subseteq more,
         NEW x, x.row \in DOMAIN rows, NEW l, NEW result, MadeBy(x, l, rows, made, result)
  PROVE  MadeBy(x, l, to, more, result)
BY DEF MadeBy, Follow

LEMMA LoadFollows ==
  ASSUME NEW rows, NEW to, Follow(rows, to), NEW made, NEW more, made \subseteq more,
         NEW x, NEW l, KeptLoad(x, l, rows, made), Foreign(l, rows, to)
  PROVE  KeptLoad(x, l, to, more)
<1>1. x.told.status = "signed" => /\ MadeBy(x, l, to, more, x.told.result)
                                  /\ MadeBy(x, l, to, more, x.told.fragment)
  BY MadeStays DEF KeptLoad
<1>2. x.job = "approving" => MadeBy(x, l, to, more, x.got)
  BY MadeStays DEF KeptLoad
<1>3. x.job # "none" => ~to[x.row].blocked
  BY DEF KeptLoad, Follow
<1>4. x.at = "review" \/ x.rejecting \/ x.job # "none" \/ x.told.status \in {"signed", "rejected"} =>
          x.row \in DOMAIN to
  BY DEF KeptLoad, Follow
<1>5. x.at = "review" /\ x.job = "none" => to[x.row].result # <<x.row, l>>
  BY DEF KeptLoad, Foreign
<1>6. x.rejecting \/ x.told.status = "rejected" =>
          to[x.row].status \notin LiveStatuses /\ to[x.row].result # <<x.row, l>>
  BY DEF KeptLoad, Follow
<1> QED BY <1>1, <1>2, <1>3, <1>4, <1>5, <1>6 DEF KeptLoad

LEMMA Undecided == \A rows : Follow(rows, rows) /\ \A l : Foreign(l, rows, rows)
BY DEF Follow, Foreign

LEMMA MadeFollows ==
  ASSUME NEW rows, NEW to, Follow(rows, to), NEW made, MadeKept(rows, made) PROVE MadeKept(to, made)
BY DEF MadeKept, Follow

LEMMA PopupFollows ==
  ASSUME NEW rows, NEW to, Follow(rows, to), NEW at, PopupKept(at, rows) PROVE PopupKept(at, to)
BY DEF PopupKept, Follow

\* A decision of one row.
LEMMA DecidedIs ==
  ASSUME NEW row, Shaped(row, PageRowFields), NEW status, NEW result,
         NEW d, d = Decided(row, status, result)
  PROVE  /\ Shaped(d, PageRowFields)
         /\ d.wallet = row.wallet /\ d.submit = row.submit /\ d.blocked = row.blocked
         /\ row.status \notin LiveStatuses => d = row
         /\ row.status \in LiveStatuses => d.status = status /\ d.result = result
BY DEF Decided, Shaped, PageRowFields

Decides(rows, to, r, status, result) ==
    r \in DOMAIN rows /\ to = [rows EXCEPT ![r] = Decided(rows[r], status, result)]

LEMMA RowDecided ==
  ASSUME NEW rows, GoodRows(rows), NEW r, NEW status, NEW result, NEW to,
         Decides(rows, to, r, status, result)
  PROVE  /\ GoodRows(to) /\ Follow(rows, to) /\ DOMAIN to = DOMAIN rows
         /\ \A l : result # <<r, l>> => Foreign(l, rows, to)
         /\ \A q \in DOMAIN rows : \/ to[q] = rows[q]
                                   \/ q = r /\ to[q].status = status /\ to[q].result = result
         /\ status \notin LiveStatuses => to[r].status \notin LiveStatuses
<1>. PICK d : d = Decided(rows[r], status, result)
  OBVIOUS
<1>2. r \in DOMAIN rows /\ to = [rows EXCEPT ![r] = d]
  BY DEF Decides
<1>1. /\ Shaped(d, PageRowFields)
      /\ d.wallet = rows[r].wallet /\ d.submit = rows[r].submit /\ d.blocked = rows[r].blocked
      /\ rows[r].status \notin LiveStatuses => d = rows[r]
      /\ rows[r].status \in LiveStatuses => d.status = status /\ d.result = result
  BY <1>2, DecidedIs DEF GoodRows
<1>3. /\ IsSeq(to) /\ DOMAIN to = DOMAIN rows
      /\ \A j \in DOMAIN rows : to[j] = IF j = r THEN d ELSE rows[j]
  BY <1>2, Replaces DEF GoodRows
<1>4. GoodRows(to)
  BY <1>1, <1>3 DEF GoodRows
<1>5. Follow(rows, to)
  BY <1>1, <1>3 DEF Follow
<1>6. \A l : result # <<r, l>> => Foreign(l, rows, to)
  BY <1>1, <1>3 DEF Foreign
<1> QED BY <1>1, <1>2, <1>3, <1>4, <1>5, <1>6

\* No row is approved by a decision that is no approval.
LEMMA NotApproved ==
  ASSUME NEW rows, NEW to, DOMAIN to = DOMAIN rows, NEW made, NEW more, made \subseteq more,
         ApprovedKept(rows, made),
         \A q \in DOMAIN rows : to[q] = rows[q] \/ to[q].status # "approved"
  PROVE  ApprovedKept(to, more)
BY DEF ApprovedKept

-----------------------------------------------------------------------------
\* A step of one page.
LEMMA LoadStep ==
  ASSUME PagesKept, NEW l \in PageLoads, NEW x, loads' = [loads EXCEPT ![l] = x],
         KeptLoad(x, l, pageRows', pageMade'),
         Follow(pageRows, pageRows'), \A m \in PageLoads \ {l} : Foreign(m, pageRows, pageRows'),
         pageMade \subseteq pageMade', GoodRows(pageRows'), MadeKept(pageRows', pageMade'),
         ApprovedKept(pageRows', pageMade'), UNCHANGED popupAt
  PROVE  PagesKept'
<1>1. loads' = [m \in PageLoads |-> IF m = l THEN x ELSE loads[m]]
  BY DEF PagesKept
<1>2. \A m \in PageLoads \ {l} : KeptLoad(loads[m], m, pageRows', pageMade')
  BY LoadFollows DEF PagesKept
<1>3. \A m \in PageLoads : KeptLoad(loads'[m], m, pageRows', pageMade')
  BY <1>1, <1>2
<1>4. PopupKept(popupAt', pageRows')
  BY PopupFollows DEF PagesKept
<1>5. loads' = [m \in PageLoads |-> loads'[m]]
  BY <1>1
<1> QED BY <1>3, <1>4, <1>5 DEF PagesKept

\* One that leaves the rows and the signatures alone.
LEMMA LoadOnly ==
  ASSUME PagesKept, NEW l \in PageLoads, NEW x, loads' = [loads EXCEPT ![l] = x],
         KeptLoad(x, l, pageRows, pageMade), UNCHANGED <<pageRows, pageMade, popupAt>>
  PROVE  PagesKept'
<1>1. Follow(pageRows, pageRows') /\ \A m \in PageLoads : Foreign(m, pageRows, pageRows')
  BY Undecided
<1>2. /\ KeptLoad(x, l, pageRows', pageMade') /\ GoodRows(pageRows')
      /\ MadeKept(pageRows', pageMade') /\ ApprovedKept(pageRows', pageMade')
      /\ pageMade \subseteq pageMade'
  BY DEF PagesKept
<1> QED BY <1>1, <1>2, LoadStep

\* A step of the rows.
LEMMA RowStep ==
  ASSUME PagesKept, UNCHANGED loads, GoodRows(pageRows'), Follow(pageRows, pageRows'),
         \A m \in PageLoads : Foreign(m, pageRows, pageRows'), pageMade \subseteq pageMade',
         MadeKept(pageRows', pageMade'), ApprovedKept(pageRows', pageMade'),
         PopupKept(popupAt', pageRows')
  PROVE  PagesKept'
<1>1. \A m \in PageLoads : KeptLoad(loads[m], m, pageRows', pageMade')
  BY LoadFollows DEF PagesKept
<1> QED BY <1>1 DEF PagesKept

-----------------------------------------------------------------------------
\* The steps of a page.

LEMMA OpensKeep == ASSUME PagesKept, NEW l \in PageLoads, NEW q \in Queries, OpenSignRequest(l, q)
                   PROVE  PagesKept'
<1>. DEFINE x == [loads[l] EXCEPT !.at = IF Parses(q) THEN "listing" ELSE "error",
                                  !.q = q, !.asked = Parsed(q)]
<1>1. KeptLoad(loads[l], l, pageRows, pageMade) /\ loads[l].at = "unopened"
      /\ Shaped(Parsed(q), {"net", "wallet", "callback", "submit"}) /\ Parsed(q).callback = q.callback
  BY DEF PagesKept, OpenSignRequest, Parsed, Shaped
<1>2. /\ Shaped(x, LoadFields) /\ x.at \in {"listing", "error"} /\ x.q = q /\ x.asked = Parsed(q)
      /\ x.job = loads[l].job /\ x.told = loads[l].told /\ x.rejecting = loads[l].rejecting
      /\ x.row = loads[l].row
  BY <1>1 DEF KeptLoad, Shaped, LoadFields
<1>3. loads' = [loads EXCEPT ![l] = x] /\ UNCHANGED <<pageRows, pageMade, popupAt>>
  BY DEF OpenSignRequest
<1>. HIDE DEF x
<1>4. KeptLoad(x, l, pageRows, pageMade)
  BY <1>1, <1>2 DEF KeptLoad, Unshown
<1> QED BY <1>3, <1>4, LoadOnly

\* A page that goes to its website.
LEMMA RedirectsIs ==
  ASSUME NEW x, Shaped(x, LoadFields), Shaped(x.asked, {"net", "wallet", "callback", "submit"}),
         NEW status, NEW result, NEW byPage,
         NEW y, y = Redirects(x, status, result, byPage)
  PROVE  /\ Shaped(y, LoadFields) /\ y.at = "redirecting" /\ y.q = x.q /\ y.asked = x.asked
         /\ y.job = x.job /\ y.row = x.row /\ y.rejecting = x.rejecting /\ y.got = x.got
         /\ y.told.status = status /\ y.told.to = x.asked.callback
         /\ {y.told.result, y.told.fragment} \subseteq {result, NoResult}
BY DEF Redirects, Told, Shaped, LoadFields

LEMMA LoadingKeeps ==
  ASSUME PagesKept, NEW l \in PageLoads, ListAccounts(l) \/ LoadFails(l)
  PROVE  PagesKept'
<1>1. KeptLoad(loads[l], l, pageRows, pageMade) /\ loads[l].at \in {"listing", "preparing", "asking"}
  BY DEF PagesKept, ListAccounts, LoadFails
<1>2. CASE ListAccounts(l)
  <2>. DEFINE x == [loads[l] EXCEPT !.at = "preparing", !.account = pageHere.wallet]
  <2>1. /\ Shaped(x, LoadFields) /\ x.at = "preparing" /\ x.q = loads[l].q
        /\ x.asked = loads[l].asked /\ x.job = loads[l].job /\ x.told = loads[l].told
        /\ x.rejecting = loads[l].rejecting /\ x.row = loads[l].row
    BY <1>1 DEF KeptLoad, Shaped, LoadFields
  <2>2. loads' = [loads EXCEPT ![l] = x] /\ UNCHANGED <<pageRows, pageMade, popupAt>>
    BY <1>2 DEF ListAccounts, PagesKept
  <2>. HIDE DEF x
  <2>3. KeptLoad(x, l, pageRows, pageMade)
    BY <1>1, <2>1 DEF KeptLoad, Unshown
  <2> QED BY <2>2, <2>3, LoadOnly
<1>3. CASE LoadFails(l)
  <2>. DEFINE x == [loads[l] EXCEPT !.at = "error"]
  <2>1. /\ Shaped(x, LoadFields) /\ x.at = "error" /\ x.q = loads[l].q
        /\ x.asked = loads[l].asked /\ x.job = loads[l].job /\ x.told = loads[l].told
        /\ x.rejecting = loads[l].rejecting /\ x.row = loads[l].row
    BY <1>1 DEF KeptLoad, Shaped, LoadFields
  <2>2. loads' = [loads EXCEPT ![l] = x] /\ UNCHANGED <<pageRows, pageMade, popupAt>>
    BY <1>3 DEF LoadFails
  <2>. HIDE DEF x
  <2>3. KeptLoad(x, l, pageRows, pageMade)
    BY <1>1, <2>1 DEF KeptLoad, Unshown
  <2> QED BY <2>2, <2>3, LoadOnly
<1> QED BY <1>2, <1>3

\* What a failed preparation tells the website.
LEMMA FailedIsKept ==
  ASSUME NEW x, NEW l, NEW rows, NEW made, KeptLoad(x, l, rows, made), x.at \in Unshown,
         NEW y, y = PrepareFailed(x)
  PROVE  KeptLoad(y, l, rows, made)
<1>1. /\ Shaped(y, LoadFields) /\ y.at = "redirecting" /\ y.q = x.q /\ y.asked = x.asked
      /\ y.job = x.job /\ y.row = x.row /\ y.rejecting = x.rejecting
      /\ y.told.status = "error" /\ y.told.to = x.asked.callback
  <2>. PICK no \in BOOLEAN : no = FALSE
    OBVIOUS
  <2>1. y = Redirects(x, "error", NoResult, no)
    BY DEF PrepareFailed
  <2>2. Shaped(x, LoadFields) /\ Shaped(x.asked, {"net", "wallet", "callback", "submit"})
    BY DEF KeptLoad
  <2> QED BY <2>1, <2>2, RedirectsIs
<1> QED BY <1>1 DEF KeptLoad, Unshown

LEMMA PreparingKeeps == ASSUME PagesKept, NEW l \in PageLoads, StartPreparing(l) PROVE PagesKept'
<1>1. KeptLoad(loads[l], l, pageRows, pageMade) /\ loads[l].at = "preparing"
  BY DEF PagesKept, StartPreparing
<1>2. PICK s \in Stashes :
        LET query == IF loads[l].q.tx = "ref" THEN Resolved(loads[l].q, s) ELSE Parsed(loads[l].q)
            fits == /\ loads[l].q.tx = "ref" => Agrees(loads[l].q, s)
                    /\ query.wallet = pageHere.wallet
        IN loads' = [loads EXCEPT ![l] =
                        IF fits THEN [loads[l] EXCEPT !.at = "asking", !.asked = query]
                        ELSE PrepareFailed(loads[l])]
  BY DEF StartPreparing
<1>. DEFINE query == IF loads[l].q.tx = "ref" THEN Resolved(loads[l].q, s) ELSE Parsed(loads[l].q)
            fits == /\ loads[l].q.tx = "ref" => Agrees(loads[l].q, s)
                    /\ query.wallet = pageHere.wallet
<1>3. UNCHANGED <<pageRows, pageMade, popupAt>>
  BY DEF StartPreparing
<1>4. CASE fits
  <2>. DEFINE x == [loads[l] EXCEPT !.at = "asking", !.asked = query]
  <2>1. Shaped(query, {"net", "wallet", "callback", "submit"}) /\ query.callback = loads[l].q.callback
    BY <1>4 DEF Resolved, Parsed, Agrees, Shaped
  <2>2. loads' = [loads EXCEPT ![l] = x]
    BY <1>2, <1>4
  <2>. HIDE DEF query
  <2>3. /\ Shaped(x, LoadFields) /\ x.at = "asking" /\ x.q = loads[l].q
        /\ x.asked = query /\ x.job = loads[l].job /\ x.told = loads[l].told
        /\ x.rejecting = loads[l].rejecting /\ x.row = loads[l].row
    BY <1>1 DEF KeptLoad, Shaped, LoadFields
  <2>. HIDE DEF x
  <2>4. KeptLoad(x, l, pageRows, pageMade)
    BY <1>1, <2>1, <2>3 DEF KeptLoad, Unshown
  <2> QED BY <1>3, <2>2, <2>4, LoadOnly
<1>5. CASE ~fits
  <2>. DEFINE x == PrepareFailed(loads[l])
  <2>1. KeptLoad(x, l, pageRows, pageMade)
    BY <1>1, FailedIsKept DEF Unshown
  <2>2. loads' = [loads EXCEPT ![l] = x]
    BY <1>2, <1>5
  <2>. HIDE DEF x
  <2> QED BY <1>3, <2>1, <2>2, LoadOnly
<1> QED BY <1>4, <1>5

LEMMA NoPair == \A a, b : NoResult # <<a, b>>
<1>. SUFFICES ASSUME NEW a, NEW b, NoResult = <<a, b>> PROVE FALSE
  OBVIOUS
<1>1. Len(NoResult) = 0 /\ Len(<<a, b>>) = 2
  BY DEF NoResult
<1> QED BY <1>1

\* The row of a page, when the backend has answered.
LEMMA PreparedKeeps == ASSUME PagesKept, NEW l \in PageLoads, PrepareEnds(l) PROVE PagesKept'
<1>1. /\ KeptLoad(loads[l], l, pageRows, pageMade) /\ loads[l].at = "asking"
      /\ UNCHANGED <<pageMade, popupAt>>
  BY DEF PagesKept, PrepareEnds
<1>2. ASSUME NEW blocked \in BOOLEAN,
             pageRows' = Append(pageRows, NewPageRow(loads[l].asked, blocked)),
             NEW x, loads' = [loads EXCEPT ![l] = x],
             \/ x = [loads[l] EXCEPT !.at = "review", !.row = Len(pageRows) + 1]
             \/ x = [loads[l] EXCEPT !.at = "error"]
      PROVE  PagesKept'
  <2>. DEFINE n == Len(pageRows) + 1
  <2>. PICK e : e = NewPageRow(loads[l].asked, blocked)
    OBVIOUS
  <2>1. e.status = "awaiting_user" /\ e.result = NoResult /\ Shaped(e, PageRowFields)
    BY DEF NewPageRow, Shaped, PageRowFields
  <2>2. /\ IsSeq(pageRows') /\ Len(pageRows) \in Nat /\ DOMAIN pageRows = 1..Len(pageRows)
        /\ DOMAIN pageRows' = 1..n /\ pageRows'[n] = e
        /\ \A i \in DOMAIN pageRows : pageRows'[i] = pageRows[i]
    <3>1. pageRows' = Append(pageRows, e) /\ IsSeq(pageRows)
      BY <1>2 DEF PagesKept, GoodRows
    <3>2. PICK rows, to : rows = pageRows /\ to = pageRows'
      OBVIOUS
    <3>. IsSeq(rows) /\ to = Append(rows, e)
      BY <3>1, <3>2
    <3>3. IsSeq(to) /\ Len(rows) \in Nat
      BY Appends
    <3>4. DOMAIN rows = 1..Len(rows) /\ DOMAIN to = 1..(Len(rows) + 1)
      BY Appends
    <3>5. to[Len(rows) + 1] = e
      BY Appends
    <3>6. \A i \in DOMAIN rows : to[i] = rows[i]
      BY Appends
    <3> QED BY <3>2, <3>3, <3>4, <3>5, <3>6
  <2>3. /\ GoodRows(pageRows') /\ Follow(pageRows, pageRows')
        /\ \A m \in PageLoads : Foreign(m, pageRows, pageRows')
    BY <2>1, <2>2 DEF PagesKept, GoodRows, Follow, Foreign
  <2>4. MadeKept(pageRows', pageMade')
    BY <1>1, <2>3, MadeFollows DEF PagesKept
  <2>5. ApprovedKept(pageRows', pageMade')
    BY <1>1, <2>1, <2>2 DEF PagesKept, ApprovedKept
  <2>6. /\ Shaped(x, LoadFields) /\ x.q = loads[l].q
        /\ x.asked = loads[l].asked /\ x.job = loads[l].job /\ x.told = loads[l].told
        /\ x.rejecting = loads[l].rejecting
        /\ \/ x.at = "review" /\ x.row = n
           \/ x.at = "error" /\ x.row = loads[l].row
    BY <1>1, <1>2 DEF KeptLoad, Shaped, LoadFields
  <2>7. n \in DOMAIN pageRows' /\ pageRows'[n].result # <<n, l>>
    <3>1. n \in 1..n
      BY <2>2
    <3>2. pageRows'[n].result = NoResult
      BY <2>1, <2>2
    <3>. HIDE DEF n
    <3> QED BY <2>2, <3>1, <3>2, NoPair
  <2>. HIDE DEF n
  <2>8. KeptLoad(x, l, pageRows', pageMade')
    BY <1>1, <2>6, <2>7 DEF KeptLoad, Unshown
  <2> QED BY <1>1, <1>2, <2>3, <2>4, <2>5, <2>8, LoadStep
<1>3. ASSUME UNCHANGED pageRows, loads' = [loads EXCEPT ![l] = PrepareFailed(@)] PROVE PagesKept'
  <2>. DEFINE x == PrepareFailed(loads[l])
  <2>1. KeptLoad(x, l, pageRows, pageMade)
    BY <1>1, FailedIsKept DEF Unshown
  <2>2. loads' = [loads EXCEPT ![l] = x]
    BY <1>3
  <2>. HIDE DEF x
  <2> QED BY <1>1, <1>3, <2>1, <2>2, LoadOnly
<1>4. CASE UNCHANGED pageRows /\ loads' = [loads EXCEPT ![l] = PrepareFailed(@)]
  BY <1>3, <1>4
<1>5. CASE \E blocked \in BOOLEAN : pageRows' = Append(pageRows, NewPageRow(loads[l].asked, blocked))
  <2>1. \/ loads' = [loads EXCEPT ![l].at = "review", ![l].row = Len(pageRows) + 1]
        \/ loads' = [loads EXCEPT ![l].at = "error"]
        \/ UNCHANGED pageRows /\ loads' = [loads EXCEPT ![l] = PrepareFailed(@)]
    BY DEF PrepareEnds
  <2>2. [loads EXCEPT ![l].at = "review", ![l].row = Len(pageRows) + 1]
          = [loads EXCEPT ![l] = [loads[l] EXCEPT !.at = "review", !.row = Len(pageRows) + 1]]
    BY DEF PagesKept
  <2>3. PICK blocked \in BOOLEAN : pageRows' = Append(pageRows, NewPageRow(loads[l].asked, blocked))
    BY <1>5
  <2>4. CASE loads' = [loads EXCEPT ![l].at = "review", ![l].row = Len(pageRows) + 1]
    <3>1. PICK x : x = [loads[l] EXCEPT !.at = "review", !.row = Len(pageRows) + 1]
      OBVIOUS
    <3> QED BY <1>2, <2>2, <2>3, <2>4, <3>1
  <2>5. CASE loads' = [loads EXCEPT ![l].at = "error"]
    <3>1. PICK x : x = [loads[l] EXCEPT !.at = "error"]
      OBVIOUS
    <3> QED BY <1>2, <2>3, <2>5, <3>1
  <2> QED BY <1>4, <2>1, <2>4, <2>5
<1> QED BY <1>4, <1>5 DEF PrepareEnds

\* A page whose signing goes on.
LEMMA JobGoes ==
  ASSUME NEW x, NEW l, NEW rows, NEW made, KeptLoad(x, l, rows, made),
         x.at \notin Unshown, x.row \in DOMAIN rows, ~rows[x.row].blocked,
         NEW y, Shaped(y, LoadFields), y.at = x.at, y.q = x.q, y.asked = x.asked, y.row = x.row,
         y.rejecting = x.rejecting, y.told = x.told, y.job # "none",
         y.job = "approving" => MadeBy(x, l, rows, made, y.got)
  PROVE  KeptLoad(y, l, rows, made)
BY DEF KeptLoad, MadeBy

LEMMA ConfirmedKeeps == ASSUME PagesKept, NEW l \in PageLoads, PressConfirm(l) PROVE PagesKept'
<1>1. /\ KeptLoad(loads[l], l, pageRows, pageMade) /\ loads[l].at = "review"
      /\ ~pageRows[loads[l].row].blocked /\ UNCHANGED <<pageRows, pageMade, popupAt>>
  BY DEF PagesKept, PressConfirm, Confirmable
<1>. DEFINE x == [loads[l] EXCEPT !.signNet = pageHere.net,
                     !.job = IF loads[l].account \in SeedPages THEN "signing" ELSE "submitting"]
<1>2. loads' = [loads EXCEPT ![l] = x]
  BY DEF PressConfirm, PagesKept
<1>3. /\ Shaped(x, LoadFields) /\ x.at = loads[l].at /\ x.q = loads[l].q /\ x.asked = loads[l].asked
      /\ x.row = loads[l].row /\ x.rejecting = loads[l].rejecting /\ x.told = loads[l].told
      /\ x.job \in {"signing", "submitting"}
  BY <1>1 DEF KeptLoad, Shaped, LoadFields
<1>. HIDE DEF x
<1>4. KeptLoad(x, l, pageRows, pageMade)
  BY <1>1, <1>3, JobGoes DEF KeptLoad, Unshown
<1> QED BY <1>1, <1>2, <1>4, LoadOnly

LEMMA SignedKeeps == ASSUME PagesKept, NEW l \in PageLoads, SignEnds(l) PROVE PagesKept'
<1>1. /\ KeptLoad(loads[l], l, pageRows, pageMade) /\ loads[l].job = "signing"
      /\ UNCHANGED <<pageRows, pageMade, popupAt>>
  BY DEF PagesKept, SignEnds
<1>2. PICK job : /\ job \in {"dropped", "submitting", "failing"}
                 /\ loads' = [loads EXCEPT ![l].job = job]
  BY DEF SignEnds
<1>. DEFINE x == [loads[l] EXCEPT !.job = job]
<1>3. loads' = [loads EXCEPT ![l] = x]
  BY <1>2
<1>4. /\ Shaped(x, LoadFields) /\ x.at = loads[l].at /\ x.q = loads[l].q /\ x.asked = loads[l].asked
      /\ x.row = loads[l].row /\ x.rejecting = loads[l].rejecting /\ x.told = loads[l].told
      /\ x.job = job
  BY <1>1 DEF KeptLoad, Shaped, LoadFields
<1>. HIDE DEF x
<1>5. KeptLoad(x, l, pageRows, pageMade)
  <2>1. /\ loads[l].at \notin Unshown /\ loads[l].row \in DOMAIN pageRows
        /\ ~pageRows[loads[l].row].blocked
    BY <1>1 DEF KeptLoad
  <2>2. x.job \notin {"none", "approving"}
    BY <1>2, <1>4
  <2> QED BY <1>1, <1>4, <2>1, <2>2, JobGoes
<1> QED BY <1>1, <1>3, <1>5, LoadOnly

\* What was signed is of the row the page shows.
LEMMA SubmittedKeeps == ASSUME PagesKept, NEW l \in PageLoads, SubmitEnds(l) PROVE PagesKept'
<1>1. /\ KeptLoad(loads[l], l, pageRows, pageMade) /\ loads[l].job = "submitting"
      /\ UNCHANGED <<pageRows, popupAt>>
  BY DEF PagesKept, SubmitEnds
<1>2. /\ loads[l].row \in DOMAIN pageRows /\ ~pageRows[loads[l].row].blocked
      /\ loads[l].at \notin Unshown
  BY <1>1 DEF KeptLoad
<1>. PICK made : made = [row |-> loads[l].row, load |-> l, wallet |-> loads[l].account,
                         id |-> <<loads[l].row, l>>, submitted |-> pageRows[loads[l].row].submit]
  OBVIOUS
<1>3. /\ made.row = loads[l].row /\ made.load = l /\ made.wallet = loads[l].account
      /\ made.id = <<loads[l].row, l>> /\ made.submitted = pageRows[loads[l].row].submit
  OBVIOUS
<1>4. \/ /\ loads[l].account = pageRows[loads[l].row].wallet
         /\ pageMade' = pageMade \cup {made}
         /\ \/ \E got \in {made.id, NoResult}, job \in {"approving", "dropped"} :
                  loads' = [loads EXCEPT ![l].job = job, ![l].got = got]
            \/ \E job \in {"failing", "dropped"} : loads' = [loads EXCEPT ![l].job = job]
      \/ /\ \E job \in {"failing", "dropped"} : loads' = [loads EXCEPT ![l].job = job]
         /\ UNCHANGED pageMade
  BY DEF SubmitEnds, SignatureCounts
<1>5. PICK job, got :
        /\ job \in {"approving", "failing", "dropped"}
        /\ \/ loads' = [loads EXCEPT ![l].job = job, ![l].got = got]
           \/ loads' = [loads EXCEPT ![l].job = job]
        /\ job = "approving" =>
              /\ loads' = [loads EXCEPT ![l].job = job, ![l].got = got]
              /\ got \in {made.id, NoResult} /\ made \in pageMade'
              /\ made.wallet = pageRows[loads[l].row].wallet
        /\ pageMade' \in {pageMade, pageMade \cup {made}}
  BY <1>3, <1>4
<1>. PICK x : /\ x = [loads[l] EXCEPT !.job = job, !.got = got] \/ x = [loads[l] EXCEPT !.job = job]
              /\ loads' = [loads EXCEPT ![l] = x]
              /\ job = "approving" => x = [loads[l] EXCEPT !.job = job, !.got = got]
  <2>1. [loads EXCEPT ![l].job = job, ![l].got = got]
          = [loads EXCEPT ![l] = [loads[l] EXCEPT !.job = job, !.got = got]]
    BY DEF PagesKept
  <2>2. [loads EXCEPT ![l].job = job] = [loads EXCEPT ![l] = [loads[l] EXCEPT !.job = job]]
    OBVIOUS
  <2>3. CASE loads' = [loads EXCEPT ![l].job = job, ![l].got = got]
    BY <2>1, <2>3
  <2>4. CASE loads' = [loads EXCEPT ![l].job = job] /\ job # "approving"
    BY <2>2, <2>4
  <2> QED BY <1>5, <2>3, <2>4
<1>6. /\ Shaped(x, LoadFields) /\ x.at = loads[l].at /\ x.q = loads[l].q /\ x.asked = loads[l].asked
      /\ x.row = loads[l].row /\ x.rejecting = loads[l].rejecting /\ x.told = loads[l].told
      /\ x.job = job /\ (job = "approving" => x.got = got)
  BY <1>1 DEF KeptLoad, Shaped, LoadFields
<1>7. /\ Follow(pageRows, pageRows') /\ \A m \in PageLoads : Foreign(m, pageRows, pageRows')
      /\ pageMade \subseteq pageMade'
  BY <1>1, <1>5, Undecided
<1>8. KeptLoad(loads[l], l, pageRows, pageMade')
  BY <1>1, <1>7, Undecided, LoadFollows
<1>9. x.job = "approving" => MadeBy(loads[l], l, pageRows, pageMade', x.got)
  BY <1>3, <1>5, <1>6 DEF MadeBy
<1>10. KeptLoad(x, l, pageRows, pageMade')
  BY <1>2, <1>5, <1>6, <1>8, <1>9, JobGoes
<1>11. MadeKept(pageRows, pageMade')
  BY <1>2, <1>3, <1>5 DEF PagesKept, MadeKept
<1>12. ApprovedKept(pageRows, pageMade')
  BY <1>7, NotApproved DEF PagesKept
<1> QED BY <1>1, <1>7, <1>10, <1>11, <1>12, LoadStep DEF PagesKept

-----------------------------------------------------------------------------
\* The decisions.

LEMMA PageDecides ==
  ASSUME PagesKept, NEW l \in PageLoads, NEW x, loads' = [loads EXCEPT ![l] = x],
         NEW r \in DOMAIN pageRows, NEW status \in {"approved", "rejected"}, NEW result,
         pageRows' = [pageRows EXCEPT ![r] = Decided(@, status, result)],
         UNCHANGED <<pageMade, popupAt>>, result \in {<<r, l>>, NoResult},
         status = "approved" => \E s \in pageMade : s.row = r /\ result \in {s.id, NoResult},
         /\ Follow(pageRows, pageRows') /\ pageRows'[r].status \notin LiveStatuses
         /\ pageRows'[r].result \in {pageRows[r].result, result}
         => KeptLoad(x, l, pageRows', pageMade)
  PROVE  PagesKept'
<1>1. PICK rows, to : rows = pageRows /\ to = pageRows'
  OBVIOUS
<1>. GoodRows(rows) /\ Decides(rows, to, r, status, result)
  BY <1>1 DEF PagesKept, Decides
<1>2. /\ GoodRows(to) /\ Follow(pageRows, to) /\ DOMAIN to = DOMAIN pageRows
      /\ \A m : result # <<r, m>> => Foreign(m, pageRows, to)
      /\ \A q \in DOMAIN pageRows : \/ to[q] = pageRows[q]
                                    \/ q = r /\ to[q].status = status /\ to[q].result = result
      /\ to[r].status \notin LiveStatuses
  <2>1. GoodRows(to) /\ Follow(rows, to) /\ DOMAIN to = DOMAIN rows
    BY RowDecided
  <2>4. to[r].status \notin LiveStatuses
    BY RowDecided DEF LiveStatuses
  <2>2. \A m : result # <<r, m>> => Foreign(m, rows, to)
    BY RowDecided
  <2>3. \A q \in DOMAIN rows : \/ to[q] = rows[q]
                               \/ q = r /\ to[q].status = status /\ to[q].result = result
    BY RowDecided
  <2> QED BY <1>1, <2>1, <2>2, <2>3, <2>4
<1>3. \A m \in PageLoads \ {l} : Foreign(m, pageRows, to)
  <2>. SUFFICES ASSUME NEW m \in PageLoads \ {l} PROVE result # <<r, m>>
    BY <1>2
  <2>1. <<r, l>> # <<r, m>>
    OBVIOUS
  <2> QED BY <2>1, NoPair
<1>4. MadeKept(to, pageMade)
  BY <1>2, MadeFollows DEF PagesKept
<1>5. ApprovedKept(to, pageMade)
  BY <1>2 DEF PagesKept, ApprovedKept
<1>6. /\ GoodRows(pageRows') /\ Follow(pageRows, pageRows') /\ MadeKept(pageRows', pageMade')
      /\ ApprovedKept(pageRows', pageMade') /\ KeptLoad(x, l, pageRows', pageMade')
      /\ pageMade \subseteq pageMade'
  BY <1>1, <1>2, <1>4, <1>5
<1>7. \A m \in PageLoads \ {l} : Foreign(m, pageRows, pageRows')
  BY <1>1, <1>3
<1> QED BY <1>6, <1>7, LoadStep

LEMMA ApprovedKeeps == ASSUME PagesKept, NEW l \in PageLoads, PageApproves(l) PROVE PagesKept'
<1>. PICK load : load = loads[l]
  OBVIOUS
<1>1. /\ KeptLoad(load, l, pageRows, pageMade) /\ load.at = "review" /\ load.job = "approving"
      /\ UNCHANGED <<pageMade, popupAt>>
      /\ pageRows' = [pageRows EXCEPT ![load.row] = Decided(@, "approved", load.got)]
      /\ \/ loads' = [loads EXCEPT ![l] = [Redirects(@, "signed", load.got, TRUE) EXCEPT !.job = "done"]]
         \/ loads' = [loads EXCEPT ![l].job = "failing"]
  BY DEF PagesKept, PageApproves
<1>. PICK byPage \in BOOLEAN :
        \/ loads' = [loads EXCEPT ![l] = [Redirects(load, "signed", load.got, byPage)
                                             EXCEPT !.job = "done"]]
        \/ loads' = [loads EXCEPT ![l].job = "failing"]
  BY <1>1
<1>. PICK y : /\ y = Redirects(load, "signed", load.got, byPage)
              /\ \/ loads' = [loads EXCEPT ![l] = [y EXCEPT !.job = "done"]]
                 \/ loads' = [loads EXCEPT ![l].job = "failing"]
  OBVIOUS
<1>. PICK x : /\ loads' = [loads EXCEPT ![l] = x]
              /\ x = [y EXCEPT !.job = "done"] \/ x = [load EXCEPT !.job = "failing"]
  BY <1>1
<1>2. /\ Shaped(load, LoadFields) /\ Shaped(load.asked, {"net", "wallet", "callback", "submit"})
      /\ load.row \in DOMAIN pageRows /\ MadeBy(load, l, pageRows, pageMade, load.got)
  BY <1>1 DEF KeptLoad
<1>3. /\ Shaped(y, LoadFields) /\ y.at = "redirecting" /\ y.q = load.q /\ y.asked = load.asked
      /\ y.row = load.row /\ y.rejecting = load.rejecting
      /\ y.told.status = "signed" /\ y.told.to = load.asked.callback
      /\ {y.told.result, y.told.fragment} \subseteq {load.got, NoResult}
  BY <1>2, RedirectsIs
<1>4. /\ Shaped(x, LoadFields) /\ x.q = load.q /\ x.asked = load.asked
      /\ x.row = load.row /\ x.rejecting = load.rejecting
      /\ \/ x.at = "redirecting" /\ x.job = "done" /\ x.told = y.told
         \/ x.at = "review" /\ x.job = "failing" /\ x.told = load.told
  BY <1>1, <1>2, <1>3 DEF Shaped, LoadFields
<1>5. ASSUME Follow(pageRows, pageRows') PROVE KeptLoad(x, l, pageRows', pageMade)
  <2>. PICK to : to = pageRows'
    OBVIOUS
  <2>1. /\ load.row \in DOMAIN to /\ to[load.row].blocked = pageRows[load.row].blocked
        /\ pageRows[load.row].status \notin LiveStatuses => to[load.row] = pageRows[load.row]
    BY <1>2, <1>5 DEF Follow
  <2>2. ASSUME NEW result, MadeBy(load, l, pageRows, pageMade, result)
        PROVE  MadeBy(x, l, to, pageMade, result)
    BY <1>2, <1>4, <1>5, <2>2 DEF MadeBy, Follow
  <2>3. x.told.status = "signed" => /\ MadeBy(x, l, to, pageMade, x.told.result)
                                    /\ MadeBy(x, l, to, pageMade, x.told.fragment)
    <3>1. CASE x.told = y.told
      <4>1. MadeBy(load, l, pageRows, pageMade, NoResult)
        BY <1>2 DEF MadeBy
      <4>2. /\ MadeBy(load, l, pageRows, pageMade, x.told.result)
            /\ MadeBy(load, l, pageRows, pageMade, x.told.fragment)
        BY <1>2, <1>3, <3>1, <4>1
      <4> QED BY <2>2, <4>2
    <3>2. CASE x.told = load.told
      BY <1>1, <2>2, <3>2 DEF KeptLoad
    <3> QED BY <1>4, <3>1, <3>2
  <2>4. x.rejecting \/ x.told.status = "rejected" =>
          to[x.row].status \notin LiveStatuses /\ to[x.row].result # <<x.row, l>>
    <3>1. x.rejecting \/ x.told.status = "rejected" => load.rejecting \/ load.told.status = "rejected"
      BY <1>3, <1>4
    <3> QED BY <1>1, <1>4, <2>1, <3>1 DEF KeptLoad
  <2>5. ~to[x.row].blocked
    BY <1>1, <1>4, <2>1 DEF KeptLoad
  <2>6. x.told.status # "none" => x.told.to = x.q.callback
    BY <1>1, <1>3, <1>4 DEF KeptLoad
  <2> QED BY <1>1, <1>4, <2>1, <2>3, <2>4, <2>5, <2>6 DEF KeptLoad, Unshown
<1>6. /\ load.got \in {<<load.row, l>>, NoResult}
      /\ \E s \in pageMade : s.row = load.row /\ load.got \in {s.id, NoResult}
  BY <1>2 DEF MadeBy
<1> QED BY <1>1, <1>2, <1>5, <1>6, PageDecides

LEMMA FailedKeeps == ASSUME PagesKept, NEW l \in PageLoads, PageFails(l) PROVE PagesKept'
<1>. PICK load : load = loads[l]
  OBVIOUS
<1>1. /\ KeptLoad(load, l, pageRows, pageMade) /\ load.at = "review" /\ load.job = "failing"
      /\ UNCHANGED <<pageMade, popupAt>>
      /\ pageRows' = [pageRows EXCEPT ![load.row] = Decided(@, "rejected", NoResult)]
      /\ loads' = [loads EXCEPT ![l] = [Redirects(@, "error", NoResult, TRUE) EXCEPT !.job = "done"]]
  BY DEF PagesKept, PageFails
<1>. PICK byPage \in BOOLEAN :
        loads' = [loads EXCEPT ![l] = [Redirects(load, "error", NoResult, byPage)
                                          EXCEPT !.job = "done"]]
  BY <1>1
<1>. PICK y : /\ y = Redirects(load, "error", NoResult, byPage)
              /\ loads' = [loads EXCEPT ![l] = [y EXCEPT !.job = "done"]]
  OBVIOUS
<1>. PICK x : loads' = [loads EXCEPT ![l] = x] /\ x = [y EXCEPT !.job = "done"]
  BY <1>1
<1>2. /\ Shaped(load, LoadFields) /\ Shaped(load.asked, {"net", "wallet", "callback", "submit"})
      /\ load.row \in DOMAIN pageRows
  BY <1>1 DEF KeptLoad
<1>3. /\ Shaped(y, LoadFields) /\ y.at = "redirecting" /\ y.q = load.q /\ y.asked = load.asked
      /\ y.row = load.row /\ y.rejecting = load.rejecting
      /\ y.told.status = "error" /\ y.told.to = load.asked.callback
  BY <1>2, RedirectsIs
<1>4. /\ Shaped(x, LoadFields) /\ x.q = load.q /\ x.asked = load.asked
      /\ x.row = load.row /\ x.rejecting = load.rejecting
      /\ x.at = "redirecting" /\ x.job = "done" /\ x.told = y.told
  BY <1>3 DEF Shaped, LoadFields
<1>5. ASSUME Follow(pageRows, pageRows') PROVE KeptLoad(x, l, pageRows', pageMade)
  <2>. PICK to : to = pageRows'
    OBVIOUS
  <2>1. /\ load.row \in DOMAIN to /\ to[load.row].blocked = pageRows[load.row].blocked
        /\ pageRows[load.row].status \notin LiveStatuses => to[load.row] = pageRows[load.row]
    BY <1>2, <1>5 DEF Follow
  <2>2. x.rejecting => to[x.row].status \notin LiveStatuses /\ to[x.row].result # <<x.row, l>>
    BY <1>1, <1>4, <2>1 DEF KeptLoad
  <2>3. ~to[x.row].blocked /\ x.told.to = x.q.callback
    BY <1>1, <1>3, <1>4, <2>1 DEF KeptLoad
  <2> QED BY <1>1, <1>3, <1>4, <2>1, <2>2, <2>3 DEF KeptLoad, Unshown
<1> QED BY <1>1, <1>2, <1>5, PageDecides

LEMMA RejectedKeeps == ASSUME PagesKept, NEW l \in PageLoads, PressReject(l) PROVE PagesKept'
<1>. PICK load : load = loads[l]
  OBVIOUS
<1>1. /\ KeptLoad(load, l, pageRows, pageMade) /\ load.at = "review" /\ load.job = "none"
      /\ UNCHANGED <<pageMade, popupAt>>
      /\ pageRows' = [pageRows EXCEPT ![load.row] = Decided(@, "rejected", NoResult)]
      /\ loads' = [loads EXCEPT ![l].rejecting = TRUE]
  BY DEF PagesKept, PressReject
<1>. PICK x : loads' = [loads EXCEPT ![l] = x] /\ x = [load EXCEPT !.rejecting = TRUE]
  BY <1>1
<1>2. load.row \in DOMAIN pageRows /\ pageRows[load.row].result # <<load.row, l>>
  BY <1>1 DEF KeptLoad
<1>3. /\ Shaped(x, LoadFields) /\ x.q = load.q /\ x.asked = load.asked /\ x.row = load.row
      /\ x.at = "review" /\ x.job = "none" /\ x.told = load.told
  BY <1>1 DEF KeptLoad, Shaped, LoadFields
<1>4. ASSUME Follow(pageRows, pageRows'), pageRows'[load.row].status \notin LiveStatuses,
             pageRows'[load.row].result \in {pageRows[load.row].result, NoResult}
      PROVE  KeptLoad(x, l, pageRows', pageMade)
  <2>. PICK to : to = pageRows'
    OBVIOUS
  <2>1. load.row \in DOMAIN to /\ to[load.row].status \notin LiveStatuses
        /\ to[load.row].result # <<load.row, l>>
    <3>1. NoResult # <<load.row, l>>
      BY NoPair
    <3>2. load.row \in DOMAIN to
      BY <1>2, <1>4 DEF Follow
    <3>3. to[load.row].result # <<load.row, l>>
      BY <1>2, <1>4, <3>1
    <3> QED BY <1>4, <3>2, <3>3
  <2>2. x.told.status = "signed" => /\ MadeBy(load, l, to, pageMade, x.told.result)
                                    /\ MadeBy(load, l, to, pageMade, x.told.fragment)
    BY <1>1, <1>2, <1>3, <1>4, MadeStays DEF KeptLoad
  <2>3. x.told.status = "signed" => /\ MadeBy(x, l, to, pageMade, x.told.result)
                                    /\ MadeBy(x, l, to, pageMade, x.told.fragment)
    BY <1>3, <2>2 DEF MadeBy
  <2> QED BY <1>1, <1>3, <2>1, <2>3 DEF KeptLoad, Unshown
<1> QED BY <1>1, <1>2, <1>4, PageDecides

LEMMA RejectionToldKeeps == ASSUME PagesKept, NEW l \in PageLoads, RejectAnswered(l) PROVE PagesKept'
<1>. PICK load : load = loads[l]
  OBVIOUS
<1>1. /\ KeptLoad(load, l, pageRows, pageMade) /\ load.at \in {"review", "redirecting"}
      /\ load.rejecting /\ UNCHANGED <<pageRows, pageMade, popupAt>>
      /\ loads' = [loads EXCEPT ![l] =
                      [Redirects(load, "rejected", NoResult, FALSE) EXCEPT !.rejecting = FALSE]]
  BY DEF PagesKept, RejectAnswered
<1>. PICK byPage \in BOOLEAN :
        loads' = [loads EXCEPT ![l] = [Redirects(load, "rejected", NoResult, byPage)
                                          EXCEPT !.rejecting = FALSE]]
  BY <1>1
<1>. PICK y : /\ y = Redirects(load, "rejected", NoResult, byPage)
              /\ loads' = [loads EXCEPT ![l] = [y EXCEPT !.rejecting = FALSE]]
  OBVIOUS
<1>. PICK x : loads' = [loads EXCEPT ![l] = x] /\ x = [y EXCEPT !.rejecting = FALSE]
  OBVIOUS
<1>2. Shaped(load, LoadFields) /\ Shaped(load.asked, {"net", "wallet", "callback", "submit"})
  BY <1>1 DEF KeptLoad
<1>3. /\ Shaped(y, LoadFields) /\ y.at = "redirecting" /\ y.q = load.q /\ y.asked = load.asked
      /\ y.row = load.row /\ y.job = load.job /\ y.got = load.got
      /\ y.told.status = "rejected" /\ y.told.to = load.asked.callback
  BY <1>2, RedirectsIs
<1>4. /\ Shaped(x, LoadFields) /\ x.at = "redirecting" /\ x.q = load.q /\ x.asked = load.asked
      /\ x.row = load.row /\ x.job = load.job /\ x.got = load.got /\ x.told = y.told
  BY <1>3 DEF Shaped, LoadFields
<1>5. x.job = "approving" => MadeBy(x, l, pageRows, pageMade, x.got)
  BY <1>1, <1>4 DEF KeptLoad, MadeBy
<1>6. KeptLoad(x, l, pageRows, pageMade)
  BY <1>1, <1>3, <1>4, <1>5 DEF KeptLoad, Unshown
<1> QED BY <1>1, <1>6, LoadOnly

LEMMA ClosedKeeps == ASSUME PagesKept, NEW l \in PageLoads, ClosePage(l) PROVE PagesKept'
<1>. PICK load : load = loads[l]
  OBVIOUS
<1>1. /\ KeptLoad(load, l, pageRows, pageMade) /\ UNCHANGED <<pageMade, popupAt>>
      /\ \/ load.at = "review"
            /\ pageRows' = [pageRows EXCEPT ![load.row] = Decided(@, "rejected", NoResult)]
         \/ UNCHANGED pageRows
      /\ loads' = [loads EXCEPT ![l].at = "closed", ![l].rejecting = FALSE]
  BY DEF PagesKept, ClosePage
<1>. PICK x : loads' = [loads EXCEPT ![l] = x] /\ x = [load EXCEPT !.at = "closed", !.rejecting = FALSE]
  BY <1>1 DEF PagesKept
<1>2. /\ Shaped(x, LoadFields) /\ x.q = load.q /\ x.asked = load.asked /\ x.row = load.row
      /\ x.at = "closed" /\ x.job = load.job /\ x.got = load.got /\ x.told = load.told
  BY <1>1 DEF KeptLoad, Shaped, LoadFields
<1>3. ASSUME Follow(pageRows, pageRows') PROVE KeptLoad(x, l, pageRows', pageMade)
  <2>. PICK to : to = pageRows'
    OBVIOUS
  <2>1. load.job # "none" \/ load.told.status \in {"signed", "rejected"} =>
           /\ load.row \in DOMAIN pageRows /\ load.row \in DOMAIN to
           /\ to[load.row].blocked = pageRows[load.row].blocked
           /\ pageRows[load.row].status \notin LiveStatuses => to[load.row] = pageRows[load.row]
    BY <1>1, <1>3 DEF KeptLoad, Follow
  <2>2. ASSUME NEW result, MadeBy(load, l, pageRows, pageMade, result), load.row \in DOMAIN pageRows
        PROVE  MadeBy(x, l, to, pageMade, result)
    BY <1>2, <1>3, <2>2 DEF MadeBy, Follow
  <2>3. x.told.status = "signed" => /\ MadeBy(x, l, to, pageMade, x.told.result)
                                    /\ MadeBy(x, l, to, pageMade, x.told.fragment)
    BY <1>1, <1>2, <2>1, <2>2 DEF KeptLoad
  <2>4. x.job = "approving" => MadeBy(x, l, to, pageMade, x.got)
    BY <1>1, <1>2, <2>1, <2>2 DEF KeptLoad
  <2>5. x.told.status = "rejected" =>
          to[x.row].status \notin LiveStatuses /\ to[x.row].result # <<x.row, l>>
    BY <1>1, <1>2, <2>1 DEF KeptLoad
  <2>6. x.job # "none" \/ x.told.status \in {"signed", "rejected"} => x.row \in DOMAIN to
    BY <1>2, <2>1
  <2>7. x.job # "none" => ~to[x.row].blocked
    BY <1>1, <1>2, <2>1 DEF KeptLoad
  <2>8. ~x.rejecting
    BY <1>1 DEF KeptLoad, Shaped, LoadFields
  <2> QED BY <1>1, <1>2, <2>3, <2>4, <2>5, <2>6, <2>7, <2>8 DEF KeptLoad, Unshown
<1>4. CASE UNCHANGED pageRows
  <2>1. KeptLoad(x, l, pageRows, pageMade)
    BY <1>3, <1>4, Undecided
  <2> QED BY <1>1, <1>4, <2>1, LoadOnly
<1>5. CASE /\ load.at = "review"
           /\ pageRows' = [pageRows EXCEPT ![load.row] = Decided(@, "rejected", NoResult)]
  <2>1. load.row \in DOMAIN pageRows
    BY <1>1, <1>5 DEF KeptLoad
  <2> QED BY <1>1, <1>3, <1>5, <2>1, PageDecides
<1> QED BY <1>1, <1>4, <1>5

-----------------------------------------------------------------------------
\* The same rows elsewhere.

\* A decision that no page made.
LEMMA RowDecides ==
  ASSUME PagesKept, UNCHANGED loads, NEW r \in DOMAIN pageRows,
         NEW status, NEW result, Decides(pageRows, pageRows', r, status, result),
         result \in {<<r, 0>>, NoResult}, pageMade \subseteq pageMade',
         MadeKept(pageRows, pageMade'),
         status = "approved" => \E s \in pageMade' : s.row = r /\ result \in {s.id, NoResult},
         popupAt'.row # NoRow => popupAt'.row \in DOMAIN pageRows /\ ~pageRows[popupAt'.row].blocked
  PROVE  PagesKept'
<1>1. PICK rows, to : rows = pageRows /\ to = pageRows'
  OBVIOUS
<1>. GoodRows(rows) /\ Decides(rows, to, r, status, result)
  BY <1>1 DEF PagesKept
<1>2. GoodRows(to) /\ Follow(rows, to) /\ DOMAIN to = DOMAIN rows
  BY RowDecided
<1>3. \A q \in DOMAIN rows : \/ to[q] = rows[q]
                             \/ q = r /\ to[q].status = status /\ to[q].result = result
  BY RowDecided
<1>4. \A m \in PageLoads : Foreign(m, rows, to)
  <2>. SUFFICES ASSUME NEW m \in PageLoads PROVE result # <<r, m>>
    BY RowDecided
  <2>1. <<r, 0>> # <<r, m>>
    BY SignPageAssumption
  <2> QED BY <2>1, NoPair
<1>5. MadeKept(to, pageMade')
  BY <1>1, <1>2, MadeFollows
<1>6. ApprovedKept(to, pageMade')
  BY <1>1, <1>2, <1>3 DEF PagesKept, ApprovedKept
<1>7. PopupKept(popupAt', to)
  BY <1>1, <1>2, PopupFollows DEF PopupKept
<1>8. /\ GoodRows(pageRows') /\ Follow(pageRows, pageRows') /\ MadeKept(pageRows', pageMade')
      /\ ApprovedKept(pageRows', pageMade') /\ PopupKept(popupAt', pageRows')
  BY <1>1, <1>2, <1>5, <1>6, <1>7
<1>9. \A m \in PageLoads : Foreign(m, pageRows, pageRows')
  BY <1>1, <1>4
<1> QED BY <1>8, <1>9, RowStep

LEMMA PopupConfirmsKeeps ==
  ASSUME PagesKept, NEW r \in DOMAIN pageRows, PopupConfirms(r) \/ RowEnds(r) PROVE PagesKept'
<1>1. PICK status \in {"signing", "rejected", "expired"} :
        pageRows' = [pageRows EXCEPT ![r] = Decided(@, status, NoResult)]
  BY DEF PopupConfirms, RowEnds
<1>2. /\ Decides(pageRows, pageRows', r, status, NoResult) /\ status # "approved"
      /\ UNCHANGED <<loads, pageMade>>
  BY <1>1 DEF Decides, PopupConfirms, RowEnds
<1>3. popupAt'.row # NoRow => popupAt'.row \in DOMAIN pageRows /\ ~pageRows[popupAt'.row].blocked
  BY DEF PopupConfirms, RowEnds, PagesKept, PopupKept
<1>4. MadeKept(pageRows, pageMade') /\ pageMade \subseteq pageMade'
  BY <1>2 DEF PagesKept
<1> QED BY <1>2, <1>3, <1>4, RowDecides

LEMMA PopupEndsKeeps == ASSUME PagesKept, PopupEnds PROVE PagesKept'
<1>. PICK r : r = popupAt.row
  OBVIOUS
<1>. PICK made : made = [row |-> r, load |-> 0, wallet |-> popupAt.wallet, id |-> <<r, 0>>,
                         submitted |-> pageRows[r].submit]
  OBVIOUS
<1>1. /\ made.row = r /\ made.id = <<r, 0>> /\ made.submitted = pageRows[r].submit
      /\ r \in DOMAIN pageRows /\ ~pageRows[r].blocked /\ UNCHANGED loads /\ popupAt'.row = NoRow
  BY DEF PopupEnds, PagesKept, PopupKept
<1>2. \/ /\ pageMade' = pageMade \cup {made}
         /\ pageRows' = [pageRows EXCEPT ![r] = Decided(@, "approved", made.id)]
      \/ /\ pageRows' = [pageRows EXCEPT ![r] = Decided(@, "rejected", NoResult)]
         /\ UNCHANGED pageMade
  BY DEF PopupEnds
<1>3. pageMade \subseteq pageMade' /\ MadeKept(pageRows, pageMade')
  BY <1>1, <1>2 DEF PagesKept, MadeKept
<1>4. CASE /\ pageMade' = pageMade \cup {made}
           /\ pageRows' = [pageRows EXCEPT ![r] = Decided(@, "approved", made.id)]
  <2>. PICK result, status : result = made.id /\ status = "approved"
    OBVIOUS
  <2>1. Decides(pageRows, pageRows', r, status, result)
    BY <1>1, <1>4 DEF Decides
  <2>2. result \in {<<r, 0>>, NoResult} /\ \E s \in pageMade' : s.row = r /\ result \in {s.id, NoResult}
    BY <1>1, <1>4
  <2> QED BY <1>1, <1>3, <2>1, <2>2, RowDecides
<1>5. CASE UNCHANGED pageMade /\ pageRows' = [pageRows EXCEPT ![r] = Decided(@, "rejected", NoResult)]
  <2>. PICK status : status = "rejected"
    OBVIOUS
  <2>1. Decides(pageRows, pageRows', r, status, NoResult)
    BY <1>1, <1>5 DEF Decides
  <2> QED BY <1>1, <1>3, <2>1, RowDecides
<1> QED BY <1>2, <1>4, <1>5

\* All rows of a site are decided at once.
LEMMA SiteLeavesKeeps == ASSUME PagesKept, SiteLeaves PROVE PagesKept'
<1>1. /\ pageRows' = [r \in DOMAIN pageRows |-> Decided(pageRows[r], "rejected", NoResult)]
      /\ UNCHANGED <<loads, popupAt, pageMade>>
  BY DEF SiteLeaves
<1>. PICK rows, to : rows = pageRows /\ to = pageRows'
  OBVIOUS
<1>2. /\ GoodRows(rows) /\ DOMAIN to = DOMAIN rows
      /\ \A r \in DOMAIN rows : to[r] = Decided(rows[r], "rejected", NoResult)
  BY <1>1 DEF PagesKept
<1>3. ASSUME NEW r \in DOMAIN rows
      PROVE  /\ Shaped(to[r], PageRowFields)
             /\ to[r].wallet = rows[r].wallet /\ to[r].submit = rows[r].submit
             /\ to[r].blocked = rows[r].blocked
             /\ rows[r].status \notin LiveStatuses => to[r] = rows[r]
             /\ rows[r].status \in LiveStatuses => to[r].status = "rejected" /\ to[r].result = NoResult
  <2>. PICK d, row : row = rows[r] /\ d = Decided(row, "rejected", NoResult)
    OBVIOUS
  <2>1. Shaped(row, PageRowFields) /\ d = to[r]
    BY <1>2 DEF GoodRows
  <2> QED BY <2>1, DecidedIs
<1>4. IsSeq(to)
  <2>1. PICK S : rows \in Seq(S)
    BY <1>2 DEF GoodRows, IsSeq
  <2>2. Len(rows) \in Nat /\ DOMAIN to = 1..Len(rows) /\ to = [r \in 1..Len(rows) |-> to[r]]
    BY <1>1, <1>2, <2>1, LenProperties
  <2>. DEFINE T == {to[r] : r \in 1..Len(rows)}
  <2>3. to \in [1..Len(rows) -> T]
    BY <2>2
  <2>4. to \in Seq(T)
    BY <2>2, <2>3, SeqDef
  <2> QED BY <2>4 DEF IsSeq
<1>5. GoodRows(to) /\ Follow(rows, to)
  BY <1>2, <1>3, <1>4 DEF GoodRows, Follow
<1>6. \A m \in PageLoads : Foreign(m, rows, to)
  BY <1>3, NoPair DEF Foreign
<1>7. MadeKept(to, pageMade) /\ PopupKept(popupAt, to)
  BY <1>5, MadeFollows, PopupFollows DEF PagesKept
<1>8. ApprovedKept(to, pageMade)
  BY <1>2, <1>3 DEF PagesKept, ApprovedKept
<1> QED BY <1>1, <1>5, <1>6, <1>7, <1>8, RowStep

LEMMA PagesKeep == PagesKept /\ [SignPageNext]_signPageVars => PagesKept'
<1>. SUFFICES ASSUME PagesKept, [SignPageNext]_signPageVars PROVE PagesKept'
  OBVIOUS
<1>1. CASE UNCHANGED signPageVars
  BY <1>1 DEF signPageVars, PagesKept
<1>2. ASSUME NEW l \in PageLoads, NEW q \in Queries, OpenSignRequest(l, q) PROVE PagesKept'
  BY <1>2, OpensKeep
<1>3. ASSUME NEW l \in PageLoads,
             \/ ListAccounts(l) \/ StartPreparing(l) \/ PrepareEnds(l) \/ LoadFails(l)
             \/ PressConfirm(l) \/ SignEnds(l) \/ SubmitEnds(l) \/ PageApproves(l) \/ PageFails(l)
             \/ PressReject(l) \/ RejectAnswered(l) \/ ClosePage(l)
      PROVE  PagesKept'
  BY <1>3, LoadingKeeps, PreparingKeeps, PreparedKeeps, ConfirmedKeeps, SignedKeeps,
     SubmittedKeeps, ApprovedKeeps, FailedKeeps, RejectedKeeps, RejectionToldKeeps, ClosedKeeps
<1>4. ASSUME NEW r \in DOMAIN pageRows, PopupConfirms(r) \/ RowEnds(r) PROVE PagesKept'
  BY <1>4, PopupConfirmsKeeps
<1>5. CASE PopupEnds \/ SiteLeaves
  BY <1>5, PopupEndsKeeps, SiteLeavesKeeps
<1>6. CASE PageMoves \/ PageWorkerStops
  BY <1>6 DEF PageMoves, PageWorkerStops, PagesKept, PopupKept
<1> QED BY <1>1, <1>2, <1>3, <1>4, <1>5, <1>6 DEF SignPageNext

LEMMA PagesOnly == [UseNext]_useVars => [SignPageNext]_signPageVars
BY DEF UseNext, useVars, Using

\* What a website's callback is told of its request is what its page and the popup
\* did with it (sign-request.tsx).
THEOREM CallbacksTrue == UseSpec => []CallbackIsTrue
<1>1. UseInit => PagesKept
  BY PagesStart DEF UseInit
<1>2. PagesKept /\ [UseNext]_useVars => PagesKept'
  BY PagesOnly, PagesKeep
<1>3. PagesKept => CallbackIsTrue
  BY CallbackTrue
<1> QED BY <1>1, <1>2, <1>3, PTL DEF UseSpec

-----------------------------------------------------------------------------
(* The calls of a website's page. *)

AskedFields == {"kind", "origin", "key", "net", "submit", "blocked", "status", "signer"}
AskedStatuses == {"awaiting_user", "approved", "rejected", "expired", "sign_failed", "not_connected"}
CallFields == {"at", "frame", "shape", "net", "key", "row"}

\* The rows; the account of a row is the one that signs it.
GoodAsked(rows) ==
    /\ IsSeq(rows)
    /\ \A r \in DOMAIN rows :
          /\ Shaped(rows[r], AskedFields) /\ rows[r].status \in AskedStatuses
          /\ rows[r].kind = "sign" /\ rows[r].status = "approved" => rows[r].signer = rows[r].key

Connected(rows, o) == \E r \in DOMAIN rows : /\ rows[r].kind = "connect" /\ rows[r].status = "approved"
                                             /\ rows[r].origin = o

\* The row of a call, once the call waits for it.
Signs(c, rows) ==
    LET row == rows[c.row]
    IN /\ c.row \in DOMAIN rows /\ row.kind = "sign" /\ row.origin = c.frame.origin
       /\ row.key = c.key /\ row.net = c.net /\ (row.submit => c.shape.how = "native")
       /\ Connected(rows, c.frame.origin)

CallKept(c, rows) ==
    /\ Shaped(c, CallFields) /\ c.frame \in Frames /\ c.shape \in CallShapes
    /\ c.shape.net \in CallNets => c.net = c.shape.net
    /\ c.at = "net" => c.shape.net \notin CallNets
    /\ c.at \in {"net", "key", "connecting"} => c.shape.how # "native"
    /\ c.at = "connecting" => /\ c.row \in DOMAIN rows /\ rows[c.row].kind = "connect"
                              /\ rows[c.row].origin = c.frame.origin
    /\ c.at = "signing" => Signs(c, rows)

Rejected(c, rows) == /\ c.row \in DOMAIN rows /\ c.row # 0 /\ rows[c.row].status = "rejected"
                     /\ rows[c.row].origin = c.frame.origin

AnswerKept(a, rows) ==
    /\ a.status = "signed" =>
          LET row == rows[a.call.row]
          IN /\ a.call.row \in DOMAIN rows /\ row.kind = "sign" /\ row.status = "approved"
             /\ row.origin = a.call.frame.origin /\ row.signer = a.signer /\ row.key = a.signer
             /\ a.call.shape.net \in CallNets => row.net = a.call.shape.net
             /\ row.submit => a.call.shape.how = "native"
    /\ a.status \in {"signed", "address"} => Connected(rows, a.call.frame.origin)
    /\ a.code \in {"-4", "user_rejected"} => Rejected(a.call, rows)

\* The events of one change are of the account and the network that are active.
AccountListener == <<"accountChanged", 1>>
NetListener == <<"networkChanged", 2>>
EventsKept ==
    /\ Shaped(pageActive, {"key", "net"}) /\ Shaped(listening, {"listeners", "map", "oneByOne"})
    /\ listening.map \in {0, 2} /\ listening.listeners \subseteq {AccountListener, NetListener}
    /\ \/ listening = Silent /\ heard = NotHeard /\ broadcasts = {}
       \/ AccountListener \in listening.listeners
    /\ \A b \in broadcasts : Shaped(b, {"event", "key", "net"})
    /\ listening.oneByOne =>
          /\ \A b \in broadcasts : b.key \in {NoKey, pageActive.key} /\ b.net \in {"unread", pageActive.net}
          /\ \/ heard \in {NotHeard, pageActive}
             \/ \E b \in broadcasts : b.event = "accountChanged"

\* The inductive invariant of the page's calls.
CallsKept ==
    /\ GoodAsked(asked) /\ (call # NoCall => CallKept(call, asked))
    /\ IsSeq(answers) /\ \A i \in DOMAIN answers : AnswerKept(answers[i], asked)
    /\ \A o \in grants : Connected(asked, o)
    /\ EventsKept

\* What the invariant is for.
LEMMA PageAnswered == CallsKept => PageIsAnswered
<1>. SUFFICES ASSUME CallsKept PROVE PageIsAnswered
  OBVIOUS
<1>1. ASSUME heard # NotHeard, listening.oneByOne, broadcasts = {} PROVE heard = pageActive
  BY <1>1 DEF CallsKept, EventsKept
<1>2. ASSUME NEW i \in DOMAIN answers
      PROVE  LET a == answers[i]
                 row == asked[a.call.row]
             IN /\ a.status = "signed" =>
                      /\ row.kind = "sign" /\ row.status = "approved"
                      /\ row.origin = a.call.frame.origin
                      /\ row.signer = a.signer /\ row.key = a.signer
                      /\ a.call.shape.net \in CallNets => row.net = a.call.shape.net
                      /\ row.submit => a.call.shape.how = "native"
                /\ a.status \in {"signed", "address"} =>
                      \E r \in DOMAIN asked : /\ asked[r].kind = "connect"
                                              /\ asked[r].status = "approved"
                                              /\ asked[r].origin = a.call.frame.origin
                /\ a.code \in {"-4", "user_rejected"} =>
                      /\ a.call.row # 0 /\ row.status = "rejected"
                      /\ row.origin = a.call.frame.origin
  <2>. PICK a : a = answers[i]
    OBVIOUS
  <2>1. AnswerKept(a, asked)
    BY DEF CallsKept
  <2> QED BY <2>1 DEF AnswerKept, Connected, Rejected
<1> QED BY <1>1, <1>2 DEF PageIsAnswered

LEMMA CallsStart == PageCallsInit => CallsKept
<1>. SUFFICES ASSUME PageCallsInit PROVE CallsKept
  OBVIOUS
<1>1. asked = << >> /\ answers = << >> /\ grants = {} /\ call = NoCall
  BY DEF PageCallsInit
<1>2. IsSeq(<< >>) /\ DOMAIN << >> = {}
  BY EmptySeq DEF IsSeq
<1>3. EventsKept
  BY DEF PageCallsInit, EventsKept, Shaped, Silent
<1> QED BY <1>1, <1>2, <1>3 DEF CallsKept, GoodAsked

-----------------------------------------------------------------------------
\* Rows that are decided, or joined by another.
AskFollow(rows, to) ==
    \A r \in DOMAIN rows :
       /\ r \in DOMAIN to
       /\ to[r].kind = rows[r].kind /\ to[r].origin = rows[r].origin /\ to[r].key = rows[r].key
       /\ to[r].net = rows[r].net /\ to[r].submit = rows[r].submit
       /\ rows[r].status # "awaiting_user" => to[r] = rows[r]

LEMMA AskSame == \A rows : AskFollow(rows, rows)
BY DEF AskFollow

LEMMA ConnectedFollows ==
  ASSUME NEW rows, NEW to, AskFollow(rows, to), NEW o, Connected(rows, o) PROVE Connected(to, o)
BY DEF Connected, AskFollow

LEMMA AnswerFollows ==
  ASSUME NEW rows, NEW to, AskFollow(rows, to), NEW a, AnswerKept(a, rows) PROVE AnswerKept(a, to)
<1>1. a.status \in {"signed", "address"} => Connected(to, a.call.frame.origin)
  BY ConnectedFollows DEF AnswerKept
<1>2. a.code \in {"-4", "user_rejected"} => Rejected(a.call, to)
  BY DEF AnswerKept, Rejected, AskFollow
<1>3. a.status = "signed" => a.call.row \in DOMAIN to /\ to[a.call.row] = rows[a.call.row]
  BY DEF AnswerKept, AskFollow
<1> QED BY <1>1, <1>2, <1>3 DEF AnswerKept

LEMMA CallFollows ==
  ASSUME NEW rows, NEW to, AskFollow(rows, to), NEW c, CallKept(c, rows) PROVE CallKept(c, to)
<1>1. c.at = "signing" => Signs(c, to)
  <2>. SUFFICES ASSUME c.at = "signing" PROVE Signs(c, to)
    OBVIOUS
  <2>1. Signs(c, rows)
    BY DEF CallKept
  <2>2. Connected(to, c.frame.origin)
    BY <2>1, ConnectedFollows DEF Signs
  <2> QED BY <2>1, <2>2 DEF Signs, AskFollow
<1>2. c.at = "connecting" => /\ c.row \in DOMAIN to /\ to[c.row].kind = "connect"
                             /\ to[c.row].origin = c.frame.origin
  BY DEF CallKept, AskFollow
<1> QED BY <1>1, <1>2 DEF CallKept

\* Where a step leaves the call and its answers.
CallGoes == /\ call' = NoCall \/ CallKept(call', asked')
            /\ \/ answers' = answers
               \/ \E a : answers' = Append(answers, a) /\ AnswerKept(a, asked')

LEMMA CallStep ==
  ASSUME CallsKept, AskFollow(asked, asked'), GoodAsked(asked'), CallGoes,
         \A o \in grants' : o \in grants \/ Connected(asked', o),
         UNCHANGED <<pageActive, broadcasts, listening, heard>>
  PROVE  CallsKept'
<1>1. \A i \in DOMAIN answers : AnswerKept(answers[i], asked')
  BY AnswerFollows DEF CallsKept
<1>2. IsSeq(answers') /\ \A i \in DOMAIN answers' : AnswerKept(answers'[i], asked')
  <2>1. CASE answers' = answers
    BY <1>1, <2>1 DEF CallsKept
  <2>2. CASE answers' # answers
    <3>1. PICK a : answers' = Append(answers, a) /\ AnswerKept(a, asked')
      BY <2>2 DEF CallGoes
    <3>. PICK s, t : s = answers /\ t = answers'
      OBVIOUS
    <3>2. IsSeq(s) /\ t = Append(s, a)
      BY <3>1 DEF CallsKept
    <3>3. /\ IsSeq(t) /\ Len(s) \in Nat /\ DOMAIN s = 1..Len(s)
      BY <3>2, Appends
    <3>4. DOMAIN t = 1..(Len(s) + 1)
      BY <3>2, Appends
    <3>5. t[Len(s) + 1] = a
      BY <3>2, Appends
    <3>6. \A i \in DOMAIN s : t[i] = s[i]
      BY <3>2, Appends
    <3>7. \A i \in DOMAIN t : i \in DOMAIN s \/ i = Len(s) + 1
      BY <3>3, <3>4
    <3> QED BY <1>1, <3>1, <3>3, <3>5, <3>6, <3>7
  <2> QED BY <2>1, <2>2
<1>3. \A o \in grants' : Connected(asked', o)
  BY ConnectedFollows DEF CallsKept
<1>4. EventsKept'
  BY DEF CallsKept, EventsKept
<1>5. call' # NoCall => CallKept(call', asked')
  BY DEF CallGoes
<1> QED BY <1>2, <1>3, <1>4, <1>5 DEF CallsKept

\* The ways a call goes on or is over.

LEMMA FailsGoes ==
  ASSUME NEW c, NEW code, Fails(c, code), code # "-4",
         code = "user_rejected" => Rejected(c, asked')
  PROVE  CallGoes
<1>. PICK a : a = [call |-> c, status |-> "error", signer |-> NoKey,
                   code |-> IF c.shape.how \in {"sep", "address"} THEN SepCode(code) ELSE code]
  OBVIOUS
<1>1. a.call = c /\ a.status = "error" /\ (a.code \in {"-4", "user_rejected"} => code = "user_rejected")
  BY DEF SepCode
<1>2. AnswerKept(a, asked')
  BY <1>1 DEF AnswerKept
<1>3. answers' = Append(answers, a) /\ call' = NoCall
  BY DEF Fails
<1> QED BY <1>2, <1>3 DEF CallGoes

LEMMA MovesGoes == ASSUME NEW c, Moves(c), CallKept(c, asked') PROVE CallGoes
BY DEF Moves, CallGoes

LEMMA AddressGoes ==
  ASSUME NEW c, NEW key, Succeeds(c, "address", key), Connected(asked', c.frame.origin)
  PROVE  CallGoes
<1>. PICK a : a = [call |-> c, status |-> "address", signer |-> key, code |-> "none"]
  OBVIOUS
<1>1. AnswerKept(a, asked')
  BY DEF AnswerKept
<1>2. answers' = Append(answers, a) /\ call' = NoCall
  BY DEF Succeeds
<1> QED BY <1>1, <1>2 DEF CallGoes

\* A call that is about to send something.
LEMMA SendKept ==
  ASSUME NEW c, NEW rows, CallKept(c, rows), NEW x, Shaped(x, CallFields), x.at = "send",
         x.frame = c.frame, x.shape = c.shape, c.shape.net \in CallNets => x.net = c.shape.net
  PROVE  CallKept(x, rows)
BY DEF CallKept

LEMMA KeyKnownGoes ==
  ASSUME NEW c, CallKept(c, asked'), c.at \in {"key", "connecting"},
         Connected(asked', c.frame.origin), NEW key, KeyKnown(c, key)
  PROVE  CallGoes
<1>1. c.shape.how \in {"address", "kit", "sep"} /\ Shaped(c, CallFields)
  BY PageCallsAssumption DEF CallKept
<1>2. CASE c.shape.how = "address"
  <2>1. Succeeds(c, "address", key)
    BY <1>2 DEF KeyKnown
  <2> QED BY <2>1, AddressGoes
<1>3. CASE c.shape.how = "kit"
  <2>. PICK x : x = [c EXCEPT !.key = key, !.at = "send"]
    OBVIOUS
  <2>1. Moves(x)
    BY <1>3 DEF KeyKnown
  <2>2. Shaped(x, CallFields) /\ x.at = "send" /\ x.frame = c.frame /\ x.shape = c.shape /\ x.net = c.net
    BY <1>1 DEF Shaped, CallFields
  <2>3. CallKept(x, asked')
    BY <2>2, SendKept DEF CallKept
  <2> QED BY <2>1, <2>3, MovesGoes
<1>4. CASE c.shape.how = "sep" /\ c.shape.submit = "true"
  <2>. PICK code : code = "validation_error"
    OBVIOUS
  <2>1. Fails(c, code)
    BY <1>4 DEF KeyKnown
  <2> QED BY <2>1, FailsGoes
<1>5. CASE c.shape.how = "sep" /\ c.shape.submit # "true"
  <2>. PICK x : x = [c EXCEPT !.key = IF @ = NoKey THEN key ELSE @, !.at = "send"]
    OBVIOUS
  <2>1. Moves(x)
    BY <1>5 DEF KeyKnown
  <2>2. Shaped(x, CallFields) /\ x.at = "send" /\ x.frame = c.frame /\ x.shape = c.shape /\ x.net = c.net
    BY <1>1 DEF Shaped, CallFields
  <2>3. CallKept(x, asked')
    BY <2>2, SendKept DEF CallKept
  <2> QED BY <2>1, <2>3, MovesGoes
<1> QED BY <1>1, <1>2, <1>3, <1>4, <1>5

\* What a call leaves alone.
LEMMA CallOnly ==
  ASSUME CallsKept, CallGoes, UNCHANGED <<pageActive, grants, asked, broadcasts, listening, heard>>
  PROVE  CallsKept'
<1>1. AskFollow(asked, asked') /\ GoodAsked(asked') /\ \A o \in grants' : o \in grants
  BY AskSame DEF CallsKept
<1> QED BY <1>1, CallStep

-----------------------------------------------------------------------------
\* The steps of a call.

LEMMA CallWalletKeeps ==
  ASSUME CallsKept, NEW f \in Frames, NEW shape \in CallShapes, CallWallet(f, shape)
  PROVE  CallsKept'
<1>. PICK c : c = [at |-> "send", frame |-> f, shape |-> shape, net |-> shape.net, key |-> shape.key,
                   row |-> 0]
  OBVIOUS
<1>1. /\ Shaped(c, CallFields) /\ c.at = "send" /\ c.frame = f /\ c.shape = shape
      /\ c.net = shape.net /\ c.key = shape.key
  BY DEF Shaped, CallFields
<1>2. UNCHANGED <<pageActive, grants, asked, broadcasts, listening, heard>>
  BY DEF CallWallet
<1>3. shape.how \in {"native", "address", "kit", "sep"}
  BY PageCallsAssumption
<1>4. CallKept(c, asked')
  BY <1>1 DEF CallKept
<1>5. CASE shape.how = "native"
  <2>1. Moves(c)
    BY <1>5 DEF CallWallet
  <2> QED BY <1>2, <1>4, <2>1, MovesGoes, CallOnly
<1>6. CASE shape.how = "address"
  <2>. PICK x : x = [c EXCEPT !.at = "key"]
    OBVIOUS
  <2>1. Moves(x)
    BY <1>6 DEF CallWallet
  <2>2. Shaped(x, CallFields) /\ x.at = "key" /\ x.frame = f /\ x.shape = shape /\ x.net = shape.net
    BY <1>1 DEF Shaped, CallFields
  <2>3. CallKept(x, asked')
    BY <1>6, <2>2 DEF CallKept
  <2> QED BY <1>2, <2>1, <2>3, MovesGoes, CallOnly
<1>7. CASE shape.how = "kit"
  <2>. PICK x : x = [c EXCEPT !.net = KitNet(c.net), !.at = IF shape.key = NoKey THEN "key" ELSE "send"]
    OBVIOUS
  <2>1. Moves(x)
    BY <1>7 DEF CallWallet
  <2>2. /\ Shaped(x, CallFields) /\ x.at \in {"key", "send"} /\ x.frame = f /\ x.shape = shape
        /\ x.net = KitNet(shape.net)
    BY <1>1 DEF Shaped, CallFields
  <2>3. CallKept(x, asked')
    BY <1>7, <2>2 DEF CallKept, KitNet, CallNets
  <2> QED BY <1>2, <2>1, <2>3, MovesGoes, CallOnly
<1>8. CASE shape.how = "sep" /\ shape.net = "odd"
  <2>. PICK code : code = "validation_error"
    OBVIOUS
  <2>1. Fails(c, code)
    BY <1>8 DEF CallWallet
  <2> QED BY <1>2, <2>1, FailsGoes, CallOnly
<1>9. CASE shape.how = "sep" /\ shape.net # "odd"
  <2>. PICK x : x = [c EXCEPT !.net = SepNet(c.net),
                              !.at = IF SepNet(shape.net) = "unsaid" THEN "net" ELSE "key"]
    OBVIOUS
  <2>1. Moves(x)
    BY <1>9 DEF CallWallet
  <2>2. /\ Shaped(x, CallFields) /\ x.at = (IF SepNet(shape.net) = "unsaid" THEN "net" ELSE "key")
        /\ x.frame = f /\ x.shape = shape /\ x.net = SepNet(shape.net)
    BY <1>1 DEF Shaped, CallFields
  <2>3. CallKept(x, asked')
    BY <1>9, <2>2 DEF CallKept, SepNet, CallNets
  <2> QED BY <1>2, <2>1, <2>3, MovesGoes, CallOnly
<1> QED BY <1>3, <1>5, <1>6, <1>7, <1>8, <1>9

LEMMA NetAnsweredKeeps == ASSUME CallsKept, NetAnswered PROVE CallsKept'
<1>. PICK c : c = call
  OBVIOUS
<1>1. /\ CallKept(c, asked') /\ c.at = "net"
      /\ UNCHANGED <<pageActive, grants, asked, broadcasts, listening, heard>>
  BY DEF NetAnswered, CallsKept
<1>2. CASE Passes(c.frame)
  <2>. PICK x : x = [c EXCEPT !.net = pageActive.net, !.at = "key"]
    OBVIOUS
  <2>1. Moves(x)
    BY <1>2 DEF NetAnswered
  <2>2. Shaped(x, CallFields) /\ x.at = "key" /\ x.frame = c.frame /\ x.shape = c.shape
    BY <1>1 DEF CallKept, Shaped, CallFields
  <2>3. CallKept(x, asked')
    BY <1>1, <2>2 DEF CallKept
  <2> QED BY <1>1, <2>1, <2>3, MovesGoes, CallOnly
<1>3. CASE ~Passes(c.frame)
  <2>. PICK code : code = "invalid_origin"
    OBVIOUS
  <2>1. Fails(c, code)
    BY <1>3 DEF NetAnswered
  <2> QED BY <1>1, <2>1, FailsGoes, CallOnly
<1> QED BY <1>2, <1>3

LEMMA TimesOutKeeps == ASSUME CallsKept, CallTimesOut PROVE CallsKept'
<1>. PICK c, code : c = call /\ code = "timeout"
  OBVIOUS
<1>1. Fails(c, code) /\ UNCHANGED <<pageActive, grants, asked, broadcasts, listening, heard>>
  BY DEF CallTimesOut
<1> QED BY <1>1, FailsGoes, CallOnly

\* One more row.
LEMMA AskJoins ==
  ASSUME CallsKept, NEW c, NEW kind, asked' = Append(asked, NewAsk(kind, c))
  PROVE  /\ AskFollow(asked, asked') /\ GoodAsked(asked')
         /\ Len(asked) + 1 \in DOMAIN asked'
         /\ LET row == asked'[Len(asked) + 1]
            IN /\ row.kind = kind /\ row.origin = OriginOf(c.frame) /\ row.key = c.key
               /\ row.net = c.net /\ (row.submit => c.shape.how = "native")
<1>. PICK e : e = NewAsk(kind, c)
  OBVIOUS
<1>1. /\ Shaped(e, AskedFields) /\ e.kind = kind /\ e.origin = OriginOf(c.frame) /\ e.key = c.key
      /\ e.net = c.net /\ (e.submit => c.shape.how = "native") /\ e.status = "awaiting_user"
  BY DEF NewAsk, Shaped, AskedFields
<1>. PICK s, t : s = asked /\ t = asked'
  OBVIOUS
<1>2. IsSeq(s) /\ t = Append(s, e)
  BY DEF CallsKept, GoodAsked
<1>3. IsSeq(t) /\ Len(s) \in Nat /\ DOMAIN s = 1..Len(s)
  BY <1>2, Appends
<1>4. DOMAIN t = 1..(Len(s) + 1)
  BY <1>2, Appends
<1>5. t[Len(s) + 1] = e
  BY <1>2, Appends
<1>6. \A i \in DOMAIN s : t[i] = s[i]
  BY <1>2, Appends
<1>7. /\ DOMAIN s \subseteq DOMAIN t /\ Len(s) + 1 \in DOMAIN t
      /\ \A i \in DOMAIN t : i \in DOMAIN s \/ i = Len(s) + 1
  BY <1>3, <1>4
<1>8. AskFollow(s, t)
  BY <1>6, <1>7 DEF AskFollow
<1>9. \A r \in DOMAIN t : /\ Shaped(t[r], AskedFields) /\ t[r].status \in AskedStatuses
                          /\ t[r].kind = "sign" /\ t[r].status = "approved" => t[r].signer = t[r].key
  <2>1. GoodAsked(s)
    BY DEF CallsKept
  <2> QED BY <1>1, <1>5, <1>6, <1>7, <2>1 DEF GoodAsked, AskedStatuses
<1>10. GoodAsked(t)
  BY <1>3, <1>9 DEF GoodAsked
<1> QED BY <1>1, <1>5, <1>7, <1>8, <1>10

\* The address: of a connected origin, or of one that is to be asked.
LEMMA AskKeyKeeps == ASSUME CallsKept, AskKey PROVE CallsKept'
<1>. PICK c, o : c = call /\ o = OriginOf(call.frame)
  OBVIOUS
<1>. PICK live : live = {r \in DOMAIN asked : /\ asked[r].kind = "connect" /\ asked[r].origin = o
                                              /\ asked[r].status = "awaiting_user"}
  OBVIOUS
<1>1. /\ CallKept(c, asked) /\ c.at = "key"
      /\ UNCHANGED <<pageActive, grants, broadcasts, listening, heard>>
  BY DEF AskKey, CallsKept
<1>2. Passes(c.frame) => o = c.frame.origin
  BY <1>1, FramesAssumption DEF CallKept, Passes, OriginOf
<1>3. \/ ~Passes(c.frame) /\ Fails(c, "invalid_origin") /\ UNCHANGED asked
      \/ Passes(c.frame) /\ o \in grants /\ KeyKnown(c, pageActive.key) /\ UNCHANGED asked
      \/ Fails(c, "not_connected") /\ UNCHANGED asked
      \/ /\ Passes(c.frame)
         /\ asked' = IF live = {} THEN Append(asked, NewAsk("connect", c)) ELSE asked
         /\ Moves([c EXCEPT !.at = "connecting",
                      !.row = IF live = {} THEN Len(asked) + 1 ELSE CHOOSE r \in live : TRUE])
  BY DEF AskKey
<1>4. ASSUME NEW code \in {"invalid_origin", "not_connected"}, Fails(c, code), UNCHANGED asked
      PROVE  CallsKept'
  <2>1. CallGoes
    BY <1>4, FailsGoes
  <2> QED BY <1>1, <1>4, <2>1, CallOnly
<1>5. ASSUME Passes(c.frame), o \in grants, KeyKnown(c, pageActive.key), UNCHANGED asked
      PROVE  CallsKept'
  <2>. PICK key : key = pageActive.key
    OBVIOUS
  <2>1. Connected(asked', c.frame.origin) /\ CallKept(c, asked') /\ KeyKnown(c, key)
    BY <1>1, <1>2, <1>5 DEF CallsKept
  <2>2. CallGoes
    BY <1>1, <2>1, KeyKnownGoes
  <2> QED BY <1>1, <1>5, <2>2, CallOnly
<1>6. ASSUME Passes(c.frame),
             asked' = IF live = {} THEN Append(asked, NewAsk("connect", c)) ELSE asked,
             NEW row, row = IF live = {} THEN Len(asked) + 1 ELSE CHOOSE r \in live : TRUE,
             Moves([c EXCEPT !.at = "connecting", !.row = row])
      PROVE  CallsKept'
  <2>. PICK x : x = [c EXCEPT !.at = "connecting", !.row = row]
    OBVIOUS
  <2>1. /\ Shaped(x, CallFields) /\ x.at = "connecting" /\ x.frame = c.frame /\ x.shape = c.shape
        /\ x.net = c.net /\ x.row = row
    BY <1>1 DEF CallKept, Shaped, CallFields
  <2>2. /\ AskFollow(asked, asked') /\ GoodAsked(asked')
        /\ row \in DOMAIN asked' /\ asked'[row].kind = "connect" /\ asked'[row].origin = o
    <3>1. CASE live = {}
      <4>1. asked' = Append(asked, NewAsk("connect", c)) /\ row = Len(asked) + 1
        BY <1>6, <3>1
      <4> QED BY <4>1, AskJoins
    <3>2. CASE live # {}
      <4>1. asked' = asked /\ row \in live
        BY <1>6, <3>2
      <4> QED BY <4>1, AskSame DEF CallsKept
    <3> QED BY <3>1, <3>2
  <2>3. CallKept(x, asked')
    BY <1>1, <1>2, <1>6, <2>1, <2>2 DEF CallKept
  <2>4. CallGoes
    BY <1>6, <2>3, MovesGoes
  <2> QED BY <1>1, <2>2, <2>4, CallStep
<1> QED BY <1>3, <1>4, <1>5, <1>6

\* What a row that was not approved is reported as.
LEMMA RefusalIs ==
  ASSUME NEW row, row.status \in AskedStatuses, NEW code, code = Refusal(row)
  PROVE  code # "-4" /\ (code = "user_rejected" => row.status = "rejected")
BY DEF Refusal, AskedStatuses

LEMMA RowRefused ==
  ASSUME NEW c, NEW rows, GoodAsked(rows), c.row \in DOMAIN rows, rows[c.row].origin = c.frame.origin,
         NEW code, code = Refusal(rows[c.row])
  PROVE  code # "-4" /\ (code = "user_rejected" => Rejected(c, rows))
<1>. PICK row : row = rows[c.row]
  OBVIOUS
<1>1. row.status \in AskedStatuses
  BY DEF GoodAsked
<1>2. code # "-4" /\ (code = "user_rejected" => row.status = "rejected")
  BY <1>1, RefusalIs
<1>3. c.row # 0
  <2>1. PICK S : rows \in Seq(S)
    BY DEF GoodAsked, IsSeq
  <2>2. Len(rows) \in Nat /\ DOMAIN rows = 1..Len(rows)
    BY <2>1, LenProperties
  <2> QED BY <2>2
<1> QED BY <1>2, <1>3 DEF Rejected

LEMMA ConnectPolledKeeps == ASSUME CallsKept, ConnectPolled PROVE CallsKept'
<1>. PICK c : c = call
  OBVIOUS
<1>1. /\ CallKept(c, asked) /\ c.at = "connecting" /\ asked[c.row].status # "awaiting_user"
      /\ UNCHANGED <<pageActive, asked, broadcasts, listening, heard>>
      /\ AskFollow(asked, asked') /\ GoodAsked(asked') /\ GoodAsked(asked)
  BY AskSame DEF ConnectPolled, CallsKept
<1>2. c.row \in DOMAIN asked /\ asked[c.row].kind = "connect" /\ asked[c.row].origin = c.frame.origin
  BY <1>1 DEF CallKept
<1>3. CASE asked[c.row].status = "approved"
  <2>. PICK key : key = pageActive.key
    OBVIOUS
  <2>1. KeyKnown(c, key) /\ grants' = grants \cup {asked[c.row].origin}
    BY <1>3 DEF ConnectPolled
  <2>2. Connected(asked', c.frame.origin) /\ CallKept(c, asked')
    BY <1>1, <1>2, <1>3 DEF Connected
  <2>3. CallGoes
    BY <1>1, <2>1, <2>2, KeyKnownGoes
  <2>4. \A o \in grants' : o \in grants \/ Connected(asked', o)
    BY <1>2, <2>1, <2>2
  <2> QED BY <1>1, <2>3, <2>4, CallStep
<1>4. CASE asked[c.row].status # "approved"
  <2>. PICK code : code = Refusal(asked[c.row])
    OBVIOUS
  <2>1. Fails(c, code) /\ UNCHANGED grants
    BY <1>4 DEF ConnectPolled
  <2>2. code # "-4" /\ (code = "user_rejected" => Rejected(c, asked))
    BY <1>1, <1>2, RowRefused
  <2>3. CallGoes
    BY <1>1, <2>1, <2>2, FailsGoes
  <2> QED BY <1>1, <2>1, <2>3, CallOnly
<1> QED BY <1>3, <1>4

LEMMA SendSignKeeps == ASSUME CallsKept, SendSign PROVE CallsKept'
<1>. PICK c : c = call
  OBVIOUS
<1>1. /\ CallKept(c, asked) /\ c.at = "send"
      /\ UNCHANGED <<pageActive, grants, broadcasts, listening, heard>>
  BY DEF SendSign, CallsKept
<1>2. \/ \E code \in {"validation_error", "invalid_origin", "not_connected", "account_mismatch", "error"} :
            Fails(c, code) /\ UNCHANGED asked
      \/ /\ Passes(c.frame) /\ OriginOf(c.frame) \in grants
         /\ asked' = Append(asked, NewAsk("sign", c))
         /\ Moves([c EXCEPT !.at = "signing", !.row = Len(asked) + 1])
  BY DEF SendSign
<1>3. ASSUME NEW code \in {"validation_error", "invalid_origin", "not_connected", "account_mismatch",
                           "error"},
             Fails(c, code), UNCHANGED asked
      PROVE  CallsKept'
  <2>1. CallGoes
    BY <1>3, FailsGoes
  <2> QED BY <1>1, <1>3, <2>1, CallOnly
<1>4. ASSUME Passes(c.frame), OriginOf(c.frame) \in grants, NEW row, row = Len(asked) + 1,
             asked' = Append(asked, NewAsk("sign", c)),
             Moves([c EXCEPT !.at = "signing", !.row = row])
      PROVE  CallsKept'
  <2>. PICK x : x = [c EXCEPT !.at = "signing", !.row = row]
    OBVIOUS
  <2>1. /\ Shaped(x, CallFields) /\ x.at = "signing" /\ x.frame = c.frame /\ x.shape = c.shape
        /\ x.net = c.net /\ x.key = c.key /\ x.row = row
    BY <1>1 DEF CallKept, Shaped, CallFields
  <2>2. OriginOf(c.frame) = c.frame.origin
    BY <1>1, <1>4, FramesAssumption DEF CallKept, Passes, OriginOf
  <2>3. /\ AskFollow(asked, asked') /\ GoodAsked(asked') /\ row \in DOMAIN asked'
        /\ asked'[row].kind = "sign" /\ asked'[row].origin = c.frame.origin
        /\ asked'[row].key = c.key /\ asked'[row].net = c.net
        /\ asked'[row].submit => c.shape.how = "native"
    <3>. PICK kind : kind = "sign"
      OBVIOUS
    <3>1. asked' = Append(asked, NewAsk(kind, c))
      BY <1>4
    <3> QED BY <1>4, <2>2, <3>1, AskJoins
  <2>4. Connected(asked', c.frame.origin)
    BY <1>4, <2>2, <2>3, ConnectedFollows DEF CallsKept
  <2>5. Signs(x, asked')
    BY <2>1, <2>3, <2>4 DEF Signs
  <2>6. CallKept(x, asked')
    BY <1>1, <2>1, <2>5 DEF CallKept
  <2>7. CallGoes
    BY <1>4, <2>6, MovesGoes
  <2> QED BY <1>1, <2>3, <2>7, CallStep
<1> QED BY <1>2, <1>3, <1>4

\* What was signed is told with the account of the row.
LEMMA SignPolledKeeps == ASSUME CallsKept, SignPolled PROVE CallsKept'
<1>. PICK c : c = call
  OBVIOUS
<1>1. /\ CallKept(c, asked) /\ c.at = "signing" /\ GoodAsked(asked)
      /\ UNCHANGED <<pageActive, grants, asked, broadcasts, listening, heard>>
  BY DEF SignPolled, CallsKept
<1>2. Signs(c, asked)
  BY <1>1 DEF CallKept
<1>3. CASE asked[c.row].status = "approved" /\ Succeeds(c, "signed", c.key)
  <2>. PICK a : a = [call |-> c, status |-> "signed", signer |-> c.key, code |-> "none"]
    OBVIOUS
  <2>1. asked[c.row].signer = c.key
    BY <1>1, <1>2, <1>3 DEF Signs, GoodAsked
  <2>2. a.call = c /\ a.status = "signed" /\ a.signer = c.key /\ a.code = "none"
    OBVIOUS
  <2>3. c.shape.net \in CallNets => c.net = c.shape.net
    BY <1>1 DEF CallKept
  <2>4. AnswerKept(a, asked)
    BY <1>2, <1>3, <2>1, <2>2, <2>3 DEF AnswerKept, Signs
  <2>5. CallGoes
    BY <1>1, <1>3, <2>4 DEF CallGoes, Succeeds
  <2> QED BY <1>1, <2>5, CallOnly
<1>4. CASE asked[c.row].status = "approved" /\ Fails(c, "error")
  <2>. PICK code : code = "error"
    OBVIOUS
  <2>1. CallGoes
    BY <1>4, FailsGoes
  <2> QED BY <1>1, <2>1, CallOnly
<1>5. CASE asked[c.row].status # "approved"
  <2>. PICK code : code = Refusal(asked[c.row])
    OBVIOUS
  <2>1. Fails(c, code)
    BY <1>5 DEF SignPolled
  <2>2. code # "-4" /\ (code = "user_rejected" => Rejected(c, asked))
    BY <1>1, <1>2, RowRefused DEF Signs
  <2>3. CallGoes
    BY <1>1, <2>1, <2>2, FailsGoes
  <2> QED BY <1>1, <2>3, CallOnly
<1> QED BY <1>3, <1>4, <1>5 DEF SignPolled

-----------------------------------------------------------------------------
\* The steps of the user, of the site and of the events.

LEMMA CallStays == ASSUME CallsKept, UNCHANGED <<call, answers>>, AskFollow(asked, asked') PROVE CallGoes
BY CallFollows DEF CallsKept, CallGoes

LEMMA DecideKeeps == ASSUME CallsKept, NEW r \in DOMAIN asked, Decide(r) PROVE CallsKept'
<1>1. PICK status \in {"approved", "rejected", "expired", "sign_failed"} :
        /\ asked[r].status = "awaiting_user"
        /\ status = "approved" /\ asked[r].kind = "sign" => pageActive.key = asked[r].key
        /\ asked' = [asked EXCEPT ![r].status = status,
                        ![r].signer = IF status = "approved" THEN pageActive.key ELSE NoKey]
        /\ UNCHANGED <<pageActive, grants, call, answers, broadcasts, listening, heard>>
  BY DEF Decide
<1>. PICK x : x = [asked[r] EXCEPT !.status = status,
                      !.signer = IF status = "approved" THEN pageActive.key ELSE NoKey]
  OBVIOUS
<1>. PICK rows, to : rows = asked /\ to = asked'
  OBVIOUS
<1>2. GoodAsked(rows) /\ r \in DOMAIN rows
  BY DEF CallsKept
<1>3. /\ Shaped(x, AskedFields) /\ x.kind = rows[r].kind /\ x.origin = rows[r].origin
      /\ x.key = rows[r].key /\ x.net = rows[r].net /\ x.submit = rows[r].submit
      /\ x.status = status /\ (status = "approved" => x.signer = pageActive.key)
  BY <1>2 DEF GoodAsked, Shaped, AskedFields
<1>4. to = [rows EXCEPT ![r] = x]
  BY <1>1, <1>2
<1>5. /\ IsSeq(to) /\ DOMAIN to = DOMAIN rows
      /\ \A j \in DOMAIN rows : to[j] = IF j = r THEN x ELSE rows[j]
  <2>1. IsSeq(rows)
    BY <1>2 DEF GoodAsked
  <2>2. IsSeq(to)
    <3>1. PICK S : rows \in Seq(S)
      BY <2>1 DEF IsSeq
    <3>2. rows \in Seq(S \cup {x}) /\ r \in 1..Len(rows)
      BY <1>2, <3>1, SeqMonotonic, LenProperties
    <3>3. [rows EXCEPT ![r] = x] \in Seq(S \cup {x})
      BY <3>2, ExceptSeq
    <3> QED BY <1>4, <3>3 DEF IsSeq
  <2> QED BY <1>2, <1>4, <2>2
<1>6. GoodAsked(to)
  BY <1>1, <1>2, <1>3, <1>5 DEF GoodAsked, AskedStatuses
<1>7. AskFollow(rows, to)
  BY <1>1, <1>3, <1>5 DEF AskFollow
<1>8. CallGoes
  BY <1>1, <1>7, CallStays
<1> QED BY <1>1, <1>6, <1>7, <1>8, CallStep

LEMMA DisconnectKeeps == ASSUME CallsKept, NEW f \in Frames, Disconnect(f) PROVE CallsKept'
<1>1. /\ asked' = [r \in DOMAIN asked |->
                      IF asked[r].origin = OriginOf(f) /\ asked[r].status = "awaiting_user"
                      THEN [asked[r] EXCEPT !.status = "not_connected"] ELSE asked[r]]
      /\ grants' = grants \ {OriginOf(f)}
      /\ UNCHANGED <<pageActive, call, answers, broadcasts, listening, heard>>
  BY DEF Disconnect
<1>. PICK rows, to : rows = asked /\ to = asked'
  OBVIOUS
<1>2. /\ GoodAsked(rows) /\ DOMAIN to = DOMAIN rows
      /\ to = [r \in DOMAIN rows |-> to[r]]
      /\ \A r \in DOMAIN rows :
            \/ to[r] = rows[r]
            \/ rows[r].status = "awaiting_user" /\ to[r] = [rows[r] EXCEPT !.status = "not_connected"]
  BY <1>1 DEF CallsKept
<1>3. ASSUME NEW r \in DOMAIN rows
      PROVE  /\ Shaped(to[r], AskedFields) /\ to[r].status \in AskedStatuses
             /\ to[r].kind = "sign" /\ to[r].status = "approved" => to[r].signer = to[r].key
             /\ to[r].kind = rows[r].kind /\ to[r].origin = rows[r].origin /\ to[r].key = rows[r].key
             /\ to[r].net = rows[r].net /\ to[r].submit = rows[r].submit
             /\ rows[r].status # "awaiting_user" => to[r] = rows[r]
  <2>1. CASE to[r] = rows[r]
    BY <1>2, <2>1 DEF GoodAsked
  <2>2. CASE rows[r].status = "awaiting_user" /\ to[r] = [rows[r] EXCEPT !.status = "not_connected"]
    BY <1>2, <2>2 DEF GoodAsked, AskedStatuses, Shaped, AskedFields
  <2> QED BY <1>2, <2>1, <2>2
<1>4. IsSeq(to)
  <2>1. PICK S : rows \in Seq(S)
    BY <1>2 DEF GoodAsked, IsSeq
  <2>2. Len(rows) \in Nat /\ DOMAIN to = 1..Len(rows) /\ to = [r \in 1..Len(rows) |-> to[r]]
    BY <1>2, <2>1, LenProperties
  <2>. DEFINE T == {to[r] : r \in 1..Len(rows)}
  <2>3. to \in [1..Len(rows) -> T]
    BY <2>2
  <2>4. to \in Seq(T)
    BY <2>2, <2>3, SeqDef
  <2> QED BY <2>4 DEF IsSeq
<1>5. GoodAsked(to) /\ AskFollow(rows, to)
  BY <1>2, <1>3, <1>4 DEF GoodAsked, AskFollow
<1>6. CallGoes
  BY <1>1, <1>5, CallStays
<1> QED BY <1>1, <1>5, <1>6, CallStep

\* The events.
LEMMA EventStep ==
  ASSUME CallsKept, UNCHANGED <<grants, asked, call, answers>>, EventsKept' PROVE CallsKept'
BY DEF CallsKept

LEMMA ActiveChangesKeeps == ASSUME CallsKept, ActiveChanges PROVE CallsKept'
<1>1. /\ EventsKept /\ UNCHANGED <<grants, asked, call, answers, heard>>
      /\ pageActive' \in [key : PageKeys, net : CallNets]
      /\ listening' = [listening EXCEPT !.oneByOne = @ /\ broadcasts = {}]
      /\ broadcasts' = broadcasts
            \cup (IF listening = Silent THEN {} ELSE {Broadcast("accountChanged", "unread")})
            \cup (IF listening = Silent \/ pageActive'.net = pageActive.net THEN {}
                  ELSE {Broadcast("networkChanged", pageActive'.net),
                        Broadcast("networkChanged", "unread")})
  BY DEF ActiveChanges, CallsKept
<1>2. Shaped(pageActive, {"key", "net"})'
  BY <1>1 DEF Shaped
<1>3. /\ Shaped(listening, {"listeners", "map", "oneByOne"})'
      /\ listening'.map = listening.map /\ listening'.listeners = listening.listeners
      /\ listening'.oneByOne <=> (listening.oneByOne /\ broadcasts = {})
  BY <1>1 DEF EventsKept, Shaped
<1>4. \A event, net : LET b == Broadcast(event, net)
                      IN /\ Shaped(b, {"event", "key", "net"})
                         /\ b.event = event /\ b.key = NoKey /\ b.net = net
  BY DEF Broadcast, Shaped
<1>5. CASE listening = Silent
  <2>1. listening' = Silent /\ broadcasts' = {} /\ heard' = NotHeard
    BY <1>1, <1>5 DEF EventsKept, Silent
  <2>2. EventsKept'
    BY <1>1, <1>2, <1>3, <2>1 DEF EventsKept
  <2> QED BY <1>1, <2>2, EventStep
<1>6. CASE listening # Silent
  <2>. PICK account, told, read :
         /\ account = Broadcast("accountChanged", "unread")
         /\ told = Broadcast("networkChanged", pageActive'.net)
         /\ read = Broadcast("networkChanged", "unread")
    OBVIOUS
  <2>1. /\ account \in broadcasts' /\ account.event = "accountChanged"
        /\ \A b \in broadcasts' : b \in broadcasts \/ b \in {account, told, read}
    BY <1>1, <1>4, <1>6
  <2>2. \A b \in {account, told, read} :
           /\ Shaped(b, {"event", "key", "net"})
           /\ b.key = NoKey /\ b.net \in {"unread", pageActive'.net}
    BY <1>4
  <2>3. AccountListener \in listening'.listeners
    BY <1>1, <1>3, <1>6 DEF EventsKept
  <2>4. \A b \in broadcasts' : Shaped(b, {"event", "key", "net"})
    BY <1>1, <2>1, <2>2 DEF EventsKept
  <2>5. ASSUME listening'.oneByOne
        PROVE  \A b \in broadcasts' : b.key \in {NoKey, pageActive'.key} /\ b.net \in {"unread", pageActive'.net}
    BY <1>3, <2>1, <2>2, <2>5
  <2>6. EventsKept'
    BY <1>1, <1>2, <1>3, <2>1, <2>3, <2>4, <2>5 DEF EventsKept
  <2> QED BY <1>1, <2>6, EventStep
<1> QED BY <1>5, <1>6

LEMMA ReadKeeps == ASSUME CallsKept, NEW b \in broadcasts, ReadForEvent(b) PROVE CallsKept'
<1>. PICK d : d = IF b.event = "networkChanged" /\ b.net = "unread" THEN [b EXCEPT !.net = pageActive.net]
                  ELSE IF b.key = NoKey THEN [b EXCEPT !.key = pageActive.key]
                  ELSE [b EXCEPT !.net = pageActive.net]
  OBVIOUS
<1>1. /\ EventsKept /\ broadcasts' = (broadcasts \ {b}) \cup {d}
      /\ UNCHANGED <<pageActive, grants, asked, call, answers, listening, heard>>
  BY DEF ReadForEvent, CallsKept
<1>2. /\ Shaped(d, {"event", "key", "net"}) /\ d.event = b.event
      /\ d.key \in {b.key, pageActive.key} /\ d.net \in {b.net, pageActive.net}
  BY <1>1 DEF EventsKept, Shaped
<1>3. AccountListener \in listening.listeners
  BY <1>1 DEF EventsKept
<1>4. EventsKept'
  BY <1>1, <1>2, <1>3 DEF EventsKept
<1> QED BY <1>1, <1>4, EventStep

LEMMA DeliverKeeps == ASSUME CallsKept, NEW b \in broadcasts, DeliverEvent(b) PROVE CallsKept'
<1>1. /\ EventsKept /\ broadcasts' = broadcasts \ {b} /\ b.key # NoKey /\ b.net # "unread"
      /\ UNCHANGED <<pageActive, grants, asked, call, answers, listening>>
      /\ heard' = IF \E l \in listening.listeners : l[1] = b.event
                  THEN [key |-> b.key, net |-> b.net] ELSE heard
  BY DEF DeliverEvent, CallsKept
<1>2. AccountListener \in listening.listeners
  BY <1>1 DEF EventsKept
<1>3. b.event = "accountChanged" => heard' = [key |-> b.key, net |-> b.net]
  BY <1>1, <1>2 DEF AccountListener
<1>4. ASSUME listening.oneByOne, heard' # heard \/ b.event = "accountChanged" PROVE heard' = pageActive
  <2>1. heard' = [key |-> b.key, net |-> b.net]
    BY <1>1, <1>3, <1>4
  <2>2. b.key = pageActive.key /\ b.net = pageActive.net
    BY <1>1, <1>4 DEF EventsKept
  <2>3. pageActive = [key |-> pageActive.key, net |-> pageActive.net]
    BY <1>1 DEF EventsKept, Shaped
  <2> QED BY <2>1, <2>2, <2>3
<1>5. EventsKept'
  BY <1>1, <1>2, <1>4 DEF EventsKept
<1> QED BY <1>1, <1>5, EventStep

LEMMA ListenKeeps ==
  ASSUME CallsKept, OnChange \/ \E event \in {"accountChanged", "networkChanged"} : Off(event)
  PROVE  CallsKept'
<1>1. EventsKept /\ UNCHANGED <<pageActive, grants, asked, call, answers, broadcasts, heard>>
  BY DEF CallsKept, OnChange, Off
<1>2. CASE OnChange
  <2>1. /\ listening = Silent
        /\ listening' = [listening EXCEPT !.map = 2, !.listeners = {AccountListener, NetListener}]
    BY <1>2 DEF OnChange, AccountListener, NetListener
  <2>2. /\ Shaped(listening, {"listeners", "map", "oneByOne"})' /\ listening'.map = 2
        /\ listening'.listeners = {AccountListener, NetListener}
        /\ listening'.oneByOne = listening.oneByOne
    BY <2>1 DEF Silent, Shaped
  <2>3. EventsKept'
    BY <1>1, <2>1, <2>2 DEF EventsKept
  <2> QED BY <1>1, <2>3, EventStep
<1>3. ASSUME NEW event \in {"accountChanged", "networkChanged"}, Off(event) PROVE CallsKept'
  <2>. PICK left : left = listening.listeners \ {<<event, listening.map>>}
    OBVIOUS
  <2>1. /\ listening.map = 2 /\ listening' = [listening EXCEPT !.listeners = left, !.map = 0]
    BY <1>1, <1>3 DEF Off, EventsKept
  <2>2. AccountListener \in listening.listeners
    BY <1>1, <2>1 DEF EventsKept, Silent
  <2>3. AccountListener # <<event, 2>>
    BY DEF AccountListener
  <2>4. AccountListener \in left /\ left \subseteq {AccountListener, NetListener}
    BY <1>1, <2>1, <2>2, <2>3 DEF EventsKept
  <2>5. /\ Shaped(listening, {"listeners", "map", "oneByOne"})' /\ listening'.map = 0
        /\ listening'.listeners = left /\ listening'.oneByOne = listening.oneByOne
    BY <1>1, <2>1 DEF EventsKept, Shaped
  <2>6. EventsKept'
    BY <1>1, <2>4, <2>5 DEF EventsKept
  <2> QED BY <1>1, <2>6, EventStep
<1> QED BY <1>2, <1>3

LEMMA CallsKeep == CallsKept /\ [PageCallsNext]_pageCallsVars => CallsKept'
<1>. SUFFICES ASSUME CallsKept, [PageCallsNext]_pageCallsVars PROVE CallsKept'
  OBVIOUS
<1>1. CASE UNCHANGED pageCallsVars
  BY <1>1 DEF pageCallsVars, CallsKept, EventsKept
<1>2. ASSUME NEW f \in Frames, NEW shape \in CallShapes, CallWallet(f, shape) PROVE CallsKept'
  BY <1>2, CallWalletKeeps
<1>3. ASSUME NEW f \in Frames, Disconnect(f) PROVE CallsKept'
  BY <1>3, DisconnectKeeps
<1>4. ASSUME NEW f \in Frames, NewDocument(f) PROVE CallsKept'
  BY <1>4 DEF NewDocument, CallsKept, EventsKept
<1>5. CASE NetAnswered \/ AskKey \/ ConnectPolled \/ SendSign \/ SignPolled \/ CallTimesOut
  BY <1>5, NetAnsweredKeeps, AskKeyKeeps, ConnectPolledKeeps, SendSignKeeps, SignPolledKeeps,
     TimesOutKeeps
<1>6. ASSUME NEW r \in DOMAIN asked, Decide(r) PROVE CallsKept'
  BY <1>6, DecideKeeps
<1>7. CASE ActiveChanges
  BY <1>7, ActiveChangesKeeps
<1>8. ASSUME NEW b \in broadcasts, ReadForEvent(b) \/ DeliverEvent(b) PROVE CallsKept'
  BY <1>8, ReadKeeps, DeliverKeeps
<1>9. CASE OnChange \/ \E event \in {"accountChanged", "networkChanged"} : Off(event)
  BY <1>9, ListenKeeps
<1> QED BY <1>1, <1>2, <1>3, <1>4, <1>5, <1>6, <1>7, <1>8, <1>9 DEF PageCallsNext

LEMMA CallsOnly == [UseNext]_useVars => [PageCallsNext]_pageCallsVars
BY DEF UseNext, useVars, Using

\* A page hears "signed", an address or a refusal only of what its user did with a
\* request of its own origin, for the account and the network it is told; a page that
\* listens has what is active once all events have come (dapp/handlers.ts, sep0043.ts).
THEOREM PagesAnswered == UseSpec => []PageIsAnswered
<1>1. UseInit => CallsKept
  BY CallsStart DEF UseInit
<1>2. CallsKept /\ [UseNext]_useVars => CallsKept'
  BY CallsOnly, CallsKeep
<1>3. CallsKept => PageIsAnswered
  BY PageAnswered
<1> QED BY <1>1, <1>2, <1>3, PTL DEF UseSpec

-----------------------------------------------------------------------------
\* All of these: each part keeps its promise in every behaviour, the one that exercises
\* it among them.
THEOREM UseAsShown == UseSpec => []UseIsAsShown
<1>1. /\ PreviewIsOfTheField /\ SignedQuoteIsShown /\ SwapPaysAsShown
      /\ ReviewedIsPrepared /\ SetupIsNamed /\ KeySignsItsEntry /\ SignersAreListed
      /\ SetupOnlyWhenEmpty /\ CallbackIsTrue /\ PageIsAnswered /\ ButtonOpensTheWallet
      /\ IconIsOfItsNetwork /\ ListIsRecent /\ AnswerHasThePrices
      => UseIsAsShown
  BY DEF UseIsAsShown
<1> QED BY <1>1, SetupNeedsAnEmptyWallet, SignersListed, ReviewedAsPrepared, IconsFit, QuotesFit,
           PricesAnswered, ButtonIsRight, SwapsPay, CallbacksTrue, PagesAnswered, PTL
=============================================================================
