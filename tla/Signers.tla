------------------------------ MODULE Signers -------------------------------
(***************************************************************************)
(* The backup passkeys of a wallet (background/signers, ui/signers): a     *)
(* second credential is attached, authorized on chain by the first, and    *)
(* confirmed for recovery; or revoked and forgotten.  The jobs run in the  *)
(* worker while the popup that asked closes, transactions settle late, and *)
(* the worker may stop between two steps.                                  *)
(***************************************************************************)
EXTENDS Naturals, FiniteSets

CONSTANTS Backups,        \* credentials of backup passkeys
          MaxJobs,        \* jobs under way at a time
          ConfirmTries,   \* attempts of one confirmation
          MaxJobStops     \* stops of the worker

ASSUME SignersAssumption ==
    /\ IsFiniteSet(Backups)
    /\ {MaxJobs, MaxJobStops} \subseteq Nat /\ ConfirmTries \in Nat \ {0}

VARIABLES
    signers,    \* [credential -> what this device has recorded of it]
    chain,      \* what the network and the backend know
    signerJobs, \* EXECUTE_ADD_BACKUP_SIGNER and EXECUTE_REMOVE_ACCOUNT_SIGNER under way
    desk,       \* the signers screens
    jobStops

signersVars == <<signers, chain, signerJobs, desk, jobStops>>

Unlisted == [status |-> "none", hash |-> FALSE]
Listed(status, hash) == [status |-> status, hash |-> hash]

SignersInit ==
    /\ signers = [c \in Backups |-> Unlisted]
    /\ chain = [rule |-> {}, index |-> {}, sent |-> {}, added |-> {}, proved |-> FALSE]
    /\ signerJobs = {} /\ jobStops = 0
    /\ desk = [at |-> "list", busy |-> FALSE, retry |-> {}]

(* upsertAccountSignerRecord: the whole record, its hash included.         *)
Record(c, rec) == signers' = [signers EXCEPT ![c] = rec]

-----------------------------------------------------------------------------
(* A job of the worker.                                                    *)

Job(kind, c, at) == [kind |-> kind, cred |-> c, at |-> at, tries |-> 0]

JobMoves(j, at) == signerJobs' = (signerJobs \ {j}) \cup {[j EXCEPT !.at = at]}

(* finishOutcome and the answer to the screen, if it still waits: a job    *)
(* refused for want of proof may be run again once the passkey is proved.  *)
JobEnds(j, code) ==
    /\ signerJobs' = signerJobs \ {j}
    /\ desk' = [desk EXCEPT !.busy = FALSE,
                            !.retry = IF code = "signer_not_proved" /\ desk.busy /\ j.kind # "add"
                                      THEN {<<j.kind, j.cred>>} ELSE @]

(* add-signer and remove-signer: what the backend builds for a session     *)
(* that has proved its passkey.  One backup is all it adds, and it removes *)
(* only a signer whose id a confirmation recorded.                         *)
JobBuilds(j) ==
    /\ j.at = "build"
    /\ \/ /\ ~chain.proved /\ JobEnds(j, "signer_not_proved") /\ UNCHANGED signers
       \/ /\ chain.proved /\ j.kind = "add" /\ j.cred \in chain.rule
          /\ JobEnds(j, "already_configured") /\ Record(j.cred, Listed("onchain", FALSE))
       \/ /\ chain.proved
          /\ IF j.kind = "add" THEN chain.rule \ {j.cred} # {} ELSE j.cred \notin chain.index
          /\ JobEnds(j, "refused") /\ UNCHANGED signers
       \/ /\ chain.proved
          /\ IF j.kind = "add" THEN chain.rule = {} ELSE j.cred \in chain.index
          /\ JobMoves(j, "sign") /\ UNCHANGED <<signers, desk>>
    /\ UNCHANGED <<chain, jobStops>>

(* signAndSubmitBuiltTxInBackground: the transaction is sent and its hash  *)
(* known, or it may have been sent, or it was not signed.                  *)
JobSigns(j) ==
    /\ j.at = "sign"
    /\ \/ /\ chain' = [chain EXCEPT !.sent = @ \cup {<<j.kind, j.cred>>}]
          /\ \/ JobMoves(j, IF j.kind = "add" THEN "keep" ELSE "confirm") /\ UNCHANGED desk
             \/ JobEnds(j, "signer_confirm_missing_hash")
       \/ JobEnds(j, "not_signed") /\ UNCHANGED chain
    /\ UNCHANGED <<signers, jobStops>>

(* Before confirming, the hash is kept for Finish setup.                   *)
JobKeepsHash(j) ==
    /\ j.at = "keep" /\ Record(j.cred, Listed("pending", TRUE)) /\ JobMoves(j, "confirm")
    /\ UNCHANGED <<chain, desk, jobStops>>

(* What the backend finds of the transaction when it fetches it again.     *)
Settled(j) == IF j.kind = "remove" THEN j.cred \notin chain.rule ELSE j.cred \in chain.added

(* confirmWithSettlementRetry.  The backend may have confirmed and its     *)
(* answer be lost, or fail to write its index.                             *)
JobConfirms(j) ==
    /\ j.at = "confirm"
    /\ \/ /\ Settled(j)
          /\ chain' = [chain EXCEPT !.index = IF j.kind = "remove" THEN @ \ {j.cred}
                                              ELSE @ \cup {j.cred}]
          /\ \/ JobMoves(j, "record") /\ UNCHANGED desk
             \/ JobEnds(j, "lost")
       \/ /\ ~Settled(j) /\ j.tries + 1 < ConfirmTries
          /\ signerJobs' = (signerJobs \ {j}) \cup {[j EXCEPT !.tries = @ + 1]}
          /\ UNCHANGED <<chain, desk>>
       \/ /\ ~Settled(j) /\ j.tries + 1 = ConfirmTries
          /\ JobEnds(j, "validation_error") /\ UNCHANGED chain
       \/ JobEnds(j, "signer_added_index_failed") /\ UNCHANGED chain
    /\ UNCHANGED <<signers, jobStops>>

JobRecords(j) ==
    /\ j.at = "record"
    /\ Record(j.cred, IF j.kind = "remove" THEN Unlisted ELSE Listed("onchain", FALSE))
    /\ JobEnds(j, "ok")
    /\ UNCHANGED <<chain, jobStops>>

SignerJobMoves(j) ==
    JobBuilds(j) \/ JobSigns(j) \/ JobKeepsHash(j) \/ JobConfirms(j) \/ JobRecords(j)

(* A transaction is included, or it never is.                              *)
SettlesOnChain(tx) ==
    /\ tx \in chain.sent
    /\ \E included \in BOOLEAN :
          chain' = [chain EXCEPT
              !.sent = @ \ {tx},
              !.rule = IF ~included THEN @ ELSE IF tx[1] = "add" THEN @ \cup {tx[2]} ELSE @ \ {tx[2]},
              !.added = IF included /\ tx[1] = "add" THEN @ \cup {tx[2]} ELSE @]
    /\ UNCHANGED <<signers, signerJobs, desk, jobStops>>

SignerWorkerStops ==
    /\ jobStops < MaxJobStops /\ signerJobs # {}
    /\ jobStops' = jobStops + 1 /\ signerJobs' = {}
    /\ desk' = [desk EXCEPT !.busy = FALSE]
    /\ UNCHANGED <<signers, chain>>

-----------------------------------------------------------------------------
(* The screens.                                                            *)

Starts(job) ==
    /\ Cardinality(signerJobs) < MaxJobs /\ job \notin signerJobs
    /\ signerJobs' = signerJobs \cup {job}

(* The passkey is created and attached: recorded as pending, authorized by *)
(* nothing yet; and its job starts at once.                                *)
AddBackup(c) ==
    /\ desk.at = "adding" /\ ~desk.busy /\ chain.proved /\ signers[c] = Unlisted
    /\ c \notin chain.added /\ \A tx \in chain.sent : tx[2] # c
    /\ Record(c, Listed("pending", FALSE))
    /\ Starts(Job("add", c, "build")) /\ desk' = [desk EXCEPT !.busy = TRUE]
    /\ UNCHANGED <<chain, jobStops>>

(* Finish setup confirms what was sent, if its hash was kept.              *)
FinishSetup(c) ==
    /\ desk.at = "list" /\ ~desk.busy /\ signers[c].status = "pending" /\ signers[c].hash
    /\ Starts(Job("finish", c, "confirm")) /\ desk' = [desk EXCEPT !.busy = TRUE]
    /\ UNCHANGED <<signers, chain, jobStops>>

RemoveSigner(c) ==
    /\ desk.at = "list" /\ ~desk.busy /\ signers[c] # Unlisted
    /\ Starts(Job("remove", c, "build")) /\ desk' = [desk EXCEPT !.busy = TRUE]
    /\ UNCHANGED <<signers, chain, jobStops>>

(* proveActiveSigner: what was refused is run again.                       *)
ProveActiveSigner ==
    /\ ~desk.busy /\ ~chain.proved
    /\ chain' = [chain EXCEPT !.proved = TRUE]
    /\ IF desk.at = "list" /\ desk.retry # {}
       THEN \E r \in desk.retry :
              /\ Starts(Job(r[1], r[2], IF r[1] = "remove" THEN "build" ELSE "confirm"))
              /\ desk' = [desk EXCEPT !.busy = TRUE, !.retry = {}]
       ELSE UNCHANGED <<signerJobs, desk>>
    /\ UNCHANGED <<signers, jobStops>>

(* The session's proof ends with the session.                              *)
ProofEnds ==
    /\ chain.proved /\ chain' = [chain EXCEPT !.proved = FALSE]
    /\ UNCHANGED <<signers, signerJobs, desk, jobStops>>

GoToSigners(at) ==
    /\ ~desk.busy /\ desk.at # at /\ desk' = [desk EXCEPT !.at = at]
    /\ UNCHANGED <<signers, chain, signerJobs, jobStops>>

(* The popup closes, as it does for every ceremony, and is opened again on *)
(* a screen that is not busy: the job goes on.                             *)
PopupReopens ==
    /\ desk.busy /\ desk' = [at |-> "list", busy |-> FALSE, retry |-> {}]
    /\ UNCHANGED <<signers, chain, signerJobs, jobStops>>

SignersNext ==
    \/ \E j \in signerJobs : SignerJobMoves(j)
    \/ \E tx \in chain.sent : SettlesOnChain(tx)
    \/ \E c \in Backups : AddBackup(c) \/ FinishSetup(c) \/ RemoveSigner(c)
    \/ SignerWorkerStops \/ ProveActiveSigner \/ ProofEnds \/ PopupReopens
    \/ \E at \in {"list", "adding"} : GoToSigners(at)

SignersTypeOK ==
    /\ signers \in [Backups -> [status : {"none", "pending", "onchain"}, hash : BOOLEAN]]
    /\ chain.rule \subseteq Backups /\ chain.index \subseteq Backups
    /\ Cardinality(signerJobs) <= MaxJobs /\ jobStops \in 0..MaxJobStops

(* A passkey this device added stays on its list while it can sign, or may *)
(* come to: a record is dropped only once the removal has settled, however *)
(* jobs overlap, answers are lost or the worker stops (removeAccountSigner,*)
(* addBackupSigner).  And it is listed as set up only if it got on chain.  *)
SignersAreListed ==
    \A c \in Backups :
        /\ c \in chain.rule \/ <<"add", c>> \in chain.sent => signers[c] # Unlisted
        /\ signers[c].status = "onchain" => c \in chain.added
=============================================================================
