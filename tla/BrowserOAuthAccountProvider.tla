---------------------- MODULE BrowserOAuthAccountProvider ----------------------
(***************************************************************************)
(* One browser account: sign-ins, sign-outs and the recovery of a stored   *)
(* session, each on a thread of its own with a monitor beside it.  Every   *)
(* step is one critical section of the provider's Mutex, one call out of   *)
(* it, or one claim of an operation's terminal.  The durable transaction   *)
(* is its outcome (its module has the steps), the broker whether it serves *)
(* the account, the store its record.                                      *)
(***************************************************************************)
EXTENDS Naturals, FiniteSets

CONSTANTS SignIns, SignOuts,   \* bound: the operations ever started
          Stoppable,           \* bound: those that are cancelled or overdue
          Faulty,              \* BOOLEAN: store, issuer and broker may fail
          Recovers             \* BOOLEAN: there is a recovery

Calls == SignIns \cup SignOuts
Nobody == "nobody"
Earlier == "earlier"           \* the session a stored record may be from
NoRecord == [revision |-> 0, by |-> Nobody]
Busy == {"Authorizing", "Refreshing", "Revoking"}

VARIABLES account,    \* SessionEpoch, Status, ActiveOperations and the flags
          op,         \* the operations
          recovery,   \* the recovery thread
          store,      \* the account's record
          fenced      \* the broker's quarantine of the account

vars == <<account, op, recovery, store, fenced>>

NewOp == [at |-> "new", epoch |-> 0, was |-> "none", reason |-> "none", terminal |-> "none",
          report |-> "none", by |-> "none", outcome |-> "none", cut |-> FALSE, revision |-> 0]

Init ==
    /\ account = [epoch |-> 0, status |-> "SignedOut", confirmed |-> FALSE,
                  quarantined |-> FALSE, active |-> {}, shutdown |-> FALSE]
    /\ op = [o \in Calls |-> NewOp]
    /\ recovery = [at |-> "new", epoch |-> 0, found |-> "none", revision |-> 0,
                   cancelled |-> FALSE]
    /\ store \in {NoRecord, [revision |-> 1, by |-> Earlier]}
    /\ fenced = FALSE

Failures == IF Faulty THEN BOOLEAN ELSE {FALSE}
Running(o) == op[o].at \notin {"new", "read", "refused", "over"}
SignInPhysicalCount == Cardinality({o \in SignIns : Running(o)})
SignOutPhysicalCount == Cardinality({o \in SignOuts : Running(o)})
bRecoveryInFlight == recovery.at \notin {"new", "over"}
IsEpochCurrent(o) == ~account.shutdown /\ account.epoch = op[o].epoch

GetStatus ==
    IF /\ account.quarantined \/ fenced
       /\ account.status \notin Busy
       /\ ~(account.status = "SignedOut" /\ account.confirmed)
    THEN "ReauthenticationRequired" ELSE account.status

Goes(o, place) == op' = [op EXCEPT ![o].at = place]
OnlyOp == UNCHANGED <<account, recovery, store, fenced>>

-----------------------------------------------------------------------------
(* An operation's terminal *)

FailureState(o) ==
    IF o \in SignOuts \/ op[o].was = "ReauthenticationRequired"
    THEN "ReauthenticationRequired" ELSE "Failed"
CancelledState(o) ==
    IF FailureState(o) = "Failed" THEN "SignedOut" ELSE FailureState(o)

\* PublishTerminal up to its report; the first claim wins.
Claims(o, x, kind, state, who) ==
    IF x.terminal # "none" THEN x
    ELSE [x EXCEPT !.terminal = kind, !.report = state, !.by = who]

PublishFailed(o, x) == Claims(o, x, "Failed", FailureState(o), "run")

Stopped(o) == op[o].terminal # "none" \/ op[o].reason # "none"

ObserveLogicalTerminal(o, x, who) ==
    IF x.reason = "none" THEN x
    ELSE Claims(o, x, x.reason,
                IF x.reason = "TimedOut" THEN FailureState(o) ELSE CancelledState(o), who)

\* The caller's token or handle, or the deadline.
Interrupt(o, reason) ==
    /\ o \in Stoppable /\ Running(o) /\ op[o].reason = "none"
    /\ op' = [op EXCEPT ![o].reason = reason]
    /\ OnlyOp

\* The monitor, and any thread inside Cancel.
Monitor(o) ==
    /\ op[o].reason # "none" /\ op[o].terminal = "none"
    /\ op' = [op EXCEPT ![o] = ObserveLogicalTerminal(o, @, "monitor")]
    /\ OnlyOp

\* The status follows only the operation of the current epoch.
OnOperationTerminal(o) ==
    /\ op[o].report # "none"
    /\ account' =
          [account EXCEPT
              !.active = @ \ {o},
              !.status = IF IsEpochCurrent(o) THEN op[o].report ELSE @,
              !.confirmed = IF IsEpochCurrent(o) THEN
                               @ /\ op[o].report = "SignedOut" /\ op[o].terminal = "Succeeded"
                            ELSE @]
    /\ op' = [op EXCEPT ![o].report = "none"]
    /\ UNCHANGED <<recovery, store, fenced>>

-----------------------------------------------------------------------------
(* Starting operations *)

\* StartSignIn looks at the effective status before it takes the lock.
ReadStatus(o) ==
    /\ o \in SignIns /\ op[o].at = "new"
    /\ op' = [op EXCEPT ![o].was = GetStatus,
                        ![o].at = IF GetStatus \in Busy \cup {"Ready"} THEN "refused" ELSE "read"]
    /\ OnlyOp

Begin(o, status) ==
    /\ account' = [account EXCEPT !.epoch = @ + 1, !.status = status, !.confirmed = FALSE,
                                  !.active = @ \cup {o}]
    /\ op' = [op EXCEPT ![o].epoch = account.epoch + 1,
                        ![o].at = IF o \in SignIns THEN "starting" ELSE "invalidating"]

StartSignIn(o) ==
    /\ op[o].at = "read"
    /\ UNCHANGED <<recovery, store, fenced>>
    /\ IF \/ account.shutdown \/ bRecoveryInFlight
          \/ SignOutPhysicalCount # 0 \/ SignInPhysicalCount # 0
          \/ account.status \in Busy
          \/ account.status = "Ready" /\ op[o].was # "ReauthenticationRequired"
       THEN Goes(o, "refused") /\ UNCHANGED account
       ELSE Begin(o, "Authorizing")

StartSignOut(o) ==
    /\ o \in SignOuts /\ op[o].at = "new"
    /\ UNCHANGED <<recovery, store, fenced>>
    /\ IF account.shutdown \/ SignOutPhysicalCount # 0
       THEN Goes(o, "refused") /\ UNCHANGED account
       ELSE Begin(o, "Revoking")

\* The rest of StartSignOut, out of the lock: the recovery is cancelled, the
\* transactions are fenced, the sign-ins cancelled, the broker quarantined.
SignOutInvalidates(o) ==
    /\ op[o].at = "invalidating"
    /\ recovery' = [recovery EXCEPT !.cancelled = @ \/ bRecoveryInFlight]
    /\ op' = [p \in Calls |->
                 IF p = o THEN [op[o] EXCEPT !.at = "cancelling"]
                 ELSE [op[p] EXCEPT !.cut = @ \/ op[p].at = "transacting"]]
    /\ UNCHANGED <<account, store, fenced>>

Cancelled(p) ==
    IF p \in account.active /\ op[p].reason = "none"
    THEN [op[p] EXCEPT !.reason = "Cancelled"] ELSE op[p]

SignOutCancels(o) ==
    /\ op[o].at = "cancelling"
    /\ op' = [p \in Calls |-> IF p = o THEN [op[o] EXCEPT !.at = "quarantining"]
                            ELSE Cancelled(p)]
    /\ OnlyOp

\* A quarantine does nothing once the provider has let its broker go.
Quarantined == fenced \/ ~account.shutdown

SignOutQuarantines(o) ==
    /\ op[o].at = "quarantining"
    /\ fenced' = TRUE
    /\ Goes(o, "settling")
    /\ UNCHANGED <<account, recovery, store>>

BeginShutdown ==
    /\ ~account.shutdown
    /\ account' = [account EXCEPT !.shutdown = TRUE, !.epoch = @ + 1, !.status = "SignedOut",
                                  !.confirmed = FALSE]
    /\ recovery' = [recovery EXCEPT !.cancelled = TRUE]
    /\ op' = [o \in Calls |-> [Cancelled(o) EXCEPT !.cut = @ \/ op[o].at = "transacting"]]
    /\ fenced' = TRUE
    /\ UNCHANGED store

-----------------------------------------------------------------------------
(* RunSignIn *)

SignInStarts(o) ==
    /\ op[o].at = "starting"
    /\ op' = [op EXCEPT ![o] = [ObserveLogicalTerminal(o, @, "run") EXCEPT
                 !.at = IF Stopped(o) \/ ~IsEpochCurrent(o) THEN "ending" ELSE "entering"]]
    /\ OnlyOp

EnterTransaction(o) == op[o].at = "entering" /\ Goes(o, "transacting") /\ OnlyOp

\* AuthorizeAndCommit succeeds: the grant is the account's record.
Commit(o) ==
    /\ op[o].at = "transacting" /\ ~op[o].cut /\ op[o].reason = "none"
    /\ store' = [revision |-> store.revision + 1, by |-> o]
    /\ op' = [op EXCEPT ![o].at = "committed", ![o].revision = store.revision + 1]
    /\ UNCHANGED <<account, recovery, fenced>>

\* It fails before its store, or after it and takes its record back, or - with
\* AuthPersistenceFailed - leaves it there.
TransactionFails(o, left) ==
    /\ op[o].at = "transacting"
    /\ store' = CASE left = "nothing" -> store
                  [] left = "taken back" -> NoRecord
                  [] left = "uncertain" -> [revision |-> store.revision + 1, by |-> o]
    /\ op' = [op EXCEPT ![o] =
                 [IF Stopped(o) THEN ObserveLogicalTerminal(o, @, "run")
                  ELSE IF IsEpochCurrent(o) THEN PublishFailed(o, @) ELSE @
                  EXCEPT !.at = "ending", !.outcome = left]]
    /\ UNCHANGED <<account, recovery, fenced>>

\* Mutant: an operation that ended meanwhile just ends.
AfterCommitEnds(o) ==
    /\ op[o].at = "committed"
    /\ op' = [op EXCEPT ![o] = [IF IsEpochCurrent(o) THEN ObserveLogicalTerminal(o, @, "run") ELSE @
                 EXCEPT !.at = IF ~IsEpochCurrent(o) \/ Stopped(o) THEN "ending" ELSE "verifying"]]
    /\ OnlyOp

\* A stale epoch leaves the record to the sign-out that made it stale; an
\* operation that ended meanwhile takes it back itself.
AfterCommit(o) ==
    /\ op[o].at = "committed"
    /\ op' = [op EXCEPT ![o] = [IF IsEpochCurrent(o) THEN ObserveLogicalTerminal(o, @, "run") ELSE @
                 EXCEPT !.at = IF ~IsEpochCurrent(o) THEN "ending"
                               ELSE IF Stopped(o) THEN "fencing" ELSE "verifying"]]
    /\ OnlyOp

\* NotifyCredentialReplaced reads the record back, then lifts the quarantine.
VerifyReplacement(o, fails) ==
    /\ op[o].at = "verifying"
    /\ Goes(o, IF fails \/ op[o].reason # "none" \/ store.revision # op[o].revision
               THEN "unreplaced" ELSE "lifting")
    /\ OnlyOp

LiftQuarantine(o) ==
    /\ op[o].at = "lifting"
    /\ fenced' = FALSE
    /\ Goes(o, "lifted")
    /\ UNCHANGED <<account, recovery, store>>

\* It failed: quarantine, and clean up unless the epoch is stale.
Unreplaced(o) ==
    /\ op[o].at = "unreplaced"
    /\ fenced' = TRUE
    /\ Goes(o, IF IsEpochCurrent(o) THEN "loading" ELSE "ending")
    /\ UNCHANGED <<account, recovery, store>>

AfterReplacement(o) ==
    /\ op[o].at = "lifted"
    /\ op' = [op EXCEPT ![o] = [IF IsEpochCurrent(o) THEN ObserveLogicalTerminal(o, @, "run") ELSE @
                 EXCEPT !.at = IF ~IsEpochCurrent(o) THEN "ending"
                               ELSE IF Stopped(o) THEN "fencing" ELSE "claiming"]]
    /\ OnlyOp

\* Mutant: only the epoch decides.
ClaimSuccessLate(o) ==
    /\ op[o].at = "claiming"
    /\ UNCHANGED <<recovery, store, fenced>>
    /\ IF IsEpochCurrent(o)
       THEN /\ account' = [account EXCEPT !.status = "Ready", !.confirmed = FALSE,
                                          !.quarantined = FALSE, !.active = @ \ {o}]
            /\ op' = [op EXCEPT ![o] = [Claims(o, @, "Succeeded", "Ready", "run")
                                        EXCEPT !.at = "ending"]]
       ELSE /\ Goes(o, "ending")
            /\ UNCHANGED account

\* Under the Mutex: the terminal and the epoch decide together.
ClaimSuccess(o) ==
    /\ op[o].at = "claiming"
    /\ UNCHANGED <<recovery, store, fenced>>
    /\ IF IsEpochCurrent(o) /\ op[o].terminal = "none"
       THEN /\ account' = [account EXCEPT !.status = "Ready", !.confirmed = FALSE,
                                          !.quarantined = FALSE, !.active = @ \ {o}]
            /\ op' = [op EXCEPT ![o] = [Claims(o, @, "Succeeded", "Ready", "run")
                                        EXCEPT !.at = "ending"]]
       ELSE /\ Goes(o, IF IsEpochCurrent(o) THEN "fencing" ELSE "ending")
            /\ UNCHANGED account

\* QuarantineBroker before a clean-up.
Fence(o) ==
    /\ op[o].at = "fencing"
    /\ fenced' = Quarantined
    /\ Goes(o, "loading")
    /\ UNCHANGED <<account, recovery, store>>

-----------------------------------------------------------------------------
(* CleanupStoredAccount: load, revoke, delete the exact revision. *)

\* What the caller does with the answer; a sign-in fails if nobody ended it.
Cleaned(o, well) ==
    IF o \in SignOuts THEN [op[o] EXCEPT !.at = IF well THEN "finishing" ELSE "giving up"]
    ELSE [PublishFailed(o, ObserveLogicalTerminal(o, op[o], "run")) EXCEPT !.at = "ending"]

\* Mutant: a store that does not answer is taken for an empty one.
CleanupLoadsTrusting(o, fails) ==
    /\ op[o].at = "loading"
    /\ op' = [op EXCEPT ![o] =
                 IF fails \/ store = NoRecord THEN Cleaned(o, TRUE)
                 ELSE [@ EXCEPT !.at = "revoking", !.revision = store.revision]]
    /\ OnlyOp

CleanupLoads(o, fails) ==
    /\ op[o].at = "loading"
    /\ op' = [op EXCEPT ![o] =
                 IF fails THEN Cleaned(o, FALSE)
                 ELSE IF store = NoRecord THEN Cleaned(o, TRUE)
                 ELSE [@ EXCEPT !.at = "revoking", !.revision = store.revision]]
    /\ OnlyOp

CleanupRevokes(o, fails) ==
    /\ op[o].at = "revoking"
    /\ op' = [op EXCEPT ![o] = IF fails THEN Cleaned(o, FALSE) ELSE [@ EXCEPT !.at = "deleting"]]
    /\ OnlyOp

\* A delete whose answer is lost may have been done.
CleanupDeletes(o, fails, done) ==
    /\ op[o].at = "deleting"
    /\ done \/ fails
    /\ LET fits == store.revision = op[o].revision
       IN /\ store' = IF fits /\ done THEN NoRecord ELSE store
          /\ op' = [op EXCEPT ![o] = Cleaned(o, ~fails /\ (fits \/ store = NoRecord))]
    /\ UNCHANGED <<account, recovery, fenced>>

-----------------------------------------------------------------------------
(* RunSignOut *)

\* Mutant: waits for the recovery only.
SettledRecovery == ~bRecoveryInFlight

\* WaitForMutationSettlement
Settled == SignInPhysicalCount = 0 /\ ~bRecoveryInFlight

\* Bound: CleanupTimeoutSeconds passes only while another thread is inside a
\* call to the transaction, the store or the issuer.
Overdue ==
    \/ recovery.at \in {"loading", "verifying"}
    \/ \E o \in SignIns :
          op[o].at \in {"transacting", "verifying", "loading", "revoking", "deleting"}

\* Mutant: relies on the quarantine of StartSignOut.
SignOutSettlesUnfenced(o) ==
    /\ op[o].at = "settling"
    /\ IF Settled THEN Goes(o, "loading")
       ELSE (account.shutdown \/ Overdue) /\ Goes(o, "giving up")
    /\ OnlyOp

\* A shutdown ends the wait at once, the time for it otherwise.
SignOutSettles(o) ==
    /\ op[o].at = "settling"
    /\ IF Settled THEN Goes(o, "fencing")
       ELSE (account.shutdown \/ Overdue) /\ Goes(o, "giving up")
    /\ OnlyOp

\* SetReauthenticationRequiredIfCurrent, and the failure.
SignOutGivesUp(o) ==
    /\ op[o].at = "giving up"
    /\ account' = IF IsEpochCurrent(o)
                  THEN [account EXCEPT !.status = "ReauthenticationRequired",
                                       !.confirmed = FALSE, !.quarantined = TRUE]
                  ELSE account
    /\ op' = [op EXCEPT ![o] = [PublishFailed(o, @) EXCEPT !.at = "ending"]]
    /\ UNCHANGED <<recovery, store, fenced>>

SignOutFinishes(o) ==
    /\ op[o].at = "finishing"
    /\ account' = IF IsEpochCurrent(o)
                  THEN [account EXCEPT !.status = "SignedOut", !.confirmed = TRUE,
                                       !.quarantined = FALSE]
                  ELSE account
    /\ Goes(o, IF IsEpochCurrent(o) THEN "releasing" ELSE "ending")
    /\ UNCHANGED <<recovery, store, fenced>>

\* The broker's InvalidateAccount cancels what it serves; the quarantine stays.
SignOutReleases(o) ==
    /\ op[o].at = "releasing"
    /\ op' = [op EXCEPT ![o] = [Claims(o, @, "Succeeded", "SignedOut", "run")
                                EXCEPT !.at = "ending"]]
    /\ OnlyOp

\* A thread ends once the report it owes is made.
OnPhysicalOperationComplete(o) ==
    /\ op[o].at = "ending" /\ ~(op[o].by = "run" /\ op[o].report # "none")
    /\ Goes(o, "over")
    /\ OnlyOp

-----------------------------------------------------------------------------
(* The recovery of a stored session *)

\* The composition root starts it before anyone else has the provider.
StartStoredSessionRecovery ==
    /\ account.epoch = 0
    /\ Recovers /\ recovery.at = "new" /\ ~account.shutdown
    /\ SignOutPhysicalCount = 0 /\ SignInPhysicalCount = 0
    /\ recovery' = [recovery EXCEPT !.at = "loading", !.epoch = account.epoch]
    /\ account' = [account EXCEPT !.status = "Refreshing", !.confirmed = FALSE]
    /\ UNCHANGED <<op, store, fenced>>

RecoveryLoads(found) ==
    /\ recovery.at = "loading"
    /\ (recovery.cancelled => found = "Failed")
    /\ found = "Ready" => store # NoRecord
    /\ found = "SignedOut" => store = NoRecord
    /\ recovery' = [recovery EXCEPT !.at = "checking", !.found = found,
                                    !.revision = store.revision]
    /\ UNCHANGED <<account, op, store, fenced>>

RecoveryCurrent ==
    ~account.shutdown /\ account.epoch = recovery.epoch /\ account.active = {}

RecoveryChecks ==
    /\ recovery.at = "checking"
    /\ recovery' = [recovery EXCEPT !.at = IF ~RecoveryCurrent THEN "over"
                                           ELSE IF recovery.found = "Ready" THEN "verifying"
                                           ELSE "publishing"]
    /\ UNCHANGED <<account, op, store, fenced>>

RecoveryVerifies(fails) ==
    /\ recovery.at = "verifying"
    /\ recovery' = IF fails \/ recovery.cancelled \/ store.revision # recovery.revision
                   THEN [recovery EXCEPT !.at = "publishing", !.found = "ReauthenticationRequired"]
                   ELSE [recovery EXCEPT !.at = "lifting"]
    /\ UNCHANGED <<account, op, store, fenced>>

RecoveryLifts ==
    /\ recovery.at = "lifting"
    /\ fenced' = FALSE
    /\ recovery' = [recovery EXCEPT !.at = "publishing"]
    /\ UNCHANGED <<account, op, store>>

\* A local quarantine outlives a recovery that found anything but nothing.
RecoveredState ==
    IF recovery.found # "SignedOut" /\ account.quarantined
    THEN "ReauthenticationRequired" ELSE recovery.found

RecoveryPublishes ==
    /\ recovery.at = "publishing"
    /\ UNCHANGED <<op, store, fenced>>
    /\ IF ~RecoveryCurrent
       THEN recovery' = [recovery EXCEPT !.at = "over"] /\ UNCHANGED account
       ELSE /\ recovery' = [recovery EXCEPT !.at = "telling", !.found = RecoveredState]
            /\ account' = [account EXCEPT !.status = RecoveredState,
                              !.confirmed = recovery.found = "SignedOut",
                              !.quarantined = RecoveredState = "ReauthenticationRequired"]

\* The broker hears of it after the lock: a quarantine, or an invalidation.
RecoveryTells ==
    /\ recovery.at = "telling"
    /\ fenced' = (fenced \/ recovery.found = "ReauthenticationRequired")
    /\ recovery' = [recovery EXCEPT !.at = "over"]
    /\ UNCHANGED <<account, op, store>>

-----------------------------------------------------------------------------
\* The broker rotates the record it serves.
Rotate ==
    /\ Faulty /\ ~fenced /\ store # NoRecord /\ store.revision < 3
    /\ store' = [store EXCEPT !.revision = @ + 1]
    /\ UNCHANGED <<account, op, recovery, fenced>>

Next ==
    \/ \E o \in Calls :
          \/ \E reason \in {"Cancelled", "TimedOut"} : Interrupt(o, reason)
          \/ Monitor(o) \/ OnOperationTerminal(o) \/ OnPhysicalOperationComplete(o)
          \/ Fence(o)
          \/ \E fails \in Failures :
                \/ VerifyReplacement(o, fails)
                \/ CleanupLoads(o, fails) \/ CleanupRevokes(o, fails)
                \/ \E done \in BOOLEAN : CleanupDeletes(o, fails, done)
    \/ \E o \in SignIns :
          \/ ReadStatus(o) \/ StartSignIn(o) \/ SignInStarts(o) \/ EnterTransaction(o)
          \/ Commit(o) \/ AfterCommit(o) \/ LiftQuarantine(o) \/ Unreplaced(o)
          \/ AfterReplacement(o) \/ ClaimSuccess(o)
          \/ \E left \in {"nothing", "taken back"}
                         \cup (IF Faulty THEN {"uncertain"} ELSE {}) : TransactionFails(o, left)
    \/ \E o \in SignOuts :
          \/ StartSignOut(o) \/ SignOutInvalidates(o) \/ SignOutCancels(o)
          \/ SignOutQuarantines(o) \/ SignOutSettles(o) \/ SignOutGivesUp(o)
          \/ SignOutFinishes(o) \/ SignOutReleases(o)
    \/ StartStoredSessionRecovery
    \/ \E found \in {"Ready", "SignedOut"}
                    \cup (IF Faulty THEN {"Failed", "ReauthenticationRequired"} ELSE {"Failed"}) :
          RecoveryLoads(found)
    \/ RecoveryChecks \/ \E fails \in Failures : RecoveryVerifies(fails)
    \/ RecoveryLifts \/ RecoveryPublishes \/ RecoveryTells
    \/ BeginShutdown \/ Rotate

Spec == Init /\ [][Next]_vars

-----------------------------------------------------------------------------
(* Properties *)

\* A signed-out status that claims to be confirmed is true: no sign-in that
\* was under way, no recovery and no later step puts a record back under it.
ConfirmedSignedOutIsEmpty ==
    account.status = "SignedOut" /\ account.confirmed => store = NoRecord

Owned == op[store.by].terminal = "Succeeded" \/ op[store.by].outcome = "uncertain"

\* A Ready account has a record, of an earlier session or of a sign-in that
\* was told it succeeded, or not told that it failed for certain.
ReadyIsOwned ==
    account.status = "Ready" => store # NoRecord /\ (store.by \in SignIns => Owned)

\* A sign-in that was not told it succeeded leaves no grant in use: once its
\* thread, every sign-out and a recovery have ended its record is gone or the broker is
\* quarantined, unless the store's answers were uncertain.
AbandonedGrantIsFenced ==
    store.by \in SignIns /\ ~account.shutdown =>
        \/ Owned
        \/ bRecoveryInFlight \/ \E o \in Calls : Running(o)
        \/ fenced

\* A sign-out that succeeds is final: no sign-in admitted before it leaves a
\* record after it.
SignOutOutlivesSignIns ==
    \A s \in SignOuts :
        op[s].terminal = "Succeeded" /\ store.by \in SignIns =>
            op[store.by].epoch > op[s].epoch

\* While a sign-out cleans up the broker serves nobody the account.
SignOutCleansFenced ==
    \A s \in SignOuts :
        op[s].at \in {"loading", "revoking", "deleting", "finishing"} => fenced \/ account.shutdown

=============================================================================
