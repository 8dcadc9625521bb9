---------------------- MODULE DeviceOAuthAccountProvider ----------------------
(***************************************************************************)
(* FUnrealAIDeviceOAuthAccountProvider: signs one account in and out.      *)
(* A sign-in runs the provider's device flow, stores the granted           *)
(* credential, has the credential broker verify it, and only then claims   *)
(* success; a sign-out quarantines the broker and deletes the record.      *)
(* Each operation has a run thread and a monitor thread, at most one run   *)
(* thread exists at a time, a recovery thread reads the record once, and   *)
(* the broker may be committing a refresh into the same record.            *)
(*                                                                         *)
(* One action is one section of the provider's mutex, one call of the      *)
(* store, driver or broker, or one compare-and-swap of a terminal guard.   *)
(***************************************************************************)
EXTENDS Naturals, Sequences, FiniteSets

CONSTANTS Ops,          \* operations, each started at most once
          NoOp,
          Interrupts,   \* bound: what ends an operation from outside
          Faults,       \* bound: secure-store calls that may fail or lose their answer
          Others,       \* bound: what else happens ("broker", "recovery", "shutdown")
          MaxInterrupts, \* bound: interrupted operations, a shutdown counting as one
          MaxRevision   \* bound: the broker stops rotating at this revision

ASSUME OpsAssumption == Ops \cap {NoOp, "old", "damaged", "none"} = {}

ASSUME BoundsAssumption == MaxRevision \in Nat /\ MaxInterrupts \in Nat

VARIABLES
    shutdown,           \* bShutdown
    sessionEpoch,       \* SessionEpoch
    status,             \* Status.State
    confirmedSignedOut, \* bConfirmedSignedOut
    localQuarantine,    \* bLocalReauthenticationQuarantine
    active,             \* ActiveOperations
    physical,           \* PhysicalOperationIds
    connected,          \* SetCredentialBroker was called
    brokerQuarantined,  \* the broker's quarantine of the account
    brokerCommit,       \* record a refresh of the broker loaded and has still to replace
    store,              \* secure-store record: revision and the grant it descends from
    recovery,           \* recovery thread
    recoveryEpoch,      \* SessionEpoch the recovery thread started with
    recovered,          \* state it read
    toTell,             \* BeginShutdown has still to quarantine the broker
    toCancel,           \* BeginShutdown has still to Cancel these operations
    kind,               \* EUnrealAIAuthOperationKind
    pc,                 \* run thread of an operation (and its caller before admission)
    operationEpoch,     \* OperationEpoch
    reauthentication,   \* bReauthentication, which fixes the state a failure leaves
    revision,           \* revision the operation loaded
    afterCleanUp,       \* where the run thread goes on after it cleaned up
    signal,             \* cancellation or deadline of the operation
    terminal,           \* FUnrealAITerminalGuard
    publisher,          \* thread inside PublishClaimedTerminal
    stage,              \* how far it has come
    pending,            \* PendingEvents
    drainer,            \* thread inside DrainQueuedEvents
    delivered,          \* history: the event the sink received last
    newest              \* history: the operation admitted last

accountVars  == <<shutdown, sessionEpoch, status, confirmedSignedOut, localQuarantine>>
tableVars    == <<active, physical, newest>>
brokerVars   == <<connected, brokerQuarantined, brokerCommit>>
recoveryVars == <<recovery, recoveryEpoch, recovered>>
shutdownVars == <<toTell, toCancel>>
requestVars  == <<kind, operationEpoch, reauthentication>>
runVars      == <<pc, revision, afterCleanUp>>
guardVars    == <<terminal, publisher, stage>>
eventVars    == <<pending, drainer, delivered>>
vars == <<accountVars, tableVars, brokerVars, store, recoveryVars, shutdownVars, requestVars,
          runVars, signal, guardVars, eventVars>>

States == {"SignedOut", "Authorizing", "Refreshing", "Revoking", "Ready", "Reauthenticate", "Failed"}
Transient == {"Authorizing", "Refreshing", "Revoking"}
Grants == Ops \cup {"old", "damaged", "none"}
Records == [rev : Nat, grant : Grants]
NoRecord == [rev |-> 0, grant |-> "none"]
Kinds == {"none", "SignIn", "SignOut"}
Terminals == {"none", "Succeeded", "Failed", "Cancelled", "TimedOut"}

CallerStates == {"idle", "evaluated", "refused", "admitted"}
SignInStates ==
    {"start", "authorize", "instructed", "authorized", "loaded", "loadFailed", "store", "stored", "verify",
     "lift", "rejected", "claim", "cleanUp", "reread", "discard", "fail", "failed"}
SignOutStates == {"load", "delete", "deleteFailed", "finish", "publish"}
RunStates == SignInStates \cup SignOutStates \cup {"exit"}

AccountTypes ==
    /\ shutdown \in BOOLEAN
    /\ sessionEpoch \in Nat
    /\ status \in States
    /\ confirmedSignedOut \in BOOLEAN
    /\ localQuarantine \in BOOLEAN
    /\ active \subseteq Ops
    /\ physical \subseteq Ops
    /\ newest \in Ops \cup {NoOp}

OutsideTypes ==
    /\ connected \in BOOLEAN
    /\ brokerQuarantined \in BOOLEAN
    /\ brokerCommit \in Records
    /\ store \in Records
    /\ recovery \in {"none", "load", "apply", "tell", "exit", "done"}
    /\ recoveryEpoch \in Nat
    /\ recovered \in States
    /\ toTell \in BOOLEAN
    /\ toCancel \subseteq Ops

OperationTypes ==
    /\ kind \in [Ops -> Kinds]
    /\ pc \in [Ops -> CallerStates \cup RunStates \cup {"done"}]
    /\ operationEpoch \in [Ops -> Nat]
    /\ reauthentication \in [Ops -> BOOLEAN]
    /\ revision \in [Ops -> Nat]
    /\ afterCleanUp \in [Ops -> {"exit", "fail", "failed"}]
    /\ signal \in [Ops -> {"none", "cancel", "timeout"}]

EventTypes ==
    /\ terminal \in [Ops -> Terminals]
    /\ publisher \in [Ops -> {"none", "run", "other"}]
    /\ stage \in [Ops -> {"none", "won", "settled"}]
    /\ pending \in [Ops -> Seq({"Interaction", "Terminal"})]
    /\ drainer \in [Ops -> {"none", "run", "other"}]
    /\ delivered \in [Ops -> {"none", "Interaction", "Terminal"}]

TypeOK == AccountTypes /\ OutsideTypes /\ OperationTypes /\ EventTypes

(* A session of an earlier run of the program may be in the store, damaged or not. *)
Init ==
    /\ shutdown = FALSE
    /\ sessionEpoch = 1
    /\ status = "SignedOut"
    /\ confirmedSignedOut = FALSE
    /\ localQuarantine = FALSE
    /\ active = {} /\ physical = {}
    /\ connected = FALSE
    /\ brokerQuarantined = FALSE
    /\ brokerCommit = NoRecord
    /\ store \in {NoRecord} \cup [rev : {1}, grant : {"old", "damaged"}]
    /\ recovery = "none" /\ recoveryEpoch = 0 /\ recovered = "SignedOut"
    /\ toTell = FALSE /\ toCancel = {}
    /\ kind = [o \in Ops |-> "none"]
    /\ pc = [o \in Ops |-> "idle"]
    /\ operationEpoch = [o \in Ops |-> 0]
    /\ reauthentication = [o \in Ops |-> FALSE]
    /\ revision = [o \in Ops |-> 0]
    /\ afterCleanUp = [o \in Ops |-> "exit"]
    /\ signal = [o \in Ops |-> "none"]
    /\ terminal = [o \in Ops |-> "none"]
    /\ publisher = [o \in Ops |-> "none"]
    /\ stage = [o \in Ops |-> "none"]
    /\ pending = [o \in Ops |-> <<>>]
    /\ drainer = [o \in Ops |-> "none"]
    /\ delivered = [o \in Ops |-> "none"]
    /\ newest = NoOp

-----------------------------------------------------------------------------
(* Helpers.                                                                   *)

(* Operations interrupted so far, a shutdown counting as one. *)
Interrupted == Cardinality({o \in Ops : signal[o] # "none"}) + (IF shutdown THEN 1 ELSE 0)

RecoveryInFlight == recovery \notin {"none", "done"}

(* Broker.Pin(): the provider lets go of the broker when it shuts down. *)
BrokerPinned == connected /\ ~shutdown

EpochCurrent(o) == ~shutdown /\ sessionEpoch = operationEpoch[o]

(* GetStatus: what callers are told. *)
EffectiveStatus ==
    IF /\ localQuarantine \/ (BrokerPinned /\ brokerQuarantined)
       /\ status \notin Transient
       /\ ~(status = "SignedOut" /\ confirmedSignedOut)
    THEN "Reauthenticate"
    ELSE status

(* Mutated: the kind of the terminal in place of the state it leaves. *)
TerminalKind(o, k) == k

(* The state each terminal leaves: CancelledState, FailureState or success. *)
TerminalState(o, k) ==
    IF k = "Succeeded" THEN IF kind[o] = "SignIn" THEN "Ready" ELSE "SignedOut"
    ELSE IF kind[o] = "SignOut" \/ reauthentication[o] THEN "Reauthenticate"
    ELSE IF k = "Cancelled" THEN "SignedOut" ELSE "Failed"

(* PublishTerminal up to its compare-and-swap; the winner goes on in later steps. *)
Publish(o, thread, k) ==
    IF terminal[o] = "none"
    THEN /\ terminal' = [terminal EXCEPT ![o] = k]
         /\ publisher' = [publisher EXCEPT ![o] = thread]
         /\ stage' = [stage EXCEPT ![o] = "won"]
    ELSE UNCHANGED guardVars

(* ObserveLogicalTerminal, and the terminal it publishes for a cancellation or deadline. *)
Observed(o)   == terminal[o] # "none" \/ signal[o] # "none"
SignalKind(o) == IF signal[o] = "timeout" THEN "TimedOut" ELSE "Cancelled"
PublishObserved(o, thread) ==
    IF signal[o] # "none" THEN Publish(o, thread, SignalKind(o)) ELSE UNCHANGED guardVars

Stale(o) == Observed(o) \/ ~EpochCurrent(o)

Goto(o, s) == pc' = [pc EXCEPT ![o] = s]

(* The run thread is at s, and not inside a terminal or a drain of its own. *)
At(o, s) ==
    /\ pc[o] = s
    /\ publisher[o] # "run"
    /\ drainer[o] # "run"

(* QuarantineAccountForReauthentication, which also cancels the broker's operations: *)
(* the store looks at the cancellation under the mutex of its compare-and-swap.      *)
QuarantineBroker(valid) ==
    /\ brokerQuarantined' = (brokerQuarantined \/ valid)
    /\ brokerCommit' = IF valid THEN NoRecord ELSE brokerCommit

QuarantineLocalRecovery ==
    /\ localQuarantine' = (localQuarantine \/ ~shutdown)
    /\ confirmedSignedOut' = (confirmedSignedOut /\ shutdown)
    /\ UNCHANGED <<shutdown, sessionEpoch, status>>

SetStatus(s, confirmed, quarantine) ==
    /\ status' = s
    /\ confirmedSignedOut' = confirmed
    /\ localQuarantine' = quarantine

(* What a step of a run thread that only moves on leaves alone. *)
RunUnchanged ==
    <<accountVars, tableVars, brokerVars, store, recoveryVars, shutdownVars, requestVars, signal,
      eventVars>>

Move(o, from, to) ==
    /\ At(o, from)
    /\ Goto(o, to)
    /\ UNCHANGED <<RunUnchanged, revision, afterCleanUp, guardVars>>

-----------------------------------------------------------------------------
(* The caller's thread: StartSignIn, StartSignOut, SetCredentialBroker.       *)

(* The composition root connects the broker before it registers the provider. *)
SetCredentialBroker ==
    /\ ~shutdown /\ ~connected
    /\ newest = NoOp /\ recovery = "none"
    /\ connected' = TRUE
    /\ UNCHANGED <<accountVars, tableVars, brokerQuarantined, brokerCommit, store, recoveryVars,
                   shutdownVars, requestVars, runVars, signal, guardVars, eventVars>>

(* StartSignIn reads the effective status before it takes the mutex. *)
EvaluateSignIn(o) ==
    /\ pc[o] = "idle"
    /\ EffectiveStatus \notin Transient \cup {"Ready"}
    /\ kind' = [kind EXCEPT ![o] = "SignIn"]
    /\ reauthentication' = [reauthentication EXCEPT ![o] = EffectiveStatus = "Reauthenticate"]
    /\ Goto(o, "evaluated")
    /\ UNCHANGED <<accountVars, tableVars, brokerVars, store, recoveryVars, shutdownVars,
                   operationEpoch, revision, afterCleanUp, signal, guardVars, eventVars>>

Busy == shutdown \/ RecoveryInFlight \/ physical # {}

SignInRefused(o) ==
    \/ Busy
    \/ status \in Transient
    \/ status = "Ready" /\ ~reauthentication[o]

RefuseSignIn(o) ==
    /\ SignInRefused(o)
    /\ Move(o, "evaluated", "refused")

BeginOperation(o, s) ==
    /\ sessionEpoch' = sessionEpoch + 1
    /\ operationEpoch' = [operationEpoch EXCEPT ![o] = sessionEpoch + 1]
    /\ SetStatus(s, FALSE, localQuarantine)
    /\ active' = active \cup {o}
    /\ physical' = physical \cup {o}
    /\ newest' = o
    /\ UNCHANGED <<shutdown, brokerVars, store, recoveryVars, shutdownVars, revision, afterCleanUp,
                   signal, guardVars, eventVars>>

AdmitSignIn(o) ==
    /\ pc[o] = "evaluated"
    /\ ~SignInRefused(o)
    /\ BeginOperation(o, "Authorizing")
    /\ Goto(o, "start")
    /\ UNCHANGED <<kind, reauthentication>>

(* Mutated: an operation that has ended no longer counts, though its thread still runs. *)
StartSignOutEarly(o) ==
    /\ pc[o] = "idle"
    /\ ~shutdown /\ ~RecoveryInFlight /\ active = {}
    /\ kind' = [kind EXCEPT ![o] = "SignOut"]
    /\ BeginOperation(o, "Revoking")
    /\ Goto(o, "admitted")
    /\ UNCHANGED reauthentication

StartSignOut(o) ==
    /\ pc[o] = "idle"
    /\ ~Busy
    /\ kind' = [kind EXCEPT ![o] = "SignOut"]
    /\ BeginOperation(o, "Revoking")
    /\ Goto(o, "admitted")
    /\ UNCHANGED reauthentication

(* StartSignOut, past the mutex and before its threads start. *)
QuarantineForSignOut(o) ==
    /\ pc[o] = "admitted"
    /\ QuarantineBroker(connected)
    /\ Goto(o, "load")
    /\ UNCHANGED <<accountVars, tableVars, connected, store, recoveryVars, shutdownVars,
                   requestVars, revision, afterCleanUp, signal, guardVars, eventVars>>

-----------------------------------------------------------------------------
(* RunSignIn.                                                                 *)

(* The early returns that find the operation ended or its epoch passed. *)
LeaveStale(o) ==
    /\ \E s \in {"start", "authorized", "loaded", "loadFailed"} : At(o, s)
    /\ Stale(o)
    /\ PublishObserved(o, "run")
    /\ Goto(o, "exit")
    /\ UNCHANGED <<RunUnchanged, revision, afterCleanUp>>

CallAuthorize(o) == ~Stale(o) /\ Move(o, "start", "authorize")

(* The driver's device instruction: a second one, or one after the terminal, is rejected. *)
PublishInteraction(o) ==
    /\ At(o, "authorize")
    /\ terminal[o] = "none"
    /\ pending' = [pending EXCEPT ![o] = Append(@, "Interaction")]
    /\ drainer' = [drainer EXCEPT ![o] = IF @ = "none" THEN "run" ELSE @]
    /\ Goto(o, "instructed")
    /\ UNCHANGED <<accountVars, tableVars, brokerVars, store, recoveryVars, shutdownVars, requestVars,
                   revision, afterCleanUp, signal, guardVars, delivered>>

Authorizing(o) == At(o, "authorize") \/ At(o, "instructed")

(* The driver fails, or its instruction is malformed. *)
AuthorizeFails(o) ==
    /\ Authorizing(o)
    /\ \E k \in {"Failed", "Cancelled", "TimedOut"} :
            Publish(o, "run", IF signal[o] # "none" THEN SignalKind(o) ELSE k)
    /\ Goto(o, "exit")
    /\ UNCHANGED <<RunUnchanged, revision, afterCleanUp>>

AuthorizeSucceeds(o) ==
    /\ Authorizing(o)
    /\ Move(o, pc[o], "authorized")

(* The tokens are incomplete, expired or cannot be encoded. *)
RejectTokens(o) == ~Stale(o) /\ Move(o, "authorized", "failed")

LoadExisting(o) ==
    /\ At(o, "authorized")
    /\ ~Stale(o)
    /\ \/ /\ Goto(o, "loaded")
          /\ revision' = [revision EXCEPT ![o] = store.rev]
       \/ /\ "load" \in Faults
          /\ Goto(o, "loadFailed")
          /\ UNCHANGED revision
    /\ UNCHANGED <<RunUnchanged, afterCleanUp, guardVars>>

FailLoad(o)  == ~Stale(o) /\ Move(o, "loadFailed", "failed")
CallStore(o) == ~Stale(o) /\ Move(o, "loaded", "store")

WriteGrant(o) ==
    store' = [rev |-> revision[o] + 1, grant |-> o]

StoreGrant(o) ==
    /\ At(o, "store")
    /\ store.rev = revision[o]
    /\ WriteGrant(o)
    /\ Goto(o, "stored")
    /\ UNCHANGED <<accountVars, tableVars, brokerVars, recoveryVars, shutdownVars, requestVars,
                   revision, afterCleanUp, signal, guardVars, eventVars>>

(* A conflict, or a failure that changed nothing. *)
StoreFails(o) ==
    /\ store.rev # revision[o] \/ "store" \in Faults
    /\ Move(o, "store", "fail")

(* The store timed out or was cancelled, and may have written before it noticed. *)
StoreAmbiguous(o) ==
    /\ At(o, "store")
    /\ "store" \in Faults \/ signal[o] # "none"
    /\ \/ store.rev = revision[o] /\ WriteGrant(o)
       \/ UNCHANGED store
    /\ Goto(o, "cleanUp")
    /\ afterCleanUp' = [afterCleanUp EXCEPT ![o] = "fail"]
    /\ UNCHANGED <<accountVars, tableVars, brokerVars, recoveryVars, shutdownVars, requestVars,
                   revision, signal, guardVars, eventVars>>

(* Mutated: an operation that ended while it stored returns without compensation. *)
AbandonStored(o) ==
    /\ At(o, "stored")
    /\ Stale(o)
    /\ PublishObserved(o, "run")
    /\ Goto(o, "exit")
    /\ UNCHANGED <<RunUnchanged, revision, afterCleanUp>>

CompensateStored(o) ==
    /\ At(o, "stored")
    /\ Stale(o)
    /\ PublishObserved(o, "run")
    /\ Goto(o, "cleanUp")
    /\ afterCleanUp' = [afterCleanUp EXCEPT ![o] = "exit"]
    /\ UNCHANGED <<RunUnchanged, revision>>

PinBroker(o) == ~Stale(o) /\ Move(o, "stored", IF connected THEN "verify" ELSE "claim")

(* NotifyCredentialReplaced: reread the record, then cancel the broker's operations *)
(* and lift its quarantine.                                                         *)
VerifyReplacement(o) ==
    /\ ~Observed(o)
    /\ store.rev = revision[o] + 1
    /\ Move(o, "verify", "lift")

ReplacementFails(o) ==
    /\ Observed(o) \/ store.rev # revision[o] + 1 \/ "load" \in Faults
    /\ Move(o, "verify", "rejected")

LiftQuarantine(o) ==
    /\ At(o, "lift")
    /\ brokerQuarantined' = FALSE
    /\ brokerCommit' = NoRecord
    /\ Goto(o, "claim")
    /\ UNCHANGED <<accountVars, tableVars, connected, store, recoveryVars, shutdownVars,
                   requestVars, revision, afterCleanUp, signal, guardVars, eventVars>>

CompensateRejected(o) ==
    /\ At(o, "rejected")
    /\ QuarantineBroker(TRUE)
    /\ Goto(o, "cleanUp")
    /\ afterCleanUp' = [afterCleanUp EXCEPT ![o] = "failed"]
    /\ UNCHANGED <<accountVars, tableVars, connected, store, recoveryVars, shutdownVars,
                   requestVars, revision, signal, guardVars, eventVars>>

CompensateUnclaimed(o) ==
    /\ At(o, "claim")
    /\ Stale(o)
    /\ PublishObserved(o, "run")
    /\ QuarantineBroker(connected)
    /\ Goto(o, "cleanUp")
    /\ afterCleanUp' = [afterCleanUp EXCEPT ![o] = "exit"]
    /\ UNCHANGED <<accountVars, tableVars, connected, store, recoveryVars, shutdownVars,
                   requestVars, revision, signal, eventVars>>

(* The locked section that makes the sign-in succeed: a cancellation that the *)
(* check above missed no longer stops it, a terminal does.                    *)
ClaimSucceeded(o) ==
    /\ At(o, "claim")
    /\ EpochCurrent(o)
    /\ terminal[o] = "none"
    /\ Publish(o, "run", "Succeeded")
    /\ SetStatus("Ready", FALSE, FALSE)
    /\ active' = active \ {o}
    /\ Goto(o, "exit")
    /\ UNCHANGED <<shutdown, sessionEpoch, physical, newest, brokerVars, store, recoveryVars,
                   shutdownVars, requestVars, revision, afterCleanUp, signal, eventVars>>

PublishSignInFailure(o) ==
    /\ \/ At(o, "fail") /\ Publish(o, "run", IF signal[o] # "none" THEN SignalKind(o) ELSE "Failed")
       \/ At(o, "failed") /\ Publish(o, "run", "Failed")
    /\ Goto(o, "exit")
    /\ UNCHANGED <<RunUnchanged, revision, afterCleanUp>>

-----------------------------------------------------------------------------
(* CompensateStaleStore and ReconcileAmbiguousStore: reread under a fresh     *)
(* deadline, delete exactly what this operation wrote, else quarantine.       *)

BeginCleanUp(o) ==
    /\ At(o, "cleanUp")
    /\ QuarantineBroker(BrokerPinned)
    /\ Goto(o, "reread")
    /\ UNCHANGED <<accountVars, tableVars, connected, store, recoveryVars, shutdownVars,
                   requestVars, revision, afterCleanUp, signal, guardVars, eventVars>>

Holds(o) == store = [rev |-> revision[o] + 1, grant |-> o]

RereadFindsNothing(o) ==
    /\ store = NoRecord
    /\ Move(o, "reread", afterCleanUp[o])

RereadFindsOwn(o) ==
    /\ Holds(o)
    /\ Move(o, "reread", "discard")

(* Mutated: what cannot be removed is left to itself. *)
CleanUpGivesUp(o) ==
    /\ \/ At(o, "reread") /\ ((store # NoRecord /\ ~Holds(o)) \/ "load" \in Faults)
       \/ At(o, "discard") /\ (store.rev # revision[o] + 1 \/ "delete" \in Faults)
    /\ Goto(o, afterCleanUp[o])
    /\ UNCHANGED <<RunUnchanged, revision, afterCleanUp, guardVars>>

CleanUpQuarantines(o) ==
    /\ \/ At(o, "reread") /\ ((store # NoRecord /\ ~Holds(o)) \/ "load" \in Faults)
       \/ At(o, "discard") /\ (store.rev # revision[o] + 1 \/ "delete" \in Faults)
    /\ QuarantineLocalRecovery
    /\ Goto(o, afterCleanUp[o])
    /\ UNCHANGED <<tableVars, brokerVars, store, recoveryVars, shutdownVars, requestVars, revision,
                   afterCleanUp, signal, guardVars, eventVars>>

(* The delete succeeds; if its answer is lost the quarantine is set all the same. *)
DiscardGrant(o) ==
    /\ At(o, "discard")
    /\ store.rev = revision[o] + 1
    /\ store' = NoRecord
    /\ \/ UNCHANGED accountVars
       \/ "delete" \in Faults /\ QuarantineLocalRecovery
    /\ Goto(o, afterCleanUp[o])
    /\ UNCHANGED <<tableVars, brokerVars, recoveryVars, shutdownVars, requestVars, revision,
                   afterCleanUp, signal, guardVars, eventVars>>

-----------------------------------------------------------------------------
(* RunSignOut: it ignores its own cancellation until the record is gone.      *)

(* Mutated: a record that cannot be read counts as absent. *)
SignOutLoadTrusting(o) ==
    /\ At(o, "load")
    /\ \/ /\ store # NoRecord
          /\ Goto(o, "delete")
          /\ revision' = [revision EXCEPT ![o] = store.rev]
       \/ /\ store = NoRecord \/ "load" \in Faults
          /\ Goto(o, "finish")
          /\ UNCHANGED revision
    /\ UNCHANGED <<RunUnchanged, afterCleanUp, guardVars>>

SignOutLoad(o) ==
    /\ At(o, "load")
    /\ \/ /\ store # NoRecord
          /\ Goto(o, "delete")
          /\ revision' = [revision EXCEPT ![o] = store.rev]
       \/ /\ store = NoRecord
          /\ Goto(o, "finish")
          /\ UNCHANGED revision
       \/ /\ "load" \in Faults
          /\ Goto(o, "deleteFailed")
          /\ UNCHANGED revision
    /\ UNCHANGED <<RunUnchanged, afterCleanUp, guardVars>>

SignOutDelete(o) ==
    /\ At(o, "delete")
    /\ store.rev = revision[o]
    /\ store' = NoRecord
    /\ \/ Goto(o, "finish")
       \/ "delete" \in Faults /\ Goto(o, "deleteFailed")
    /\ UNCHANGED <<accountVars, tableVars, brokerVars, recoveryVars, shutdownVars, requestVars,
                   revision, afterCleanUp, signal, guardVars, eventVars>>

(* A refresh of the broker got in first, or the store is unavailable. *)
SignOutDeleteFails(o) ==
    /\ store.rev # revision[o] \/ "delete" \in Faults
    /\ Move(o, "delete", "deleteFailed")

SignOutFailed(o) ==
    /\ At(o, "deleteFailed")
    /\ IF EpochCurrent(o) THEN SetStatus("Reauthenticate", FALSE, TRUE)
                          ELSE UNCHANGED <<status, confirmedSignedOut, localQuarantine>>
    /\ Publish(o, "run", "Failed")
    /\ Goto(o, "exit")
    /\ UNCHANGED <<shutdown, sessionEpoch, tableVars, brokerVars, store, recoveryVars, shutdownVars,
                   requestVars, revision, afterCleanUp, signal, eventVars>>

(* The locked section that confirms the sign-out, whoever owns the terminal by now. *)
ConfirmSignedOut(o) ==
    /\ At(o, "finish")
    /\ IF EpochCurrent(o)
       THEN SetStatus("SignedOut", TRUE, FALSE) /\ Goto(o, "publish")
       ELSE UNCHANGED accountVars /\ Goto(o, "exit")
    /\ UNCHANGED <<shutdown, sessionEpoch, tableVars, brokerVars, store, recoveryVars, shutdownVars,
                   requestVars, revision, afterCleanUp, signal, guardVars, eventVars>>

PublishSignedOut(o) ==
    /\ At(o, "publish")
    /\ Publish(o, "run", "Succeeded")
    /\ Goto(o, "exit")
    /\ UNCHANGED <<RunUnchanged, revision, afterCleanUp>>

(* The thread's locals go with it. *)
OnPhysicalOperationComplete(o) ==
    /\ At(o, "exit")
    /\ physical' = physical \ {o}
    /\ Goto(o, "done")
    /\ operationEpoch' = [operationEpoch EXCEPT ![o] = 0]
    /\ revision' = [revision EXCEPT ![o] = 0]
    /\ afterCleanUp' = [afterCleanUp EXCEPT ![o] = "exit"]
    /\ UNCHANGED <<accountVars, active, newest, brokerVars, store, recoveryVars, shutdownVars,
                   kind, reauthentication, signal, guardVars, eventVars>>

-----------------------------------------------------------------------------
(* StartStoredSessionRecovery and RecoverStoredSession.                       *)

OperationsUnchanged ==
    <<tableVars, shutdownVars, requestVars, runVars, signal, guardVars, eventVars>>

StartStoredSessionRecovery ==
    /\ "recovery" \in Others
    /\ ~shutdown
    /\ recovery = "none"
    /\ active = {} /\ physical = {}
    /\ recovery' = "load"
    /\ recoveryEpoch' = sessionEpoch
    /\ SetStatus("Refreshing", FALSE, localQuarantine)
    /\ UNCHANGED <<shutdown, sessionEpoch, recovered, brokerVars, store, OperationsUnchanged>>

(* Mutated: any record that can be read is taken for a session. *)
RecoveryLoadTrusting ==
    /\ recovery = "load"
    /\ \/ recovered' = IF store = NoRecord THEN "SignedOut" ELSE "Ready"
       \/ "load" \in Faults /\ recovered' \in {"Failed", "Reauthenticate"}
    /\ recovery' = "apply"
    /\ UNCHANGED <<accountVars, recoveryEpoch, brokerVars, store, OperationsUnchanged>>

RecoveryLoad ==
    /\ recovery = "load"
    /\ \/ recovered' = CASE store = NoRecord          -> "SignedOut"
                         [] store.grant = "damaged"   -> "Reauthenticate"
                         [] OTHER                     -> "Ready"
       \/ "load" \in Faults /\ recovered' \in {"Failed", "Reauthenticate"}
    /\ recovery' = "apply"
    /\ UNCHANGED <<accountVars, recoveryEpoch, brokerVars, store, OperationsUnchanged>>

RecoveryApply ==
    LET s == IF localQuarantine /\ recovered # "SignedOut" THEN "Reauthenticate" ELSE recovered
    IN  /\ recovery = "apply"
        /\ IF shutdown \/ sessionEpoch # recoveryEpoch \/ active # {}
           THEN recovery' = "exit" /\ UNCHANGED <<accountVars, recovered>>
           ELSE /\ SetStatus(s, s = "SignedOut", s = "Reauthenticate")
                /\ recovered' = s
                /\ recovery' = IF connected THEN "tell" ELSE "exit"
        /\ UNCHANGED <<shutdown, sessionEpoch, recoveryEpoch, brokerVars, store, OperationsUnchanged>>

(* InvalidateAccount cancels the broker's operations as well. *)
RecoveryTellsBroker ==
    /\ recovery = "tell"
    /\ brokerQuarantined' = (brokerQuarantined \/ recovered = "Reauthenticate")
    /\ brokerCommit' = NoRecord
    /\ recovery' = "exit"
    /\ UNCHANGED <<accountVars, recoveryEpoch, recovered, connected, store, OperationsUnchanged>>

OnRecoveryPhysicalComplete ==
    /\ recovery = "exit"
    /\ recovery' = "done"
    /\ recoveryEpoch' = 0
    /\ recovered' = "SignedOut"
    /\ UNCHANGED <<accountVars, brokerVars, store, OperationsUnchanged>>

-----------------------------------------------------------------------------
(* The threads that end an operation, and the events it delivers.             *)

Admitted(o) == pc[o] \in RunStates \cup {"done"} /\ kind[o] # "none"

NotEnding == <<accountVars, tableVars, brokerVars, store, recoveryVars, shutdownVars, requestVars,
               runVars, eventVars>>

Interruptible(o) ==
    /\ Admitted(o)
    /\ terminal[o] = "none"
    /\ signal[o] # "none" \/ Interrupted < MaxInterrupts

(* The handle or the parent's token is cancelled, which counts over a deadline. *)
Cancel(o) ==
    /\ "cancel" \in Interrupts
    /\ Interruptible(o)
    /\ signal[o] # "cancel"
    /\ signal' = [signal EXCEPT ![o] = "cancel"]
    /\ UNCHANGED <<NotEnding, guardVars>>

Expire(o) ==
    /\ "deadline" \in Interrupts
    /\ Interruptible(o)
    /\ signal[o] = "none"
    /\ signal' = [signal EXCEPT ![o] = "timeout"]
    /\ UNCHANGED <<NotEnding, guardVars>>

(* The monitor thread, or whoever cancelled, publishes the terminal. *)
Monitor(o) ==
    /\ Admitted(o)
    /\ terminal[o] = "none"
    /\ signal[o] # "none"
    /\ Publish(o, "other", SignalKind(o))
    /\ UNCHANGED <<NotEnding, signal>>

(* The terminal reaches the provider's state, whichever operation is the newest by then. *)
OnOperationTerminal(o) ==
    /\ stage[o] = "won"
    /\ stage' = [stage EXCEPT ![o] = "settled"]
    /\ active' = active \ {o}
    /\ IF shutdown
       THEN UNCHANGED <<status, confirmedSignedOut>>
       ELSE LET s == TerminalState(o, terminal[o]) IN
            /\ status' = s
            /\ confirmedSignedOut' =
                  (confirmedSignedOut /\ s = "SignedOut" /\ terminal[o] = "Succeeded")
    /\ UNCHANGED <<shutdown, sessionEpoch, localQuarantine, physical, newest, brokerVars, store,
                   recoveryVars, shutdownVars, requestVars, runVars, signal, terminal, publisher,
                   eventVars>>

EndPublication(o) ==
    /\ stage' = [stage EXCEPT ![o] = "none"]
    /\ publisher' = [publisher EXCEPT ![o] = "none"]

(* Mutated: every event is handed over at once, past the ones that still wait. *)
QueueTerminalFirst(o) ==
    /\ stage[o] = "settled"
    /\ EndPublication(o)
    /\ delivered' = [delivered EXCEPT ![o] = "Terminal"]
    /\ UNCHANGED <<accountVars, tableVars, brokerVars, store, recoveryVars, shutdownVars, requestVars,
                   runVars, signal, terminal, pending, drainer>>

QueueTerminal(o) ==
    /\ stage[o] = "settled"
    /\ EndPublication(o)
    /\ pending' = [pending EXCEPT ![o] = Append(@, "Terminal")]
    /\ drainer' = [drainer EXCEPT ![o] = IF @ = "none" THEN publisher[o] ELSE @]
    /\ UNCHANGED <<accountVars, tableVars, brokerVars, store, recoveryVars, shutdownVars, requestVars,
                   runVars, signal, terminal, delivered>>

(* DrainQueuedEvents: one event handed to the sink; the drain ends with the last. *)
DrainQueuedEvents(o) ==
    /\ drainer[o] # "none"
    /\ delivered' = [delivered EXCEPT ![o] = Head(pending[o])]
    /\ pending' = [pending EXCEPT ![o] = Tail(@)]
    /\ drainer' = [drainer EXCEPT ![o] = IF Len(pending[o]) = 1 THEN "none" ELSE @]
    /\ UNCHANGED <<accountVars, tableVars, brokerVars, store, recoveryVars, shutdownVars, requestVars,
                   runVars, signal, guardVars>>

-----------------------------------------------------------------------------
(* BeginShutdown, and the broker beside the provider.                         *)

BeginShutdown ==
    /\ "shutdown" \in Others
    /\ Interrupted < MaxInterrupts
    /\ ~shutdown
    /\ shutdown' = TRUE
    /\ sessionEpoch' = sessionEpoch + 1
    /\ toCancel' = active
    /\ toTell' = TRUE
    /\ SetStatus("SignedOut", FALSE, localQuarantine)
    /\ UNCHANGED <<tableVars, brokerVars, store, recoveryVars, requestVars, runVars, signal,
                   guardVars, eventVars>>

ShutdownQuarantines ==
    /\ toTell
    /\ toTell' = FALSE
    /\ QuarantineBroker(connected)
    /\ UNCHANGED <<accountVars, tableVars, connected, store, recoveryVars, toCancel,
                   requestVars, runVars, signal, guardVars, eventVars>>

ShutdownCancels(o) ==
    /\ ~toTell
    /\ o \in toCancel
    /\ toCancel' = toCancel \ {o}
    /\ signal' = [signal EXCEPT ![o] = "cancel"]
    /\ UNCHANGED <<accountVars, tableVars, brokerVars, store, recoveryVars, toTell, requestVars,
                   runVars, guardVars, eventVars>>

(* A refresh of the broker loads the record, and quarantines the account if it is damaged. *)
BrokerLoads ==
    /\ "broker" \in Others
    /\ connected /\ ~brokerQuarantined
    /\ brokerCommit = NoRecord
    /\ store # NoRecord
    /\ IF store.grant = "damaged"
       THEN QuarantineBroker(TRUE)
       ELSE brokerCommit' = store /\ UNCHANGED brokerQuarantined
    /\ UNCHANGED <<accountVars, connected, store, recoveryVars, OperationsUnchanged>>

(* Its compare-and-swap looks at the revision alone. *)
BrokerCommits ==
    /\ brokerCommit # NoRecord
    /\ brokerCommit' = NoRecord
    /\ IF store.rev = brokerCommit.rev /\ store.rev < MaxRevision
       THEN store' = [rev |-> store.rev + 1, grant |-> brokerCommit.grant]
       ELSE UNCHANGED store
    /\ UNCHANGED <<accountVars, connected, brokerQuarantined, recoveryVars, OperationsUnchanged>>

(* Its refresh token is rejected instead, and the account quarantined. *)
BrokerQuarantines ==
    /\ brokerCommit # NoRecord
    /\ QuarantineBroker(TRUE)
    /\ UNCHANGED <<accountVars, connected, store, recoveryVars, OperationsUnchanged>>

-----------------------------------------------------------------------------
Caller(o) ==
    \/ EvaluateSignIn(o) \/ RefuseSignIn(o) \/ AdmitSignIn(o)
    \/ StartSignOut(o) \/ QuarantineForSignOut(o)

RunSignIn(o) ==
    \/ LeaveStale(o) \/ CallAuthorize(o) \/ AuthorizeFails(o)
    \/ AuthorizeSucceeds(o) \/ RejectTokens(o) \/ LoadExisting(o) \/ FailLoad(o) \/ CallStore(o)
    \/ StoreGrant(o) \/ StoreFails(o) \/ StoreAmbiguous(o) \/ CompensateStored(o) \/ PinBroker(o)
    \/ VerifyReplacement(o) \/ ReplacementFails(o) \/ LiftQuarantine(o) \/ CompensateRejected(o)
    \/ CompensateUnclaimed(o) \/ ClaimSucceeded(o) \/ PublishSignInFailure(o)
    \/ BeginCleanUp(o) \/ RereadFindsNothing(o) \/ RereadFindsOwn(o) \/ CleanUpQuarantines(o)
    \/ DiscardGrant(o)

RunSignOut(o) ==
    \/ SignOutLoad(o) \/ SignOutDelete(o) \/ SignOutDeleteFails(o) \/ SignOutFailed(o)
    \/ ConfirmSignedOut(o) \/ PublishSignedOut(o)

Run(o) == RunSignIn(o) \/ RunSignOut(o) \/ OnPhysicalOperationComplete(o)

Deliver(o) == OnOperationTerminal(o) \/ QueueTerminal(o) \/ DrainQueuedEvents(o)

Recover ==
    \/ StartStoredSessionRecovery \/ RecoveryLoad \/ RecoveryApply \/ RecoveryTellsBroker
    \/ OnRecoveryPhysicalComplete

Next ==
    \/ SetCredentialBroker
    \/ \E o \in Ops : \/ Caller(o) \/ Run(o) \/ PublishInteraction(o) \/ Deliver(o)
                      \/ Cancel(o) \/ Expire(o) \/ Monitor(o) \/ ShutdownCancels(o)
    \/ Recover
    \/ BeginShutdown \/ ShutdownQuarantines
    \/ BrokerLoads \/ BrokerCommits \/ BrokerQuarantines

Spec == Init /\ [][Next]_vars

-----------------------------------------------------------------------------
(* "Confirmed signed out" is said only of an empty store: whatever a sign-in  *)
(* that was cut off, a refresh of the broker or a failed store call did, the  *)
(* status that hides a quarantine never hides a credential.                   *)
ConfirmedSignOutIsEmpty == confirmedSignedOut => store = NoRecord

(* An account reported Ready has a credential in the store that can be decoded. *)
ReadyHasCredential == EffectiveStatus = "Ready" => store.grant \notin {"none", "damaged"}

(* A sign-in that ended without success leaves no usable credential behind: its grant  *)
(* is gone, or the account is quarantined here and in the broker until the next        *)
(* operation.                                                                          *)
UnclaimedGrantIsFenced ==
    /\ newest # NoOp /\ ~shutdown
    /\ kind[newest] = "SignIn" /\ pc[newest] = "done" /\ terminal[newest] # "Succeeded"
    /\ store.grant = newest
    => EffectiveStatus # "Ready" /\ localQuarantine /\ (connected => brokerQuarantined)

(* From the moment a sign-out has begun, the broker stays quarantined until a later  *)
(* sign-in lifts it: no earlier sign-in, however late, does.                         *)
SignOutKeepsBrokerFenced ==
    /\ newest # NoOp /\ connected
    /\ kind[newest] = "SignOut" /\ pc[newest] \in SignOutStates \cup {"exit", "done"}
    => brokerQuarantined

(* A sink hears the device instruction first, if at all, and one terminal last. *)
EventsInOrder ==
    [][\A o \in Ops :
          delivered'[o] # delivered[o] \/ Len(pending'[o]) < Len(pending[o])
          => delivered[o] # "Terminal" /\ (delivered'[o] = "Interaction" => delivered[o] = "none")]_vars

(* The record in the store descends from the newest successful sign-in. *)
SignedInGrantIsStored ==
    /\ newest # NoOp
    /\ kind[newest] = "SignIn" /\ pc[newest] = "done" /\ terminal[newest] = "Succeeded"
    => store.grant = newest

(* What the provider says of the account is true of the store, in well-typed states.   *)
AccountIsTrue ==
    TypeOK /\ ConfirmedSignOutIsEmpty /\ ReadyHasCredential /\ SignedInGrantIsStored

(* No grant nobody was told of is in use, and no earlier sign-in undoes a sign-out.    *)
GrantsAreFenced == UnclaimedGrantIsFenced /\ SignOutKeepsBrokerFenced
=============================================================================
