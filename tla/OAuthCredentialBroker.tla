------------------------ MODULE OAuthCredentialBroker ------------------------
(***************************************************************************)
(* FUnrealAIOAuthCredentialBroker: resolves a connection alias to a        *)
(* short-lived credential lease.  Every resolve owns a run thread (load,   *)
(* refresh, commit, lease) and a monitor thread (deadline, cancellation);  *)
(* all share the bindings, the flights and the operation tables under one  *)
(* mutex, and one secure store whose Load and Store are atomic.            *)
(*                                                                         *)
(* One action is one section of the broker's mutex, one store call, one    *)
(* start or return of the provider's Refresh, or one compare-and-swap of   *)
(* an operation's terminal guard.                                          *)
(***************************************************************************)
EXTENDS Naturals, FiniteSets

CONSTANTS Ops,            \* resolve requests, each issued at most once
          RequestIds,
          RequestIdOf,    \* [Ops -> RequestIds]: a caller may reuse an identifier
          Connections,
          ConnectionOf,   \* [Ops -> Connections]
          Accounts,
          AccountOf,      \* [Connections -> Accounts]
          Profiles,
          ProfileOf,      \* [Accounts -> Profiles]
          NoOp,
          MaxConcurrentOperations,
          AdminCalls,     \* bound: the outside calls an instance makes
          Interruptible,  \* bound: operations whose own handle, parent or deadline ends them
          MaxEpoch,       \* bound: administrative calls stop at this epoch
          MaxRevision     \* bound: outside writers stop at this store revision

ASSUME TopologyAssumption ==
    /\ RequestIdOf \in [Ops -> RequestIds]
    /\ ConnectionOf \in [Ops -> Connections]
    /\ AccountOf \in [Connections -> Accounts]
    /\ ProfileOf \in [Accounts -> Profiles]
    /\ NoOp \notin Ops

ASSUME BoundsAssumption ==
    /\ Interruptible \subseteq Ops
    /\ MaxConcurrentOperations \in Nat
    /\ MaxEpoch \in Nat
    /\ MaxRevision \in Nat

VARIABLES
    shutdown,          \* bShutdown
    binding,           \* Bindings: epoch, force-refresh flag, quarantine; per account
    freshness,         \* ConnectionFreshness: serial of the connection's source, 0 when absent
    lastFreshness,     \* serial of the newest source made for the connection
    revoked,           \* freshness sources that were invalidated or shut down
    connectionEpoch,   \* ConnectionEpochs
    activeOperations,  \* ActiveOperations: request id to operation
    physicalIds,       \* PhysicalOperationIds
    refreshFlights,    \* RefreshFlights: account to the operation that leads its flight
    flightResult,      \* FOAuthRefreshFlight: result of the flight an operation created
    collected,         \* operations a bulk call collected and has still to Cancel()
    flightsToFail,     \* flights BeginShutdown took and has still to complete
    replacement,       \* progress of NotifyCredentialReplaced, per account
    store,             \* secure store record, per account
    provider,          \* the refresh-token generation the provider accepts
    pc,                \* run thread of an operation (and its caller before admission)
    snapshot,          \* FOAuthBindingSnapshot
    envelope,          \* record the operation loaded or obtained
    outcome,           \* what the leader knows of its refresh
    joined,            \* leader of the flight the operation acquired
    signal,            \* cancellation or deadline of the operation
    terminal,          \* FUnrealAITerminalGuard
    publisher,         \* thread whose Publish won the guard
    stage,             \* how far that Publish has come
    deliveries,        \* history: results enqueued in the operation's sink
    late,              \* history: Refresh returned to an ended or invalidated operation
    superseded,        \* history: revisions this broker's refreshes have replaced
    forcedRevision     \* history: stored revision at the last ForceRefreshAccount

brokerVars == <<shutdown, binding, freshness, lastFreshness, revoked, connectionEpoch>>
tableVars  == <<activeOperations, physicalIds>>
flightVars == <<refreshFlights, flightResult, flightsToFail>>
outsideVars == <<replacement, store, provider>>
historyVars == <<late, superseded, forcedRevision>>
publishVars == <<terminal, publisher, stage, deliveries>>
runVars    == <<pc, snapshot, envelope, outcome, joined>>
vars == <<brokerVars, tableVars, flightVars, outsideVars, historyVars, collected, publishVars,
          runVars, signal>>

Account(o) == AccountOf[ConnectionOf[o]]

RunStates ==
    {"start", "load", "loaded", "quarantine", "acquire", "wait", "reload",
     "lead", "refreshing", "refreshed", "store", "stored", "conflicted",
     "clear", "complete", "settled", "lease", "leased", "publish", "fail", "exit"}

(* Between acquiring leadership of a flight and completing it. *)
LeaderStates ==
    {"lead", "refreshing", "refreshed", "store", "stored", "conflicted", "clear", "complete"}

Running == {o \in Ops : pc[o] \in RunStates}

Records ==
    [rev : Nat, gen : Nat, expiring : BOOLEAN, kind : {"valid", "corrupt", "absent", "unavailable"}]
Snapshots == [epoch : Nat, connectionEpoch : Nat, force : BOOLEAN, freshness : Nat]

NoRecord   == [rev |-> 0, gen |-> 0, expiring |-> FALSE, kind |-> "absent"]
NoReplacement == [stage |-> "none", rev |-> 0]
NoSnapshot == [epoch |-> 0, connectionEpoch |-> 0, force |-> FALSE, freshness |-> 0]

Bindings   == [registered : BOOLEAN, epoch : Nat, force : BOOLEAN, quarantined : BOOLEAN]
Outcomes   == {"none", "ok", "rejected", "failed"}
Terminals  == {"none", "Succeeded", "Failed", "Cancelled", "TimedOut"}
Publishers == {"none", "run", "monitor", "canceller"}
Stages     == {"none", "won", "removed", "delivered"}
CallerStates == {"idle", "snapped", "rejected", "done"}

BrokerTypes ==
    /\ shutdown \in BOOLEAN
    /\ binding \in [Accounts -> Bindings]
    /\ freshness \in [Connections -> Nat]
    /\ lastFreshness \in [Connections -> Nat]
    /\ revoked \subseteq Connections \X Nat
    /\ connectionEpoch \in [Connections -> Nat]

TableTypes ==
    /\ activeOperations \in [RequestIds -> Ops \cup {NoOp}]
    /\ physicalIds \subseteq RequestIds

FlightTypes ==
    /\ refreshFlights \in [Accounts -> Ops \cup {NoOp}]
    /\ flightResult \in [Ops -> {"none", "pending", "ok", "failed"}]
    /\ flightsToFail \subseteq Ops

OutsideTypes ==
    /\ replacement \in [Accounts -> [stage : {"none", "stored", "verified"}, rev : Nat]]
    /\ store \in [Accounts -> Records]
    /\ provider \in [Accounts -> Nat]

HistoryTypes ==
    /\ late \subseteq Ops
    /\ superseded \subseteq Accounts \X Nat
    /\ forcedRevision \in [Accounts -> Nat]

PublishTypes ==
    /\ terminal \in [Ops -> Terminals]
    /\ publisher \in [Ops -> Publishers]
    /\ stage \in [Ops -> Stages]
    /\ deliveries \in [Ops -> Nat]

RunTypes ==
    /\ pc \in [Ops -> RunStates \cup CallerStates]
    /\ snapshot \in [Ops -> Snapshots]
    /\ envelope \in [Ops -> Records]
    /\ outcome \in [Ops -> Outcomes]
    /\ joined \in [Ops -> Ops \cup {NoOp}]

SignalTypes ==
    /\ collected \subseteq Ops
    /\ signal \in [Ops -> {"none", "cancel", "timeout"}]

TypeOK ==
    /\ BrokerTypes
    /\ TableTypes
    /\ FlightTypes
    /\ OutsideTypes
    /\ HistoryTypes
    /\ PublishTypes
    /\ RunTypes
    /\ SignalTypes

(* A login has stored a first credential for each account before the broker exists. *)
Init ==
    /\ shutdown = FALSE
    /\ binding = [a \in Accounts |-> [registered |-> FALSE, epoch |-> 1,
                                      force |-> FALSE, quarantined |-> FALSE]]
    /\ freshness = [c \in Connections |-> 0]
    /\ lastFreshness = [c \in Connections |-> 0]
    /\ revoked = {}
    /\ connectionEpoch = [c \in Connections |-> 0]
    /\ activeOperations = [r \in RequestIds |-> NoOp]
    /\ physicalIds = {}
    /\ refreshFlights = [a \in Accounts |-> NoOp]
    /\ flightResult = [o \in Ops |-> "none"]
    /\ collected = {}
    /\ flightsToFail = {}
    /\ replacement = [a \in Accounts |-> NoReplacement]
    /\ store \in [Accounts -> {[rev |-> 1, gen |-> 1, expiring |-> e, kind |-> "valid"] :
                                  e \in BOOLEAN}]
    /\ provider = [a \in Accounts |-> 1]
    /\ pc = [o \in Ops |-> "idle"]
    /\ snapshot = [o \in Ops |-> NoSnapshot]
    /\ envelope = [o \in Ops |-> NoRecord]
    /\ outcome = [o \in Ops |-> "none"]
    /\ joined = [o \in Ops |-> NoOp]
    /\ signal = [o \in Ops |-> "none"]
    /\ terminal = [o \in Ops |-> "none"]
    /\ publisher = [o \in Ops |-> "none"]
    /\ stage = [o \in Ops |-> "none"]
    /\ deliveries = [o \in Ops |-> 0]
    /\ late = {}
    /\ superseded = {}
    /\ forcedRevision = [a \in Accounts |-> 0]

-----------------------------------------------------------------------------
(* Helpers that hold the mutex or act on one operation's guard.               *)

IsSnapshotCurrent(o) ==
    LET c == ConnectionOf[o]
        b == binding[AccountOf[c]]
        s == snapshot[o]
    IN  /\ ~shutdown
        /\ b.registered
        /\ b.epoch = s.epoch
        /\ freshness[c] # 0
        /\ freshness[c] = s.freshness
        /\ connectionEpoch[c] = s.connectionEpoch
        /\ <<c, s.freshness>> \notin revoked

SourcesOf(C) == {<<c, freshness[c]>> : c \in {d \in C : freshness[d] # 0}}

ConnectionsOf(A) == {c \in Connections : AccountOf[c] \in A}

(* Mutated: empties the freshness maps without revoking what they held. *)
ForgetSources(C) ==
    /\ freshness' = [c \in Connections |-> IF c \in C THEN 0 ELSE freshness[c]]
    /\ UNCHANGED revoked

RevokeSources(C) ==
    /\ revoked' = revoked \cup SourcesOf(C)
    /\ freshness' = [c \in Connections |-> IF c \in C THEN 0 ELSE freshness[c]]

QuarantineEntry(a) ==
    /\ RevokeSources(ConnectionsOf({a}))
    /\ binding' = [binding EXCEPT ![a].quarantined = TRUE, ![a].force = FALSE, ![a].epoch = @ + 1]

QuarantineSnapshot(o) ==
    IF binding[Account(o)].registered /\ binding[Account(o)].epoch = snapshot[o].epoch
    THEN QuarantineEntry(Account(o))
    ELSE UNCHANGED <<binding, freshness, revoked>>

ActiveOps == {activeOperations[r] : r \in RequestIds} \ {NoOp}

Collect(O) == collected' = collected \cup (ActiveOps \cap O)

OpsOfAccounts(A) == {o \in Ops : Account(o) \in A}

(* Mutated: writes the terminal without testing that it is the first. *)
PublishUnguarded(o, thread, kind) ==
    /\ terminal' = [terminal EXCEPT ![o] = kind]
    /\ publisher' = [publisher EXCEPT ![o] = thread]
    /\ stage' = [stage EXCEPT ![o] = "won"]
    /\ UNCHANGED deliveries

(* Publish up to its compare-and-swap; the winner delivers in later steps. *)
Publish(o, thread, kind) ==
    /\ IF terminal[o] = "none"
       THEN /\ terminal' = [terminal EXCEPT ![o] = kind]
            /\ publisher' = [publisher EXCEPT ![o] = thread]
            /\ stage' = [stage EXCEPT ![o] = "won"]
       ELSE UNCHANGED <<terminal, publisher, stage>>
    /\ UNCHANGED deliveries

(* ObserveLogicalTerminal, and the result it publishes for a cancellation or deadline. *)
Observed(o)   == terminal[o] # "none" \/ signal[o] # "none"
SignalKind(o) == IF signal[o] = "timeout" THEN "TimedOut" ELSE "Cancelled"
PublishObserved(o, thread) == Publish(o, thread, SignalKind(o))

Goto(o, s) == pc' = [pc EXCEPT ![o] = s]

(* The run thread is at s and not inside a Publish it won. *)
At(o, s) == pc[o] = s /\ ~(publisher[o] = "run" /\ stage[o] # "delivered")

AtCapacity(o) ==
    \/ Cardinality(physicalIds) >= MaxConcurrentOperations
    \/ RequestIdOf[o] \in physicalIds

Refused(o) ==
    \/ shutdown
    \/ ~binding[Account(o)].registered
    \/ binding[Account(o)].quarantined
    \/ AtCapacity(o)

-----------------------------------------------------------------------------
(* The caller's thread: RegisterBinding and StartResolve's two mutex sections. *)

RegisterBinding(a) ==
    /\ ~shutdown
    /\ ~binding[a].registered
    /\ binding' = [binding EXCEPT ![a].registered = TRUE]
    /\ UNCHANGED <<shutdown, freshness, lastFreshness, revoked, connectionEpoch, tableVars,
                   flightVars, outsideVars, historyVars, collected, publishVars, runVars, signal>>

RejectResolve(o) ==
    /\ pc[o] = "idle"
    /\ Refused(o) \/ signal[o] # "none"
    /\ Goto(o, "rejected")
    /\ UNCHANGED <<brokerVars, tableVars, flightVars, outsideVars, historyVars, collected, publishVars,
                   snapshot, envelope, outcome, joined, signal>>

TakeSnapshot(o) ==
    LET c == ConnectionOf[o]
        s == IF freshness[c] # 0 THEN freshness[c] ELSE lastFreshness[c] + 1
    IN  /\ pc[o] = "idle"
        /\ signal[o] = "none"
        /\ ~Refused(o)
        /\ freshness' = [freshness EXCEPT ![c] = s]
        /\ lastFreshness' = [lastFreshness EXCEPT ![c] = IF freshness[c] # 0 THEN @ ELSE s]
        /\ snapshot' = [snapshot EXCEPT ![o] =
                [epoch |-> binding[AccountOf[c]].epoch, connectionEpoch |-> connectionEpoch[c],
                 force |-> binding[AccountOf[c]].force, freshness |-> s]]
        /\ Goto(o, "snapped")
        /\ UNCHANGED <<shutdown, binding, revoked, connectionEpoch, tableVars, flightVars,
                       outsideVars, historyVars, collected, publishVars, envelope, outcome, joined, signal>>

SnapshotUnchanged(o) ==
    IsSnapshotCurrent(o) /\ binding[Account(o)].force = snapshot[o].force

RejectSnapshot(o) ==
    /\ pc[o] = "snapped"
    /\ Refused(o) \/ ~SnapshotUnchanged(o)
    /\ Goto(o, "rejected")
    /\ UNCHANGED <<brokerVars, tableVars, flightVars, outsideVars, historyVars, collected, publishVars,
                   snapshot, envelope, outcome, joined, signal>>

(* Mutated: the second section trusts the capacity the first one saw. *)
AdmitUnchecked(o) ==
    /\ pc[o] = "snapped"
    /\ ~shutdown
    /\ SnapshotUnchanged(o)
    /\ activeOperations' = [activeOperations EXCEPT ![RequestIdOf[o]] = o]
    /\ physicalIds' = physicalIds \cup {RequestIdOf[o]}
    /\ Goto(o, "start")
    /\ UNCHANGED <<brokerVars, flightVars, outsideVars, historyVars, collected, publishVars,
                   snapshot, envelope, outcome, joined, signal>>

Admit(o) ==
    /\ pc[o] = "snapped"
    /\ ~Refused(o)
    /\ SnapshotUnchanged(o)
    /\ activeOperations' = [activeOperations EXCEPT ![RequestIdOf[o]] = o]
    /\ physicalIds' = physicalIds \cup {RequestIdOf[o]}
    /\ Goto(o, "start")
    /\ UNCHANGED <<brokerVars, flightVars, outsideVars, historyVars, collected, publishVars,
                   snapshot, envelope, outcome, joined, signal>>

-----------------------------------------------------------------------------
(* The run thread, Run and what it calls.  A check reads the guard, then the  *)
(* cancellation token, then the mutex: a cancelled operation may therefore    *)
(* also be found stale, so the two outcomes are alternatives.                 *)

RunUnchanged == <<tableVars, outsideVars, historyVars, collected, signal>>

(* A step of the run thread that only moves it on. *)
Advance(o, s) ==
    /\ Goto(o, s)
    /\ UNCHANGED <<brokerVars, flightVars, RunUnchanged, publishVars,
                   snapshot, envelope, outcome, joined>>

(* Checks whose outcome ends the run: at its start, after the load, in the wait, *)
(* after the flight and before the lease.                                       *)
RunObserves(o) ==
    /\ \E s \in {"start", "loaded", "wait", "settled", "lease"} : At(o, s)
    /\ Observed(o)
    /\ PublishObserved(o, "run")
    /\ Goto(o, "exit")
    /\ UNCHANGED <<brokerVars, flightVars, RunUnchanged, snapshot, envelope, outcome, joined>>

(* Mutated: a stale run thread leaves without publishing. *)
RunInvalidatedSilently(o) ==
    /\ \E s \in {"start", "wait", "lease", "leased"} : At(o, s)
    /\ ~IsSnapshotCurrent(o)
    /\ Advance(o, "exit")

RunInvalidated(o) ==
    /\ \E s \in {"start", "wait", "lease", "leased"} : At(o, s)
    /\ ~IsSnapshotCurrent(o)
    /\ Advance(o, "fail")

PublishFailure(o) ==
    /\ At(o, "fail")
    /\ Publish(o, "run", "Failed")
    /\ Goto(o, "exit")
    /\ UNCHANGED <<brokerVars, flightVars, RunUnchanged, snapshot, envelope, outcome, joined>>

StartRun(o) ==
    /\ At(o, "start")
    /\ ~Observed(o)
    /\ IsSnapshotCurrent(o)
    /\ Advance(o, "load")

(* The deadline passed since the check: no store context can be made from what remains. *)
RejectContext(o) ==
    /\ At(o, "start")
    /\ signal[o] = "timeout"
    /\ IsSnapshotCurrent(o)
    /\ Advance(o, "fail")

(* SecretStore->Load: the stored record, or a transient failure of the store. *)
Loadable(o) ==
    {store[Account(o)]}
        \cup {[NoRecord EXCEPT !.kind = "unavailable"] : x \in AdminCalls \cap {"storefault"}}

Load(o) ==
    /\ At(o, "load")
    /\ \E r \in Loadable(o) : envelope' = [envelope EXCEPT ![o] = r]
    /\ Goto(o, "loaded")
    /\ UNCHANGED <<brokerVars, flightVars, RunUnchanged, publishVars,
                   snapshot, outcome, joined>>

Damaged(r) == r.kind \in {"corrupt", "absent"}

(* After the load: damaged material quarantines, a transient failure or a stale snapshot *)
(* fails, and a credential near expiry or a forced refresh goes to a flight.             *)
CheckLoaded(o) ==
    LET r == envelope[o] IN
    /\ At(o, "loaded")
    /\ ~Observed(o)
    /\ \/ Damaged(r) /\ Advance(o, "quarantine")
       \/ r.kind = "unavailable" /\ Advance(o, "fail")
       \/ r.kind \in {"valid", "corrupt"} /\ ~IsSnapshotCurrent(o) /\ Advance(o, "fail")
       \/ /\ r.kind = "valid" /\ IsSnapshotCurrent(o)
          /\ Advance(o, IF snapshot[o].force \/ r.expiring THEN "acquire" ELSE "lease")

(* Damaged material found by the first load, a follower's reload or a leader's. *)
QuarantineDamaged(o) ==
    /\ At(o, "quarantine")
    /\ QuarantineSnapshot(o)
    /\ Goto(o, IF joined[o] = o THEN "complete" ELSE "fail")
    /\ outcome' = [outcome EXCEPT ![o] = IF joined[o] = o THEN "failed" ELSE @]
    /\ UNCHANGED <<shutdown, lastFreshness, connectionEpoch, flightVars, RunUnchanged, publishVars,
                   snapshot, envelope, joined>>

(* Mutated: every operation leads a flight of its own. *)
AcquireAlone(o) ==
    /\ At(o, "acquire")
    /\ joined' = [joined EXCEPT ![o] = o]
    /\ refreshFlights' = [refreshFlights EXCEPT ![Account(o)] = o]
    /\ flightResult' = [flightResult EXCEPT ![o] = "pending"]
    /\ Goto(o, "lead")
    /\ UNCHANGED <<flightsToFail, brokerVars, RunUnchanged, publishVars,
                   snapshot, envelope, outcome>>

AcquireRefreshFlight(o) ==
    LET a == Account(o) IN
    /\ At(o, "acquire")
    /\ IF refreshFlights[a] = NoOp
       THEN /\ joined' = [joined EXCEPT ![o] = o]
            /\ refreshFlights' = [refreshFlights EXCEPT ![a] = o]
            /\ flightResult' = [flightResult EXCEPT ![o] = "pending"]
            /\ Goto(o, "lead")
       ELSE /\ joined' = [joined EXCEPT ![o] = refreshFlights[a]]
            /\ Goto(o, "wait")
            /\ UNCHANGED <<refreshFlights, flightResult>>
    /\ UNCHANGED <<flightsToFail, brokerVars, RunUnchanged, publishVars,
                   snapshot, envelope, outcome>>

FollowerWakes(o) ==
    /\ At(o, "wait")
    /\ flightResult[joined[o]] \in {"ok", "failed"}
    /\ Advance(o, IF flightResult[joined[o]] = "ok" THEN "reload" ELSE "fail")

(* TryReloadFreshEnvelope, for a follower after its flight and a leader after a conflict. *)
Reload(o) ==
    /\ At(o, "reload")
    /\ \E r \in Loadable(o) :
        /\ envelope' = [envelope EXCEPT ![o] = r]
        /\ CASE Damaged(r) -> Goto(o, "quarantine") /\ UNCHANGED outcome
             [] r.kind = "valid" /\ ~r.expiring ->
                    Goto(o, IF joined[o] = o THEN "clear" ELSE "lease") /\ UNCHANGED outcome
             [] OTHER ->
                    /\ Goto(o, IF joined[o] = o THEN "complete" ELSE "fail")
                    /\ outcome' = [outcome EXCEPT ![o] = IF joined[o] = o THEN "failed" ELSE @]
    /\ UNCHANGED <<brokerVars, flightVars, RunUnchanged, publishVars, snapshot, joined>>

-----------------------------------------------------------------------------
(* The leader of a flight. *)

LeaderUnchanged == <<brokerVars, flightVars, tableVars, collected, signal, snapshot, joined>>

(* The leader settles for failure and goes to complete its flight. *)
LeaderGivesUp(o) ==
    /\ Goto(o, "complete")
    /\ outcome' = [outcome EXCEPT ![o] = IF @ = "rejected" THEN @ ELSE "failed"]
    /\ UNCHANGED <<LeaderUnchanged, outsideVars, historyVars, envelope>>

(* The leader's checks: before the refresh, before the commit (of a refresh that *)
(* succeeded) and after it.                                                      *)
AtLeaderCheck(o) ==
    \/ \E s \in {"lead", "stored", "conflicted"} : At(o, s)
    \/ At(o, "refreshed") /\ outcome[o] = "ok"

LeaderObserves(o) ==
    /\ AtLeaderCheck(o)
    /\ Observed(o)
    /\ PublishObserved(o, "run")
    /\ LeaderGivesUp(o)

LeaderInvalidated(o) ==
    /\ AtLeaderCheck(o)
    /\ ~IsSnapshotCurrent(o)
    /\ UNCHANGED publishVars
    /\ LeaderGivesUp(o)

MayGoOn(o) == ~Observed(o) /\ IsSnapshotCurrent(o)

StartRefresh(o) ==
    /\ At(o, "lead")
    /\ MayGoOn(o)
    /\ Advance(o, "refreshing")

(* The provider's answer.  It rotates the refresh token it accepts; the answer that *)
(* carries the new one can be lost.                                                 *)
ReturnFromRefresh(o) ==
    LET a == Account(o)
        accepted == envelope[o].gen = provider[a]
    IN  /\ At(o, "refreshing")
        /\ \/ /\ accepted
              /\ provider' = [provider EXCEPT ![a] = @ + 1]
              /\ \/ /\ outcome' = [outcome EXCEPT ![o] = "ok"]
                    /\ envelope' = [envelope EXCEPT ![o].gen = provider[a] + 1, ![o].expiring = FALSE]
                 \/ /\ "lostanswer" \in AdminCalls
                    /\ outcome' = [outcome EXCEPT ![o] = "failed"]
                    /\ UNCHANGED envelope
           \/ /\ ~accepted
              /\ outcome' = [outcome EXCEPT ![o] = "rejected"]
              /\ UNCHANGED <<provider, envelope>>
           \/ /\ outcome' = [outcome EXCEPT ![o] = "failed"]
              /\ UNCHANGED <<provider, envelope>>
        /\ late' = IF MayGoOn(o) THEN late ELSE late \cup {o}
        /\ Goto(o, "refreshed")
        /\ UNCHANGED <<LeaderUnchanged, publishVars, replacement, store, superseded,
                       forcedRevision>>

(* Mutated: commits whatever the provider returned, without the second check. *)
MayCommitUnchecked(o) ==
    /\ At(o, "refreshed")
    /\ outcome[o] = "ok"
    /\ Advance(o, "store")

MayCommit(o) ==
    /\ At(o, "refreshed")
    /\ outcome[o] = "ok"
    /\ MayGoOn(o)
    /\ Advance(o, "store")

MayNotCommit(o) ==
    /\ At(o, "refreshed")
    /\ outcome[o] # "ok"
    /\ Advance(o, "complete")

(* Mutated: the store accepts the new envelope over any revision. *)
CommitOverAny(o) ==
    LET a == Account(o) IN
    /\ At(o, "store")
    /\ store[a].rev # 0
    /\ store' = [store EXCEPT ![a] = [envelope[o] EXCEPT !.rev = store[a].rev + 1]]
    /\ superseded' = superseded \cup {<<a, envelope[o].rev>>}
    /\ Goto(o, "stored")
    /\ UNCHANGED <<LeaderUnchanged, publishVars, replacement, provider, outcome, envelope,
                   late, forcedRevision>>

(* SecretStore->Store with the loaded revision as the expected one. *)
Commit(o) ==
    LET a == Account(o) IN
    /\ At(o, "store")
    /\ store[a].rev = envelope[o].rev
    /\ store' = [store EXCEPT ![a] = [envelope[o] EXCEPT !.rev = store[a].rev + 1]]
    /\ superseded' = superseded \cup {<<a, envelope[o].rev>>}
    /\ Goto(o, "stored")
    /\ UNCHANGED <<LeaderUnchanged, publishVars, replacement, provider, outcome, envelope,
                   late, forcedRevision>>

CommitConflicts(o) ==
    /\ At(o, "store")
    /\ store[Account(o)].rev # envelope[o].rev
    /\ Advance(o, "conflicted")

(* The store fails, or its context sees the cancellation or the deadline first. *)
CommitFails(o) ==
    /\ At(o, "store")
    /\ "storefault" \in AdminCalls \/ signal[o] # "none"
    /\ UNCHANGED publishVars
    /\ LeaderGivesUp(o)

KeepCommit(o) ==
    /\ At(o, "stored")
    /\ MayGoOn(o)
    /\ Advance(o, "clear")

ReloadWinner(o) ==
    /\ At(o, "conflicted")
    /\ MayGoOn(o)
    /\ Advance(o, "reload")

ClearForceRefresh(o) ==
    LET a == Account(o) IN
    /\ At(o, "clear")
    /\ binding' = IF binding[a].registered /\ binding[a].epoch = snapshot[o].epoch
                  THEN [binding EXCEPT ![a].force = FALSE] ELSE binding
    /\ outcome' = [outcome EXCEPT ![o] = "ok"]
    /\ Goto(o, "complete")
    /\ UNCHANGED <<shutdown, freshness, lastFreshness, revoked, connectionEpoch, flightVars,
                   RunUnchanged, publishVars, snapshot, envelope, joined>>

(* Mutated: removes the flight without waking the operations that joined it. *)
FinishSilently(o, result) ==
    /\ UNCHANGED flightResult
    /\ refreshFlights' = [refreshFlights EXCEPT ![Account(o)] = IF @ = o THEN NoOp ELSE @]

(* Mutated: keeps the leader's own outcome as the flight's result. *)
FinishWithOutcome(o, result) ==
    /\ flightResult' = [flightResult EXCEPT ![o] = IF @ = "pending" THEN outcome[o] ELSE @]
    /\ refreshFlights' = [refreshFlights EXCEPT ![Account(o)] = IF @ = o THEN NoOp ELSE @]

FinishFlight(o, result) ==
    /\ flightResult' = [flightResult EXCEPT ![o] = IF @ = "pending" THEN result ELSE @]
    /\ refreshFlights' = [refreshFlights EXCEPT ![Account(o)] = IF @ = o THEN NoOp ELSE @]

(* One mutex section: quarantine after a rejection, wake the followers, drop the flight. *)
CompleteRefreshFlight(o) ==
    /\ At(o, "complete")
    /\ IF outcome[o] = "rejected"
       THEN QuarantineSnapshot(o)
       ELSE UNCHANGED <<binding, freshness, revoked>>
    /\ FinishFlight(o, IF outcome[o] = "ok" THEN "ok" ELSE "failed")
    /\ Goto(o, "settled")
    /\ UNCHANGED <<shutdown, lastFreshness, connectionEpoch, flightsToFail, RunUnchanged, publishVars,
                   snapshot, envelope, outcome, joined>>

LeaderSettles(o) ==
    /\ At(o, "settled")
    /\ ~Observed(o)
    /\ Advance(o, IF outcome[o] = "ok" THEN "lease" ELSE "fail")

-----------------------------------------------------------------------------
(* PublishLease, the end of the run thread, and the other threads of an operation. *)

PrepareLease(o) ==
    /\ At(o, "lease")
    /\ MayGoOn(o)
    /\ Advance(o, "leased")

(* The access token expired while the operation waited: no lease can be made of it. *)
LeaseExpires(o) ==
    /\ "clock" \in AdminCalls
    /\ At(o, "lease")
    /\ Advance(o, "fail")

CheckLease(o) ==
    /\ At(o, "leased")
    /\ IsSnapshotCurrent(o)
    /\ Advance(o, "publish")

PublishLease(o) ==
    /\ At(o, "publish")
    /\ Publish(o, "run", "Succeeded")
    /\ Goto(o, "exit")
    /\ UNCHANGED <<brokerVars, flightVars, RunUnchanged, snapshot, envelope, outcome, joined>>

(* Mutated: only a thread that published its own result gives back its slot. *)
RemoveUnlessInterrupted(o) ==
    /\ At(o, "exit")
    /\ publisher[o] = "run"
    /\ physicalIds' = physicalIds \ {RequestIdOf[o]}
    /\ Goto(o, "done")
    /\ UNCHANGED <<brokerVars, flightVars, activeOperations, outsideVars, historyVars, collected, signal,
                   publishVars, snapshot, envelope, outcome, joined>>

RemovePhysicalOperation(o) ==
    /\ At(o, "exit")
    /\ physicalIds' = physicalIds \ {RequestIdOf[o]}
    /\ Goto(o, "done")
    /\ UNCHANGED <<brokerVars, flightVars, activeOperations, outsideVars, historyVars, collected, signal,
                   publishVars, snapshot, envelope, outcome, joined>>

Admitted(o) == pc[o] \in RunStates \cup {"done"}

(* Mutated: the monitor looks at the cancellation token only. *)
MonitorIgnoresDeadline(o) ==
    /\ Admitted(o)
    /\ terminal[o] = "none"
    /\ signal[o] = "cancel"
    /\ PublishObserved(o, "monitor")
    /\ UNCHANGED <<brokerVars, flightVars, RunUnchanged, runVars>>

Monitor(o) ==
    /\ Admitted(o)
    /\ terminal[o] = "none"
    /\ signal[o] # "none"
    /\ PublishObserved(o, "monitor")
    /\ UNCHANGED <<brokerVars, flightVars, RunUnchanged, runVars>>

(* The thread whose Publish won takes the operation off the active table ... *)
RemoveOperation(o) ==
    /\ stage[o] = "won"
    /\ activeOperations' = [activeOperations EXCEPT ![RequestIdOf[o]] = NoOp]
    /\ stage' = [stage EXCEPT ![o] = "removed"]
    /\ UNCHANGED <<brokerVars, flightVars, physicalIds, outsideVars, historyVars, collected, signal,
                   terminal, publisher, deliveries, runVars>>

(* ... and then hands the result to the sink. *)
EnqueueCredentialResult(o) ==
    /\ stage[o] = "removed"
    /\ stage' = [stage EXCEPT ![o] = "delivered"]
    /\ deliveries' = [deliveries EXCEPT ![o] = @ + 1]
    /\ UNCHANGED <<brokerVars, flightVars, RunUnchanged, terminal, publisher, runVars>>

CancelOperation(o) ==
    /\ signal' = [signal EXCEPT ![o] = IF @ = "none" THEN "cancel" ELSE @]
    /\ Publish(o, "canceller", "Cancelled")
    /\ UNCHANGED <<brokerVars, flightVars, tableVars, outsideVars, historyVars, runVars>>

(* The caller's handle. *)
Cancel(o) ==
    /\ "cancel" \in AdminCalls
    /\ o \in Interruptible
    /\ Admitted(o)
    /\ terminal[o] = "none"
    /\ CancelOperation(o)
    /\ UNCHANGED collected

(* A bulk call reaches an operation it collected, after releasing the mutex. *)
CancelCollected(o) ==
    /\ o \in collected
    /\ collected' = collected \ {o}
    /\ CancelOperation(o)

(* The parent token is cancelled, or the deadline passes: nothing is published yet. *)
Signal(o, s) ==
    /\ o \in Interruptible
    /\ signal[o] = "none"
    /\ signal' = [signal EXCEPT ![o] = s]
    /\ UNCHANGED <<brokerVars, flightVars, tableVars, outsideVars, historyVars, collected, publishVars, runVars>>

CancelParent(o) == "parent" \in AdminCalls /\ pc[o] \notin {"rejected", "done"} /\ Signal(o, "cancel")
ExpireDeadline(o) == "deadline" \in AdminCalls /\ pc[o] \in RunStates /\ Signal(o, "timeout")

-----------------------------------------------------------------------------
(* Administrative calls. *)

AdminUnchanged == <<tableVars, outsideVars, historyVars, publishVars, runVars, signal>>

MayAdminister(call, A) ==
    /\ call \in AdminCalls
    /\ \A a \in A : binding[a].registered /\ binding[a].epoch < MaxEpoch

Invalidated(b) == [registered |-> b.registered, epoch |-> b.epoch + 1,
                   force |-> FALSE, quarantined |-> b.quarantined]

(* InvalidateAccount, and InvalidateAuthProfile over the accounts of a profile. *)
InvalidateAccounts(A) ==
    /\ RevokeSources(ConnectionsOf(A))
    /\ binding' = [a \in Accounts |->
            IF a \in A THEN Invalidated(binding[a]) ELSE binding[a]]
    /\ Collect(OpsOfAccounts(A))
    /\ UNCHANGED <<shutdown, lastFreshness, connectionEpoch, flightVars, AdminUnchanged>>

InvalidateAccount(a) == MayAdminister("invalidate", {a}) /\ InvalidateAccounts({a})

InvalidateAuthProfile(p) ==
    LET A == {a \in Accounts : ProfileOf[a] = p /\ binding[a].registered} IN
    /\ A # {}
    /\ MayAdminister("profile", A)
    /\ InvalidateAccounts(A)

QuarantineAccountForReauthentication(a) ==
    /\ MayAdminister("quarantine", {a})
    /\ QuarantineEntry(a)
    /\ Collect(OpsOfAccounts({a}))
    /\ UNCHANGED <<shutdown, lastFreshness, connectionEpoch, flightVars, AdminUnchanged>>

InvalidateConnection(c) ==
    /\ "connection" \in AdminCalls
    /\ connectionEpoch[c] + 1 < MaxEpoch
    /\ connectionEpoch' = [connectionEpoch EXCEPT ![c] = @ + 1]
    /\ RevokeSources({c})
    /\ Collect({o \in Ops : ConnectionOf[o] = c})
    /\ UNCHANGED <<shutdown, binding, lastFreshness, flightVars, AdminUnchanged>>

ForceRefreshAccount(a) ==
    /\ MayAdminister("force", {a})
    /\ RevokeSources(ConnectionsOf({a}))
    /\ binding' = [binding EXCEPT ![a].force = TRUE, ![a].epoch = @ + 1]
    /\ forcedRevision' = [forcedRevision EXCEPT ![a] = store[a].rev]
    /\ UNCHANGED <<shutdown, lastFreshness, connectionEpoch, flightVars, collected, tableVars,
                   outsideVars, late, superseded, publishVars, runVars, signal>>

BeginShutdown ==
    /\ "shutdown" \in AdminCalls
    /\ ~shutdown
    /\ shutdown' = TRUE
    /\ revoked' = revoked \cup SourcesOf(Connections)
    /\ Collect(Ops)
    /\ flightsToFail' = {refreshFlights[a] : a \in Accounts} \ {NoOp}
    /\ refreshFlights' = [a \in Accounts |-> NoOp]
    /\ UNCHANGED <<binding, freshness, lastFreshness, connectionEpoch, flightResult, AdminUnchanged>>

(* BeginShutdown, past the mutex: fails a flight it took, if its leader has not completed it. *)
FailFlight(o) ==
    /\ o \in flightsToFail
    /\ flightsToFail' = flightsToFail \ {o}
    /\ flightResult' = [flightResult EXCEPT ![o] = IF @ = "pending" THEN "failed" ELSE @]
    /\ UNCHANGED <<brokerVars, refreshFlights, AdminUnchanged, collected>>

(* NotifyCredentialReplaced: verify the stored revision, then (later) lift the quarantine. *)
VerifyReplacement(a) ==
    LET verified == ~shutdown /\ binding[a].registered
                    /\ store[a].kind = "valid" /\ store[a].rev = replacement[a].rev
    IN  /\ replacement[a].stage = "stored"
        /\ replacement' = [replacement EXCEPT ![a] =
                IF verified THEN [@ EXCEPT !.stage = "verified"] ELSE NoReplacement]
        /\ UNCHANGED <<brokerVars, flightVars, tableVars, store, provider, historyVars,
                       collected, publishVars, runVars, signal>>

PublishReplacement(a) ==
    /\ replacement[a].stage = "verified"
    /\ replacement' = [replacement EXCEPT ![a] = NoReplacement]
    /\ IF shutdown
       THEN UNCHANGED <<binding, freshness, revoked, collected>>
       ELSE /\ RevokeSources(ConnectionsOf({a}))
            /\ binding' = [binding EXCEPT ![a].quarantined = FALSE, ![a].force = FALSE,
                                          ![a].epoch = @ + 1]
            /\ Collect(OpsOfAccounts({a}))
    /\ UNCHANGED <<shutdown, lastFreshness, connectionEpoch, flightVars, tableVars, store, provider,
                   historyVars, publishVars, runVars, signal>>

-----------------------------------------------------------------------------
(* Outside the broker: the login that stores a new grant, damage, and the clock. *)

StoreUnchanged == <<brokerVars, flightVars, tableVars, historyVars, collected, publishVars, runVars, signal>>

StoreNewGrant(a) ==
    /\ "login" \in AdminCalls
    /\ replacement[a].stage = "none"
    /\ store[a].rev < MaxRevision
    /\ provider' = [provider EXCEPT ![a] = @ + 1]
    /\ store' = [store EXCEPT ![a] = [rev |-> store[a].rev + 1, gen |-> provider[a] + 1,
                                      expiring |-> FALSE, kind |-> "valid"]]
    /\ replacement' = [replacement EXCEPT ![a] = [stage |-> "stored", rev |-> store[a].rev + 1]]
    /\ UNCHANGED StoreUnchanged

DamageRecord(a) ==
    /\ store[a].kind = "valid"
    /\ \/ "corrupt" \in AdminCalls /\ store' = [store EXCEPT ![a].kind = "corrupt"]
       \/ "delete" \in AdminCalls /\ store' = [store EXCEPT ![a] = NoRecord]
    /\ UNCHANGED <<StoreUnchanged, provider, replacement>>

NearExpiry(a) ==
    /\ "clock" \in AdminCalls
    /\ store[a].kind = "valid"
    /\ ~store[a].expiring
    /\ store' = [store EXCEPT ![a].expiring = TRUE]
    /\ UNCHANGED <<StoreUnchanged, provider, replacement>>

-----------------------------------------------------------------------------
Caller(o) == RejectResolve(o) \/ TakeSnapshot(o) \/ RejectSnapshot(o) \/ Admit(o)

Leader(o) ==
    \/ LeaderObserves(o) \/ LeaderInvalidated(o) \/ StartRefresh(o)
    \/ MayCommit(o) \/ MayNotCommit(o)
    \/ Commit(o) \/ CommitConflicts(o) \/ CommitFails(o)
    \/ KeepCommit(o) \/ ReloadWinner(o) \/ ClearForceRefresh(o)
    \/ CompleteRefreshFlight(o) \/ LeaderSettles(o)

Run(o) ==
    \/ StartRun(o) \/ RejectContext(o) \/ RunObserves(o) \/ RunInvalidated(o) \/ PublishFailure(o)
    \/ Load(o) \/ CheckLoaded(o) \/ QuarantineDamaged(o)
    \/ AcquireRefreshFlight(o) \/ FollowerWakes(o) \/ Reload(o)
    \/ Leader(o)
    \/ PrepareLease(o) \/ LeaseExpires(o) \/ CheckLease(o) \/ PublishLease(o)
    \/ RemovePhysicalOperation(o)

Deliver(o) == RemoveOperation(o) \/ EnqueueCredentialResult(o)

Administer ==
    \/ \E a \in Accounts : \/ RegisterBinding(a) \/ InvalidateAccount(a)
                           \/ QuarantineAccountForReauthentication(a) \/ ForceRefreshAccount(a)
                           \/ VerifyReplacement(a) \/ PublishReplacement(a)
                           \/ StoreNewGrant(a) \/ DamageRecord(a) \/ NearExpiry(a)
    \/ \E p \in Profiles : InvalidateAuthProfile(p)
    \/ \E c \in Connections : InvalidateConnection(c)
    \/ BeginShutdown
    \/ \E o \in Ops : FailFlight(o) \/ CancelCollected(o)

Next ==
    \/ \E o \in Ops : \/ Caller(o) \/ Run(o) \/ ReturnFromRefresh(o) \/ Monitor(o) \/ Deliver(o)
                      \/ Cancel(o) \/ CancelParent(o) \/ ExpireDeadline(o)
    \/ Administer

Spec == Init /\ [][Next]_vars

(* The threads of the broker are scheduled, the clock reaches every deadline, and a  *)
(* bulk call or a publish that has begun goes on.  Nothing is assumed of the store,  *)
(* of the provider's Refresh or of any caller.                                       *)
FairThreads ==
    \A o \in Ops :
        /\ WF_vars(Monitor(o))
        /\ WF_vars(Deliver(o))
        /\ WF_vars(ExpireDeadline(o))

FairSpec == Spec /\ FairThreads

(* The run threads run, and every store call and Refresh returns: assumed only by *)
(* SlotsAreReturned.                                                              *)
FairReturns ==
    \A o \in Ops : WF_vars(Run(o)) /\ WF_vars(ReturnFromRefresh(o))

-----------------------------------------------------------------------------
(* Whatever threads race to end a resolve (its run thread, its monitor, the  *)
(* caller's Cancel, an invalidation or shutdown), its sink receives at most  *)
(* one result: the compare-and-swap of Publish.                              *)
AtMostOneResult == \A o \in Ops : deliveries[o] <= 1

(* A run thread never ends with its resolve unanswered, on any of its exits. *)
RunAnswers == \A o \in Ops : pc[o] \in {"exit", "done"} => terminal[o] # "none"

(* Every resolve is answered once when its thread ends, and never a second time. *)
ResolvesAreAnsweredOnce == AtMostOneResult /\ RunAnswers

(* A published lease that can still be dispatched belongs to the present: its   *)
(* account was not invalidated, quarantined or forced to refresh, nor its       *)
(* connection invalidated, nor the broker shut down, since the resolve froze    *)
(* its snapshot, even when that happened between the last check and Publish.    *)
LiveLeaseIsCurrent ==
    \A o \in Ops :
        terminal[o] = "Succeeded" /\ <<ConnectionOf[o], snapshot[o].freshness>> \notin revoked
        => /\ IsSnapshotCurrent(o)
           /\ ~binding[Account(o)].quarantined

(* At most one operation of an account is inside the provider's Refresh, also   *)
(* after a shutdown emptied the table of flights: "per-account single-flight    *)
(* refresh".                                                                    *)
SingleFlightRefresh ==
    \A o, q \in Ops :
        pc[o] = "refreshing" /\ pc[q] = "refreshing" /\ Account(o) = Account(q) => o = q

(* A refresh whose answer came after its resolve had ended or had become stale  *)
(* writes nothing to the secure store.                                          *)
LateRefreshNeverCommits ==
    [][\A o \in Ops : pc[o] = "store" /\ pc'[o] = "stored" => o \notin late]_vars

(* The broker's commit replaces exactly the grant it refreshed: a credential    *)
(* that a login stored in the meantime is not overwritten by the rotation of    *)
(* the older one.                                                               *)
CommitNeverOverwritesNewerGrant ==
    [][\A o \in Ops : pc[o] = "store" /\ pc'[o] = "stored" =>
            store[Account(o)].gen < store'[Account(o)].gen]_vars

(* A follower is never left on a flight that nobody will complete.              *)
FollowersAreNotStranded ==
    \A o \in Ops : pc[o] = "wait" =>
        LET l == joined[o] IN
        \/ flightResult[l] # "pending"
        \/ l \in flightsToFail
        \/ pc[l] \in LeaderStates \cup {"reload", "quarantine"}

(* The physical table lists exactly the run threads that have not returned: a   *)
(* cancelled resolve whose store or provider call still runs keeps its slot.    *)
PhysicalTableIsExact ==
    /\ physicalIds = {RequestIdOf[o] : o \in Running}
    /\ \A o, q \in Running : RequestIdOf[o] = RequestIdOf[q] => o = q
    /\ Cardinality(physicalIds) <= MaxConcurrentOperations

(* An account is asked to refresh at most once per near-expiry envelope: no     *)
(* refresh starts from a revision this broker has already replaced.             *)
RefreshOncePerEnvelope ==
    \A o \in Ops : pc[o] = "refreshing" => <<Account(o), envelope[o].rev>> \notin superseded

(* A resolve whose snapshot carries a forced refresh succeeds only with a credential  *)
(* committed after the force was requested: "forces the next resolve to refresh even  *)
(* when the loaded access-token expiry is outside the normal skew".  (The leader of a *)
(* flight has refreshed itself; a follower takes what it reloads.)                    *)
ForcedResolveRefreshes ==
    \A o \in Ops :
        terminal[o] = "Succeeded" /\ snapshot[o].force /\ joined[o] # o
        => envelope[o].rev > forcedRevision[Account(o)]

(* Every admitted resolve delivers its result although the store and the        *)
(* provider may never return.                                                   *)
AdmittedDelivers == \A o \in Ops : pc[o] = "start" ~> stage[o] = "delivered"

(* When the store calls and refreshes it waits for return, every run thread     *)
(* gives back its slot, followers included.                                     *)
SlotsAreReturned == FairReturns => \A o \in Ops : pc[o] = "start" ~> pc[o] = "done"

(* An admitted resolve comes to its end: its caller hears, and its thread is freed. *)
AdmittedEnds == AdmittedDelivers /\ SlotsAreReturned
=============================================================================
