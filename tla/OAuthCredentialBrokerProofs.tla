--------------------- MODULE OAuthCredentialBrokerProofs ---------------------
(***************************************************************************)
(* For every set of requests, connections and accounts, every capacity and *)
(* every combination of outside calls: the type invariant, the accounts'   *)
(* single-flight refresh, the worth of a published lease, and how a        *)
(* resolve ends: answered once, its slot counted exactly as long as its    *)
(* thread runs, with no late or overtaken refresh stored.                  *)
(*                                                                         *)
(* First what the shared helpers do to the parts of the type invariant,    *)
(* then one lemma per action, which only has to look at the parts its      *)
(* action writes.  Flights, leases and ends follow, each from invariants   *)
(* of its own over those before.                                           *)
(***************************************************************************)
EXTENDS OAuthCredentialBroker, FiniteSetTheorems, TLAPS

(* Parts of the state that an action leaves alone keep their types. *)
LEMMA UnchangedTypes ==
    /\ BrokerTypes /\ UNCHANGED brokerVars => BrokerTypes'
    /\ TableTypes /\ UNCHANGED tableVars => TableTypes'
    /\ FlightTypes /\ UNCHANGED flightVars => FlightTypes'
    /\ OutsideTypes /\ UNCHANGED outsideVars => OutsideTypes'
    /\ HistoryTypes /\ UNCHANGED historyVars => HistoryTypes'
    /\ PublishTypes /\ UNCHANGED publishVars => PublishTypes'
    /\ RunTypes /\ UNCHANGED runVars => RunTypes'
    /\ SignalTypes /\ UNCHANGED <<collected, signal>> => SignalTypes'
BY DEF BrokerTypes, brokerVars, TableTypes, tableVars, FlightTypes, flightVars, OutsideTypes,
       outsideVars, HistoryTypes, historyVars, PublishTypes, publishVars, RunTypes, runVars, SignalTypes

LEMMA AccountType == ASSUME NEW o \in Ops PROVE Account(o) \in Accounts /\ ConnectionOf[o] \in Connections
BY TopologyAssumption DEF Account

LEMMA PublishKeepsTypes ==
    ASSUME PublishTypes, NEW o \in Ops, NEW t \in Publishers, NEW k \in Terminals, Publish(o, t, k)
    PROVE  PublishTypes'
BY DEF PublishTypes, Publish, Stages

LEMMA SignalKindType == ASSUME NEW o \in Ops PROVE SignalKind(o) \in Terminals
BY DEF SignalKind, Terminals

LEMMA GotoKeepsTypes ==
    ASSUME RunTypes, NEW o \in Ops, NEW s \in RunStates \cup CallerStates, Goto(o, s),
           UNCHANGED <<snapshot, envelope, outcome, joined>>
    PROVE  RunTypes'
BY DEF RunTypes, Goto

LEMMA AdvanceKeepsTypes ==
    ASSUME TypeOK, NEW o \in Ops, NEW s \in RunStates, Advance(o, s)
    PROVE  TypeOK'
BY UnchangedTypes, GotoKeepsTypes DEF TypeOK, Advance, RunUnchanged

LEMMA RevokeKeepsTypes ==
    ASSUME BrokerTypes, NEW C \in SUBSET Connections, RevokeSources(C)
    PROVE  freshness' \in [Connections -> Nat] /\ revoked' \subseteq Connections \X Nat
<1>1. SourcesOf(C) \subseteq Connections \X Nat
    BY DEF SourcesOf, BrokerTypes
<1> QED BY <1>1 DEF RevokeSources, BrokerTypes

LEMMA ConnectionsOfType == ASSUME NEW A PROVE ConnectionsOf(A) \in SUBSET Connections
BY DEF ConnectionsOf

LEMMA QuarantineKeepsTypes ==
    ASSUME BrokerTypes, NEW a \in Accounts, QuarantineEntry(a),
           UNCHANGED <<shutdown, lastFreshness, connectionEpoch>>
    PROVE  BrokerTypes'
<1>1. freshness' \in [Connections -> Nat] /\ revoked' \subseteq Connections \X Nat
    BY RevokeKeepsTypes, ConnectionsOfType DEF QuarantineEntry
<1>2. binding' \in [Accounts -> Bindings]
    BY DEF QuarantineEntry, BrokerTypes, Bindings
<1> QED BY <1>1, <1>2 DEF BrokerTypes

LEMMA QuarantineSnapshotKeepsTypes ==
    ASSUME BrokerTypes, NEW o \in Ops, QuarantineSnapshot(o),
           UNCHANGED <<shutdown, lastFreshness, connectionEpoch>>
    PROVE  BrokerTypes'
<1>1. CASE QuarantineEntry(Account(o))
    BY <1>1, QuarantineKeepsTypes, AccountType
<1>2. CASE UNCHANGED <<binding, freshness, revoked>>
    BY <1>2 DEF BrokerTypes
<1> QED BY <1>1, <1>2 DEF QuarantineSnapshot

LEMMA CollectKeepsTypes ==
    ASSUME SignalTypes, TableTypes, NEW O, Collect(O), UNCHANGED signal
    PROVE  SignalTypes'
<1>1. ActiveOps \subseteq Ops
    BY DEF ActiveOps, TableTypes
<1> QED BY <1>1 DEF Collect, SignalTypes

LEMMA FinishFlightKeepsTypes ==
    ASSUME FlightTypes, NEW o \in Ops, NEW r \in {"ok", "failed"}, FinishFlight(o, r),
           UNCHANGED flightsToFail
    PROVE  FlightTypes'
BY AccountType DEF FlightTypes, FinishFlight

LEMMA CancelKeepsTypes ==
    ASSUME TypeOK, NEW o \in Ops, CancelOperation(o), collected' \subseteq Ops
    PROVE  TypeOK'
<1>1. PublishTypes'
    BY PublishKeepsTypes DEF TypeOK, CancelOperation, Publishers, Terminals
<1>2. SignalTypes'
    BY DEF TypeOK, CancelOperation, SignalTypes
<1> QED BY <1>1, <1>2, UnchangedTypes DEF TypeOK, CancelOperation

LEMMA NoRecordType == NoRecord \in Records /\ [NoRecord EXCEPT !.kind = "unavailable"] \in Records
BY DEF NoRecord, Records

LEMMA LoadableType == ASSUME OutsideTypes, NEW o \in Ops, NEW r \in Loadable(o) PROVE r \in Records
BY NoRecordType, AccountType DEF Loadable, OutsideTypes

LEMMA GiveUpKeepsTypes ==
    ASSUME TypeOK, NEW o \in Ops, LeaderGivesUp(o), PublishTypes'
    PROVE  TypeOK'
<1>1. RunTypes'
    BY DEF TypeOK, LeaderGivesUp, LeaderUnchanged, RunTypes, Goto, RunStates, Outcomes
<1> QED BY <1>1, UnchangedTypes DEF TypeOK, LeaderGivesUp, LeaderUnchanged

LEMMA StartRunType == ASSUME TypeOK, NEW o \in Ops, StartRun(o) PROVE TypeOK'
BY AdvanceKeepsTypes DEF StartRun, RunStates

LEMMA RejectContextType == ASSUME TypeOK, NEW o \in Ops, RejectContext(o) PROVE TypeOK'
BY AdvanceKeepsTypes DEF RejectContext, RunStates

LEMMA RunInvalidatedType == ASSUME TypeOK, NEW o \in Ops, RunInvalidated(o) PROVE TypeOK'
BY AdvanceKeepsTypes DEF RunInvalidated, RunStates

LEMMA CheckLoadedType == ASSUME TypeOK, NEW o \in Ops, CheckLoaded(o) PROVE TypeOK'
BY AdvanceKeepsTypes DEF CheckLoaded, RunStates

LEMMA FollowerWakesType == ASSUME TypeOK, NEW o \in Ops, FollowerWakes(o) PROVE TypeOK'
BY AdvanceKeepsTypes DEF FollowerWakes, RunStates

LEMMA StartRefreshType == ASSUME TypeOK, NEW o \in Ops, StartRefresh(o) PROVE TypeOK'
BY AdvanceKeepsTypes DEF StartRefresh, RunStates

LEMMA MayCommitType == ASSUME TypeOK, NEW o \in Ops, MayCommit(o) PROVE TypeOK'
BY AdvanceKeepsTypes DEF MayCommit, RunStates

LEMMA MayNotCommitType == ASSUME TypeOK, NEW o \in Ops, MayNotCommit(o) PROVE TypeOK'
BY AdvanceKeepsTypes DEF MayNotCommit, RunStates

LEMMA CommitConflictsType == ASSUME TypeOK, NEW o \in Ops, CommitConflicts(o) PROVE TypeOK'
BY AdvanceKeepsTypes DEF CommitConflicts, RunStates

LEMMA KeepCommitType == ASSUME TypeOK, NEW o \in Ops, KeepCommit(o) PROVE TypeOK'
BY AdvanceKeepsTypes DEF KeepCommit, RunStates

LEMMA ReloadWinnerType == ASSUME TypeOK, NEW o \in Ops, ReloadWinner(o) PROVE TypeOK'
BY AdvanceKeepsTypes DEF ReloadWinner, RunStates

LEMMA LeaderSettlesType == ASSUME TypeOK, NEW o \in Ops, LeaderSettles(o) PROVE TypeOK'
BY AdvanceKeepsTypes DEF LeaderSettles, RunStates

LEMMA PrepareLeaseType == ASSUME TypeOK, NEW o \in Ops, PrepareLease(o) PROVE TypeOK'
BY AdvanceKeepsTypes DEF PrepareLease, RunStates

LEMMA LeaseExpiresType == ASSUME TypeOK, NEW o \in Ops, LeaseExpires(o) PROVE TypeOK'
BY AdvanceKeepsTypes DEF LeaseExpires, RunStates

LEMMA CheckLeaseType == ASSUME TypeOK, NEW o \in Ops, CheckLease(o) PROVE TypeOK'
BY AdvanceKeepsTypes DEF CheckLease, RunStates

LEMMA RejectResolveType == ASSUME TypeOK, NEW o \in Ops, RejectResolve(o) PROVE TypeOK'
<1>1. RunTypes'
    BY GotoKeepsTypes DEF TypeOK, RejectResolve, CallerStates
<1> QED BY <1>1, UnchangedTypes DEF TypeOK, RejectResolve

LEMMA RejectSnapshotType == ASSUME TypeOK, NEW o \in Ops, RejectSnapshot(o) PROVE TypeOK'
<1>1. RunTypes'
    BY GotoKeepsTypes DEF TypeOK, RejectSnapshot, CallerStates
<1> QED BY <1>1, UnchangedTypes DEF TypeOK, RejectSnapshot

LEMMA RegisterBindingType == ASSUME TypeOK, NEW a \in Accounts, RegisterBinding(a) PROVE TypeOK'
<1>1. BrokerTypes'
    BY DEF TypeOK, BrokerTypes, Bindings, RegisterBinding
<1> QED BY <1>1, UnchangedTypes DEF TypeOK, RegisterBinding

LEMMA TakeSnapshotType == ASSUME TypeOK, NEW o \in Ops, TakeSnapshot(o) PROVE TypeOK'
<1>1. BrokerTypes'
    BY AccountType DEF TypeOK, BrokerTypes, TakeSnapshot
<1>2. RunTypes'
    BY AccountType DEF TypeOK, RunTypes, BrokerTypes, Bindings, Snapshots, TakeSnapshot, Goto, CallerStates, Account
<1> QED BY <1>1, <1>2, UnchangedTypes DEF TypeOK, TakeSnapshot

LEMMA AdmitType == ASSUME TypeOK, NEW o \in Ops, Admit(o) PROVE TypeOK'
<1>1. TableTypes'
    BY TopologyAssumption DEF TypeOK, TableTypes, Admit
<1>2. RunTypes'
    BY GotoKeepsTypes DEF TypeOK, Admit, RunStates
<1> QED BY <1>1, <1>2, UnchangedTypes DEF TypeOK, Admit

LEMMA RunObservesType == ASSUME TypeOK, NEW o \in Ops, RunObserves(o) PROVE TypeOK'
<1>1. PublishTypes'
    BY PublishKeepsTypes, SignalKindType DEF TypeOK, RunObserves, PublishObserved, Publishers
<1>2. RunTypes'
    BY GotoKeepsTypes DEF TypeOK, RunObserves, RunStates
<1> QED BY <1>1, <1>2, UnchangedTypes DEF TypeOK, RunObserves, RunUnchanged

LEMMA PublishFailureType == ASSUME TypeOK, NEW o \in Ops, PublishFailure(o) PROVE TypeOK'
<1>1. PublishTypes'
    BY PublishKeepsTypes DEF TypeOK, PublishFailure, Publishers, Terminals
<1>2. RunTypes'
    BY GotoKeepsTypes DEF TypeOK, PublishFailure, RunStates
<1> QED BY <1>1, <1>2, UnchangedTypes DEF TypeOK, PublishFailure, RunUnchanged

LEMMA PublishLeaseType == ASSUME TypeOK, NEW o \in Ops, PublishLease(o) PROVE TypeOK'
<1>1. PublishTypes'
    BY PublishKeepsTypes DEF TypeOK, PublishLease, Publishers, Terminals
<1>2. RunTypes'
    BY GotoKeepsTypes DEF TypeOK, PublishLease, RunStates
<1> QED BY <1>1, <1>2, UnchangedTypes DEF TypeOK, PublishLease, RunUnchanged

LEMMA LoadType == ASSUME TypeOK, NEW o \in Ops, Load(o) PROVE TypeOK'
<1>1. RunTypes'
    BY LoadableType DEF TypeOK, Load, RunTypes, Goto, RunStates
<1> QED BY <1>1, UnchangedTypes DEF TypeOK, Load, RunUnchanged

LEMMA ReloadType == ASSUME TypeOK, NEW o \in Ops, Reload(o) PROVE TypeOK'
<1>1. RunTypes'
    BY LoadableType DEF TypeOK, Reload, RunTypes, Goto, RunStates, Outcomes
<1> QED BY <1>1, UnchangedTypes DEF TypeOK, Reload, RunUnchanged

LEMMA QuarantineDamagedType == ASSUME TypeOK, NEW o \in Ops, QuarantineDamaged(o) PROVE TypeOK'
<1>1. BrokerTypes'
    BY QuarantineSnapshotKeepsTypes DEF TypeOK, QuarantineDamaged
<1>2. RunTypes'
    BY DEF TypeOK, QuarantineDamaged, RunTypes, Goto, RunStates, Outcomes
<1> QED BY <1>1, <1>2, UnchangedTypes DEF TypeOK, QuarantineDamaged, RunUnchanged

LEMMA AcquireRefreshFlightType == ASSUME TypeOK, NEW o \in Ops, AcquireRefreshFlight(o) PROVE TypeOK'
<1>1. FlightTypes'
    BY AccountType DEF TypeOK, AcquireRefreshFlight, FlightTypes
<1>2. RunTypes'
    BY AccountType DEF TypeOK, AcquireRefreshFlight, FlightTypes, RunTypes, Goto, RunStates
<1> QED BY <1>1, <1>2, UnchangedTypes DEF TypeOK, AcquireRefreshFlight, RunUnchanged

LEMMA LeaderObservesType == ASSUME TypeOK, NEW o \in Ops, LeaderObserves(o) PROVE TypeOK'
<1>1. PublishTypes'
    BY PublishKeepsTypes, SignalKindType DEF TypeOK, LeaderObserves, PublishObserved, Publishers
<1> QED BY <1>1, GiveUpKeepsTypes DEF LeaderObserves

LEMMA LeaderInvalidatedType == ASSUME TypeOK, NEW o \in Ops, LeaderInvalidated(o) PROVE TypeOK'
<1>1. PublishTypes'
    BY UnchangedTypes DEF TypeOK, LeaderInvalidated
<1> QED BY <1>1, GiveUpKeepsTypes DEF LeaderInvalidated

LEMMA CommitFailsType == ASSUME TypeOK, NEW o \in Ops, CommitFails(o) PROVE TypeOK'
<1>1. PublishTypes'
    BY UnchangedTypes DEF TypeOK, CommitFails
<1> QED BY <1>1, GiveUpKeepsTypes DEF CommitFails

LEMMA ReturnFromRefreshType == ASSUME TypeOK, NEW o \in Ops, ReturnFromRefresh(o) PROVE TypeOK'
<1>1. OutsideTypes'
    BY AccountType DEF TypeOK, ReturnFromRefresh, OutsideTypes
<1>2. HistoryTypes'
    BY DEF TypeOK, ReturnFromRefresh, HistoryTypes
<1>3. RunTypes'
    <2>1. provider[Account(o)] + 1 \in Nat
        BY AccountType DEF TypeOK, OutsideTypes
    <2>2. [envelope[o] EXCEPT !.gen = provider[Account(o)] + 1, !.expiring = FALSE] \in Records
        BY <2>1 DEF TypeOK, RunTypes, Records
    <2>3. envelope' = envelope \/ envelope' = [envelope EXCEPT ![o] = [envelope[o] EXCEPT !.gen = provider[Account(o)] + 1, !.expiring = FALSE]]
        BY DEF TypeOK, RunTypes, ReturnFromRefresh
    <2> QED BY <2>2, <2>3 DEF TypeOK, RunTypes, ReturnFromRefresh, LeaderUnchanged, Goto, RunStates, Outcomes
<1> QED BY <1>1, <1>2, <1>3, UnchangedTypes DEF TypeOK, ReturnFromRefresh, LeaderUnchanged

LEMMA CommitType == ASSUME TypeOK, NEW o \in Ops, Commit(o) PROVE TypeOK'
<1>1. OutsideTypes'
    <2>1. store[Account(o)].rev + 1 \in Nat
        BY AccountType DEF TypeOK, OutsideTypes, Records
    <2>2. [envelope[o] EXCEPT !.rev = store[Account(o)].rev + 1] \in Records
        BY <2>1 DEF TypeOK, RunTypes, Records
    <2> QED BY <2>2, AccountType DEF TypeOK, Commit, OutsideTypes
<1>2. HistoryTypes'
    BY AccountType DEF TypeOK, Commit, HistoryTypes, RunTypes, Records
<1>3. RunTypes'
    BY GotoKeepsTypes DEF TypeOK, Commit, LeaderUnchanged, RunStates
<1> QED BY <1>1, <1>2, <1>3, UnchangedTypes DEF TypeOK, Commit, LeaderUnchanged

LEMMA ClearForceRefreshType == ASSUME TypeOK, NEW o \in Ops, ClearForceRefresh(o) PROVE TypeOK'
<1>1. BrokerTypes'
    BY AccountType DEF TypeOK, ClearForceRefresh, BrokerTypes, Bindings
<1>2. RunTypes'
    BY DEF TypeOK, ClearForceRefresh, RunTypes, Goto, RunStates, Outcomes
<1> QED BY <1>1, <1>2, UnchangedTypes DEF TypeOK, ClearForceRefresh, RunUnchanged

LEMMA CompleteRefreshFlightType == ASSUME TypeOK, NEW o \in Ops, CompleteRefreshFlight(o) PROVE TypeOK'
<1>1. BrokerTypes'
    <2>1. CASE QuarantineSnapshot(o)
        BY <2>1, QuarantineSnapshotKeepsTypes DEF TypeOK, CompleteRefreshFlight
    <2>2. CASE UNCHANGED <<binding, freshness, revoked>>
        BY <2>2 DEF TypeOK, BrokerTypes, CompleteRefreshFlight
    <2> QED BY <2>1, <2>2 DEF CompleteRefreshFlight
<1>2. FlightTypes'
    BY FinishFlightKeepsTypes DEF TypeOK, CompleteRefreshFlight
<1>3. RunTypes'
    BY GotoKeepsTypes DEF TypeOK, CompleteRefreshFlight, RunStates
<1> QED BY <1>1, <1>2, <1>3, UnchangedTypes DEF TypeOK, CompleteRefreshFlight, RunUnchanged

LEMMA RemovePhysicalOperationType == ASSUME TypeOK, NEW o \in Ops, RemovePhysicalOperation(o) PROVE TypeOK'
<1>1. TableTypes'
    BY DEF TypeOK, RemovePhysicalOperation, TableTypes
<1>2. RunTypes'
    BY GotoKeepsTypes DEF TypeOK, RemovePhysicalOperation, CallerStates
<1> QED BY <1>1, <1>2, UnchangedTypes DEF TypeOK, RemovePhysicalOperation

LEMMA MonitorType == ASSUME TypeOK, NEW o \in Ops, Monitor(o) PROVE TypeOK'
<1>1. PublishTypes'
    BY PublishKeepsTypes, SignalKindType DEF TypeOK, Monitor, PublishObserved, Publishers
<1> QED BY <1>1, UnchangedTypes DEF TypeOK, Monitor, RunUnchanged

LEMMA RemoveOperationType == ASSUME TypeOK, NEW o \in Ops, RemoveOperation(o) PROVE TypeOK'
<1>1. TableTypes'
    BY DEF TypeOK, RemoveOperation, TableTypes
<1>2. PublishTypes'
    BY DEF TypeOK, RemoveOperation, PublishTypes, Stages
<1> QED BY <1>1, <1>2, UnchangedTypes DEF TypeOK, RemoveOperation

LEMMA EnqueueCredentialResultType == ASSUME TypeOK, NEW o \in Ops, EnqueueCredentialResult(o) PROVE TypeOK'
<1>1. PublishTypes'
    BY DEF TypeOK, EnqueueCredentialResult, PublishTypes, Stages
<1> QED BY <1>1, UnchangedTypes DEF TypeOK, EnqueueCredentialResult, RunUnchanged

LEMMA CancelType == ASSUME TypeOK, NEW o \in Ops, Cancel(o) PROVE TypeOK'
BY CancelKeepsTypes DEF TypeOK, SignalTypes, Cancel

LEMMA CancelCollectedType == ASSUME TypeOK, NEW o \in Ops, CancelCollected(o) PROVE TypeOK'
BY CancelKeepsTypes DEF TypeOK, SignalTypes, CancelCollected

LEMMA CancelParentType == ASSUME TypeOK, NEW o \in Ops, CancelParent(o) PROVE TypeOK'
<1>1. SignalTypes'
    BY DEF TypeOK, SignalTypes, CancelParent, Signal
<1> QED BY <1>1, UnchangedTypes DEF TypeOK, CancelParent, Signal

LEMMA ExpireDeadlineType == ASSUME TypeOK, NEW o \in Ops, ExpireDeadline(o) PROVE TypeOK'
<1>1. SignalTypes'
    BY DEF TypeOK, SignalTypes, ExpireDeadline, Signal
<1> QED BY <1>1, UnchangedTypes DEF TypeOK, ExpireDeadline, Signal

LEMMA InvalidateAccountsType ==
    ASSUME TypeOK, NEW A \in SUBSET Accounts, InvalidateAccounts(A)
    PROVE  TypeOK'
<1>1. BrokerTypes'
    <2>1. freshness' \in [Connections -> Nat] /\ revoked' \subseteq Connections \X Nat
        BY RevokeKeepsTypes, ConnectionsOfType DEF TypeOK, InvalidateAccounts
    <2>2. \A a \in Accounts : Invalidated(binding[a]) \in Bindings
        BY DEF TypeOK, BrokerTypes, Bindings, Invalidated
    <2>3. binding' \in [Accounts -> Bindings]
        BY <2>2 DEF TypeOK, BrokerTypes, InvalidateAccounts
    <2> QED BY <2>1, <2>3 DEF TypeOK, BrokerTypes, InvalidateAccounts
<1>2. SignalTypes'
    BY CollectKeepsTypes DEF TypeOK, InvalidateAccounts, AdminUnchanged
<1> QED BY <1>1, <1>2, UnchangedTypes DEF TypeOK, InvalidateAccounts, AdminUnchanged

LEMMA InvalidateAccountType == ASSUME TypeOK, NEW a \in Accounts, InvalidateAccount(a) PROVE TypeOK'
BY InvalidateAccountsType DEF InvalidateAccount

LEMMA InvalidateAuthProfileType == ASSUME TypeOK, NEW p \in Profiles, InvalidateAuthProfile(p) PROVE TypeOK'
BY InvalidateAccountsType DEF InvalidateAuthProfile

LEMMA QuarantineAccountForReauthenticationType == ASSUME TypeOK, NEW a \in Accounts, QuarantineAccountForReauthentication(a) PROVE TypeOK'
<1>1. BrokerTypes'
    BY QuarantineKeepsTypes DEF TypeOK, QuarantineAccountForReauthentication
<1>2. SignalTypes'
    BY CollectKeepsTypes DEF TypeOK, QuarantineAccountForReauthentication, AdminUnchanged
<1> QED BY <1>1, <1>2, UnchangedTypes DEF TypeOK, QuarantineAccountForReauthentication, AdminUnchanged

LEMMA ForceRefreshAccountType == ASSUME TypeOK, NEW a \in Accounts, ForceRefreshAccount(a) PROVE TypeOK'
<1>1. BrokerTypes'
    <2>1. freshness' \in [Connections -> Nat] /\ revoked' \subseteq Connections \X Nat
        BY RevokeKeepsTypes, ConnectionsOfType DEF TypeOK, ForceRefreshAccount
    <2> QED BY <2>1 DEF TypeOK, BrokerTypes, Bindings, ForceRefreshAccount
<1>2. HistoryTypes'
    BY DEF TypeOK, HistoryTypes, OutsideTypes, Records, ForceRefreshAccount
<1> QED BY <1>1, <1>2, UnchangedTypes DEF TypeOK, ForceRefreshAccount

LEMMA InvalidateConnectionType == ASSUME TypeOK, NEW c \in Connections, InvalidateConnection(c) PROVE TypeOK'
<1>1. BrokerTypes'
    <2>1. freshness' \in [Connections -> Nat] /\ revoked' \subseteq Connections \X Nat
        BY RevokeKeepsTypes, ConnectionsOfType DEF TypeOK, InvalidateConnection
    <2>2. connectionEpoch' \in [Connections -> Nat]
        BY DEF TypeOK, BrokerTypes, InvalidateConnection
    <2> QED BY <2>1, <2>2 DEF TypeOK, BrokerTypes, InvalidateConnection
<1>2. SignalTypes'
    BY CollectKeepsTypes DEF TypeOK, InvalidateConnection, AdminUnchanged
<1> QED BY <1>1, <1>2, UnchangedTypes DEF TypeOK, InvalidateConnection, AdminUnchanged

LEMMA PublishReplacementType == ASSUME TypeOK, NEW a \in Accounts, PublishReplacement(a) PROVE TypeOK'
<1>1. BrokerTypes'
    <2>1. CASE shutdown
        BY <2>1 DEF TypeOK, BrokerTypes, PublishReplacement
    <2>2. CASE ~shutdown
        <3>1. freshness' \in [Connections -> Nat] /\ revoked' \subseteq Connections \X Nat
            BY <2>2, RevokeKeepsTypes, ConnectionsOfType DEF TypeOK, PublishReplacement
        <3> QED BY <2>2, <3>1 DEF TypeOK, BrokerTypes, Bindings, PublishReplacement
    <2> QED BY <2>1, <2>2
<1>2. SignalTypes'
    <2>1. CASE shutdown
        BY <2>1 DEF TypeOK, SignalTypes, PublishReplacement
    <2>2. CASE ~shutdown
        BY <2>2, CollectKeepsTypes DEF TypeOK, PublishReplacement
    <2> QED BY <2>1, <2>2
<1>3. OutsideTypes'
    BY DEF TypeOK, OutsideTypes, NoReplacement, PublishReplacement
<1> QED BY <1>1, <1>2, <1>3, UnchangedTypes DEF TypeOK, PublishReplacement

LEMMA VerifyReplacementType == ASSUME TypeOK, NEW a \in Accounts, VerifyReplacement(a) PROVE TypeOK'
<1>1. OutsideTypes'
    <2>1. [replacement[a] EXCEPT !.stage = "verified"] \in [stage : {"none", "stored", "verified"}, rev : Nat]
        BY DEF TypeOK, OutsideTypes
    <2>2. NoReplacement \in [stage : {"none", "stored", "verified"}, rev : Nat]
        BY DEF NoReplacement
    <2> QED BY <2>1, <2>2 DEF TypeOK, OutsideTypes, VerifyReplacement
<1> QED BY <1>1, UnchangedTypes DEF TypeOK, VerifyReplacement

LEMMA StoreNewGrantType == ASSUME TypeOK, NEW a \in Accounts, StoreNewGrant(a) PROVE TypeOK'
<1>1. OutsideTypes'
    BY DEF TypeOK, OutsideTypes, Records, StoreNewGrant
<1> QED BY <1>1, UnchangedTypes DEF TypeOK, StoreNewGrant, StoreUnchanged

LEMMA DamageRecordType == ASSUME TypeOK, NEW a \in Accounts, DamageRecord(a) PROVE TypeOK'
<1>1. OutsideTypes'
    <2>1. [store[a] EXCEPT !.kind = "corrupt"] \in Records
        BY DEF TypeOK, OutsideTypes, Records
    <2>2. store' = [store EXCEPT ![a] = [store[a] EXCEPT !.kind = "corrupt"]] \/ store' = [store EXCEPT ![a] = NoRecord]
        BY DEF TypeOK, OutsideTypes, DamageRecord
    <2> QED BY <2>1, <2>2, NoRecordType DEF TypeOK, OutsideTypes, DamageRecord
<1> QED BY <1>1, UnchangedTypes DEF TypeOK, DamageRecord, StoreUnchanged

LEMMA NearExpiryType == ASSUME TypeOK, NEW a \in Accounts, NearExpiry(a) PROVE TypeOK'
<1>1. OutsideTypes'
    <2>1. [store[a] EXCEPT !.expiring = TRUE] \in Records
        BY DEF TypeOK, OutsideTypes, Records
    <2>2. store' = [store EXCEPT ![a] = [store[a] EXCEPT !.expiring = TRUE]]
        BY DEF TypeOK, OutsideTypes, NearExpiry
    <2> QED BY <2>1, <2>2 DEF TypeOK, OutsideTypes, NearExpiry
<1> QED BY <1>1, UnchangedTypes DEF TypeOK, NearExpiry, StoreUnchanged

LEMMA FailFlightType == ASSUME TypeOK, NEW o \in Ops, FailFlight(o) PROVE TypeOK'
<1>1. FlightTypes'
    BY DEF TypeOK, FlightTypes, FailFlight
<1> QED BY <1>1, UnchangedTypes DEF TypeOK, FailFlight, AdminUnchanged

LEMMA BeginShutdownType == ASSUME TypeOK, BeginShutdown PROVE TypeOK'
<1>1. BrokerTypes'
    <2>1. SourcesOf(Connections) \subseteq Connections \X Nat
        BY DEF TypeOK, BrokerTypes, SourcesOf
    <2> QED BY <2>1 DEF TypeOK, BrokerTypes, BeginShutdown
<1>2. FlightTypes'
    BY DEF TypeOK, FlightTypes, BeginShutdown
<1>3. SignalTypes'
    BY CollectKeepsTypes DEF TypeOK, BeginShutdown, AdminUnchanged
<1> QED BY <1>1, <1>2, <1>3, UnchangedTypes DEF TypeOK, BeginShutdown, AdminUnchanged
LEMMA InitType == Init => TypeOK
<1> SUFFICES ASSUME Init PROVE TypeOK
    OBVIOUS
<1>1. BrokerTypes
    BY DEF Init, BrokerTypes, Bindings
<1>2. TableTypes /\ FlightTypes /\ HistoryTypes /\ SignalTypes
    BY DEF Init, TableTypes, FlightTypes, HistoryTypes, SignalTypes
<1>3. OutsideTypes
    BY DEF Init, OutsideTypes, NoReplacement, Records
<1>4. PublishTypes
    BY DEF Init, PublishTypes, Terminals, Publishers, Stages
<1>5. RunTypes
    BY DEF Init, RunTypes, CallerStates, NoSnapshot, Snapshots, NoRecord, Records, Outcomes
<1> QED BY <1>1, <1>2, <1>3, <1>4, <1>5 DEF TypeOK

-----------------------------------------------------------------------------
LEMMA OperationType ==
    ASSUME TypeOK, NEW o \in Ops,
           \/ Caller(o) \/ Run(o) \/ ReturnFromRefresh(o) \/ Monitor(o) \/ Deliver(o)
           \/ Cancel(o) \/ CancelParent(o) \/ ExpireDeadline(o)
    PROVE  TypeOK'
<1>1. CASE Caller(o)
    BY <1>1, RejectResolveType, TakeSnapshotType, RejectSnapshotType, AdmitType DEF Caller
<1>2. CASE Leader(o)
    BY <1>2, LeaderObservesType, LeaderInvalidatedType, StartRefreshType, MayCommitType,
       MayNotCommitType, CommitType, CommitConflictsType, CommitFailsType, KeepCommitType,
       ReloadWinnerType, ClearForceRefreshType, CompleteRefreshFlightType, LeaderSettlesType
       DEF Leader
<1>3. CASE Run(o)
    BY <1>2, <1>3, StartRunType, RejectContextType, RunObservesType, RunInvalidatedType,
       PublishFailureType, LoadType, CheckLoadedType, QuarantineDamagedType,
       AcquireRefreshFlightType, FollowerWakesType, ReloadType, PrepareLeaseType,
       LeaseExpiresType, CheckLeaseType, PublishLeaseType, RemovePhysicalOperationType
       DEF Run
<1>4. CASE Deliver(o)
    BY <1>4, RemoveOperationType, EnqueueCredentialResultType DEF Deliver
<1> QED BY <1>1, <1>3, <1>4, ReturnFromRefreshType, MonitorType, CancelType, CancelParentType,
           ExpireDeadlineType

LEMMA AdministerType == ASSUME TypeOK, Administer PROVE TypeOK'
BY RegisterBindingType, InvalidateAccountType, QuarantineAccountForReauthenticationType,
   ForceRefreshAccountType, VerifyReplacementType, PublishReplacementType, StoreNewGrantType,
   DamageRecordType, NearExpiryType, InvalidateAuthProfileType, InvalidateConnectionType,
   BeginShutdownType, FailFlightType, CancelCollectedType
   DEF Administer

LEMMA StutterType == ASSUME TypeOK, UNCHANGED vars PROVE TypeOK'
BY UnchangedTypes DEF TypeOK, vars

(* Every variable of the broker keeps its type, for every topology and capacity. *)
THEOREM TypeCorrect == Spec => []TypeOK
<1>1. TypeOK /\ [Next]_vars => TypeOK'
    BY OperationType, AdministerType, StutterType DEF Next
<1> QED BY InitType, <1>1, PTL DEF Spec

-----------------------------------------------------------------------------
(* Flights.  An account is never inside two refreshes, and no follower waits  *)
(* for a flight nobody will complete.  Neither fact is inductive.  What is:   *)
(* an operation leads a flight from its acquisition to its completion, the    *)
(* table of flights holds the leader of the account unless a shutdown emptied *)
(* it, and a flight still pending has a leader.                               *)

(* An operation leads from the moment it creates a flight until               *)
(* CompleteRefreshFlight, the detours to reload or quarantine included.       *)
LeadsAt(o, s) == s \in LeaderStates \/ (s \in {"reload", "quarantine"} /\ joined[o] = o)
Leads(o) == LeadsAt(o, pc[o])

BeforeFlight == {"idle", "snapped", "rejected", "start", "load", "loaded", "acquire"}

LeadersAreJoined ==
    /\ \A o \in Ops : pc[o] \in BeforeFlight => joined[o] = NoOp
    /\ \A o \in Ops : pc[o] \in LeaderStates => joined[o] = o

LeadersAreListed == \A o \in Ops : Leads(o) => shutdown \/ refreshFlights[Account(o)] = o

FlightsAreLed ==
    \A a \in Accounts : refreshFlights[a] # NoOp =>
        /\ Leads(refreshFlights[a])
        /\ Account(refreshFlights[a]) = a
        /\ flightResult[refreshFlights[a]] # "none"

PendingFlightsAreLed == \A o \in Ops : flightResult[o] = "pending" => Leads(o)

FollowersHaveLeaders ==
    \A o \in Ops : pc[o] = "wait" => joined[o] \in Ops \ {o} /\ flightResult[joined[o]] # "none"

FlightInv ==
    /\ LeadersAreJoined
    /\ LeadersAreListed
    /\ FlightsAreLed
    /\ PendingFlightsAreLed
    /\ FollowersHaveLeaders
    /\ SingleFlightRefresh

flightState == <<refreshFlights, flightResult, joined, shutdown>>

LEMMA InitFlight == Init => FlightInv
BY TopologyAssumption DEF Init, FlightInv, LeadersAreJoined, LeadersAreListed, FlightsAreLed, PendingFlightsAreLed,
   FollowersHaveLeaders, SingleFlightRefresh, Leads, LeadsAt, LeaderStates, BeforeFlight

(* Steps outside the run threads that touch no flight. *)
LEMMA ElsewhereKeepsFlight == ASSUME FlightInv, UNCHANGED <<flightState, pc>> PROVE FlightInv'
BY DEF FlightInv, LeadersAreJoined, LeadersAreListed, FlightsAreLed, PendingFlightsAreLed,
   FollowersHaveLeaders, SingleFlightRefresh, Leads, LeadsAt, flightState, Account

(* A run thread that moves without taking up, giving up or awaiting a flight. *)
KeepsRole(o, s) ==
    /\ LeadsAt(o, s) <=> Leads(o)
    /\ s \notin {"refreshing", "wait"}
    /\ s \in BeforeFlight => joined[o] = NoOp

LEMMA MoveKeepsFlight ==
    ASSUME TypeOK, FlightInv, NEW o \in Ops, NEW s, Goto(o, s), KeepsRole(o, s), UNCHANGED flightState
    PROVE  FlightInv'
<1>1. pc' = [q \in Ops |-> IF q = o THEN s ELSE pc[q]]
    BY DEF TypeOK, RunTypes, Goto
<1>2. \A q \in Ops : Leads(q)' <=> Leads(q)
    BY <1>1 DEF Leads, LeadsAt, KeepsRole, flightState
<1>3. LeadersAreJoined'
    BY <1>1 DEF FlightInv, LeadersAreJoined, KeepsRole, Leads, LeadsAt, LeaderStates, flightState
<1>4. \A a \in Accounts : refreshFlights[a] # NoOp => refreshFlights[a] \in Ops
    BY DEF TypeOK, FlightTypes
<1>5. LeadersAreListed' /\ FlightsAreLed' /\ PendingFlightsAreLed'
    BY <1>2, <1>4 DEF FlightInv, LeadersAreListed, FlightsAreLed, PendingFlightsAreLed, flightState, Account
<1>6. FollowersHaveLeaders' /\ SingleFlightRefresh'
    BY <1>1 DEF FlightInv, FollowersHaveLeaders, SingleFlightRefresh, KeepsRole, flightState, Account
<1> QED BY <1>3, <1>5, <1>6 DEF FlightInv

-----------------------------------------------------------------------------
(* One lemma per action of a run thread. *)

LEMMA RejectResolveFlight == ASSUME TypeOK, FlightInv, NEW o \in Ops, RejectResolve(o) PROVE FlightInv'
<1>1. KeepsRole(o, "rejected")
    BY TopologyAssumption DEF FlightInv, LeadersAreJoined, KeepsRole, LeadsAt, Leads, BeforeFlight, LeaderStates, At, RejectResolve
<1>2. Goto(o, "rejected") /\ UNCHANGED flightState
    BY DEF RejectResolve, flightState, brokerVars, flightVars
<1> QED BY <1>1, <1>2, MoveKeepsFlight

LEMMA TakeSnapshotFlight == ASSUME TypeOK, FlightInv, NEW o \in Ops, TakeSnapshot(o) PROVE FlightInv'
<1>1. KeepsRole(o, "snapped")
    BY TopologyAssumption DEF FlightInv, LeadersAreJoined, KeepsRole, LeadsAt, Leads, BeforeFlight, LeaderStates, At, TakeSnapshot
<1>2. Goto(o, "snapped") /\ UNCHANGED flightState
    BY DEF TakeSnapshot, flightState, brokerVars, flightVars
<1> QED BY <1>1, <1>2, MoveKeepsFlight

LEMMA RejectSnapshotFlight == ASSUME TypeOK, FlightInv, NEW o \in Ops, RejectSnapshot(o) PROVE FlightInv'
<1>1. KeepsRole(o, "rejected")
    BY TopologyAssumption DEF FlightInv, LeadersAreJoined, KeepsRole, LeadsAt, Leads, BeforeFlight, LeaderStates, At, RejectSnapshot
<1>2. Goto(o, "rejected") /\ UNCHANGED flightState
    BY DEF RejectSnapshot, flightState, brokerVars, flightVars
<1> QED BY <1>1, <1>2, MoveKeepsFlight

LEMMA AdmitFlight == ASSUME TypeOK, FlightInv, NEW o \in Ops, Admit(o) PROVE FlightInv'
<1>1. KeepsRole(o, "start")
    BY TopologyAssumption DEF FlightInv, LeadersAreJoined, KeepsRole, LeadsAt, Leads, BeforeFlight, LeaderStates, At, Admit
<1>2. Goto(o, "start") /\ UNCHANGED flightState
    BY DEF Admit, flightState, brokerVars, flightVars
<1> QED BY <1>1, <1>2, MoveKeepsFlight

LEMMA StartRunFlight == ASSUME TypeOK, FlightInv, NEW o \in Ops, StartRun(o) PROVE FlightInv'
<1>1. KeepsRole(o, "load")
    BY TopologyAssumption DEF FlightInv, LeadersAreJoined, KeepsRole, LeadsAt, Leads, BeforeFlight, LeaderStates, At, StartRun, Advance
<1>2. Goto(o, "load") /\ UNCHANGED flightState
    BY DEF StartRun, Advance, flightState, brokerVars, flightVars
<1> QED BY <1>1, <1>2, MoveKeepsFlight

LEMMA RejectContextFlight == ASSUME TypeOK, FlightInv, NEW o \in Ops, RejectContext(o) PROVE FlightInv'
<1>1. KeepsRole(o, "fail")
    BY TopologyAssumption DEF FlightInv, LeadersAreJoined, KeepsRole, LeadsAt, Leads, BeforeFlight, LeaderStates, At, RejectContext, Advance
<1>2. Goto(o, "fail") /\ UNCHANGED flightState
    BY DEF RejectContext, Advance, flightState, brokerVars, flightVars
<1> QED BY <1>1, <1>2, MoveKeepsFlight

LEMMA RunObservesFlight == ASSUME TypeOK, FlightInv, NEW o \in Ops, RunObserves(o) PROVE FlightInv'
<1>1. KeepsRole(o, "exit")
    BY TopologyAssumption DEF FlightInv, LeadersAreJoined, KeepsRole, LeadsAt, Leads, BeforeFlight, LeaderStates, At, RunObserves
<1>2. Goto(o, "exit") /\ UNCHANGED flightState
    BY DEF RunObserves, flightState, brokerVars, flightVars
<1> QED BY <1>1, <1>2, MoveKeepsFlight

LEMMA RunInvalidatedFlight == ASSUME TypeOK, FlightInv, NEW o \in Ops, RunInvalidated(o) PROVE FlightInv'
<1>1. KeepsRole(o, "fail")
    BY TopologyAssumption DEF FlightInv, LeadersAreJoined, KeepsRole, LeadsAt, Leads, BeforeFlight, LeaderStates, At, RunInvalidated, Advance
<1>2. Goto(o, "fail") /\ UNCHANGED flightState
    BY DEF RunInvalidated, Advance, flightState, brokerVars, flightVars
<1> QED BY <1>1, <1>2, MoveKeepsFlight

LEMMA PublishFailureFlight == ASSUME TypeOK, FlightInv, NEW o \in Ops, PublishFailure(o) PROVE FlightInv'
<1>1. KeepsRole(o, "exit")
    BY TopologyAssumption DEF FlightInv, LeadersAreJoined, KeepsRole, LeadsAt, Leads, BeforeFlight, LeaderStates, At, PublishFailure
<1>2. Goto(o, "exit") /\ UNCHANGED flightState
    BY DEF PublishFailure, flightState, brokerVars, flightVars
<1> QED BY <1>1, <1>2, MoveKeepsFlight

LEMMA LoadFlight == ASSUME TypeOK, FlightInv, NEW o \in Ops, Load(o) PROVE FlightInv'
<1>1. KeepsRole(o, "loaded")
    BY TopologyAssumption DEF FlightInv, LeadersAreJoined, KeepsRole, LeadsAt, Leads, BeforeFlight, LeaderStates, At, Load
<1>2. Goto(o, "loaded") /\ UNCHANGED flightState
    BY DEF Load, flightState, brokerVars, flightVars
<1> QED BY <1>1, <1>2, MoveKeepsFlight

LEMMA MayCommitFlight == ASSUME TypeOK, FlightInv, NEW o \in Ops, MayCommit(o) PROVE FlightInv'
<1>1. KeepsRole(o, "store")
    BY TopologyAssumption DEF FlightInv, LeadersAreJoined, KeepsRole, LeadsAt, Leads, BeforeFlight, LeaderStates, At, MayCommit, Advance
<1>2. Goto(o, "store") /\ UNCHANGED flightState
    BY DEF MayCommit, Advance, flightState, brokerVars, flightVars
<1> QED BY <1>1, <1>2, MoveKeepsFlight

LEMMA MayNotCommitFlight == ASSUME TypeOK, FlightInv, NEW o \in Ops, MayNotCommit(o) PROVE FlightInv'
<1>1. KeepsRole(o, "complete")
    BY TopologyAssumption DEF FlightInv, LeadersAreJoined, KeepsRole, LeadsAt, Leads, BeforeFlight, LeaderStates, At, MayNotCommit, Advance
<1>2. Goto(o, "complete") /\ UNCHANGED flightState
    BY DEF MayNotCommit, Advance, flightState, brokerVars, flightVars
<1> QED BY <1>1, <1>2, MoveKeepsFlight

LEMMA CommitFlight == ASSUME TypeOK, FlightInv, NEW o \in Ops, Commit(o) PROVE FlightInv'
<1>1. KeepsRole(o, "stored")
    BY TopologyAssumption DEF FlightInv, LeadersAreJoined, KeepsRole, LeadsAt, Leads, BeforeFlight, LeaderStates, At, Commit
<1>2. Goto(o, "stored") /\ UNCHANGED flightState
    BY DEF Commit, LeaderUnchanged, flightState, brokerVars, flightVars
<1> QED BY <1>1, <1>2, MoveKeepsFlight

LEMMA CommitConflictsFlight == ASSUME TypeOK, FlightInv, NEW o \in Ops, CommitConflicts(o) PROVE FlightInv'
<1>1. KeepsRole(o, "conflicted")
    BY TopologyAssumption DEF FlightInv, LeadersAreJoined, KeepsRole, LeadsAt, Leads, BeforeFlight, LeaderStates, At, CommitConflicts, Advance
<1>2. Goto(o, "conflicted") /\ UNCHANGED flightState
    BY DEF CommitConflicts, Advance, flightState, brokerVars, flightVars
<1> QED BY <1>1, <1>2, MoveKeepsFlight

LEMMA KeepCommitFlight == ASSUME TypeOK, FlightInv, NEW o \in Ops, KeepCommit(o) PROVE FlightInv'
<1>1. KeepsRole(o, "clear")
    BY TopologyAssumption DEF FlightInv, LeadersAreJoined, KeepsRole, LeadsAt, Leads, BeforeFlight, LeaderStates, At, KeepCommit, Advance
<1>2. Goto(o, "clear") /\ UNCHANGED flightState
    BY DEF KeepCommit, Advance, flightState, brokerVars, flightVars
<1> QED BY <1>1, <1>2, MoveKeepsFlight

LEMMA ReloadWinnerFlight == ASSUME TypeOK, FlightInv, NEW o \in Ops, ReloadWinner(o) PROVE FlightInv'
<1>1. KeepsRole(o, "reload")
    BY TopologyAssumption DEF FlightInv, LeadersAreJoined, KeepsRole, LeadsAt, Leads, BeforeFlight, LeaderStates, At, ReloadWinner, Advance
<1>2. Goto(o, "reload") /\ UNCHANGED flightState
    BY DEF ReloadWinner, Advance, flightState, brokerVars, flightVars
<1> QED BY <1>1, <1>2, MoveKeepsFlight

LEMMA LeaderObservesFlight == ASSUME TypeOK, FlightInv, NEW o \in Ops, LeaderObserves(o) PROVE FlightInv'
<1>1. KeepsRole(o, "complete")
    BY TopologyAssumption DEF FlightInv, LeadersAreJoined, KeepsRole, LeadsAt, Leads, BeforeFlight, LeaderStates, At, LeaderObserves, AtLeaderCheck, LeaderGivesUp
<1>2. Goto(o, "complete") /\ UNCHANGED flightState
    BY DEF LeaderObserves, AtLeaderCheck, LeaderGivesUp, LeaderUnchanged, flightState, brokerVars, flightVars
<1> QED BY <1>1, <1>2, MoveKeepsFlight

LEMMA LeaderInvalidatedFlight == ASSUME TypeOK, FlightInv, NEW o \in Ops, LeaderInvalidated(o) PROVE FlightInv'
<1>1. KeepsRole(o, "complete")
    BY TopologyAssumption DEF FlightInv, LeadersAreJoined, KeepsRole, LeadsAt, Leads, BeforeFlight, LeaderStates, At, LeaderInvalidated, AtLeaderCheck, LeaderGivesUp
<1>2. Goto(o, "complete") /\ UNCHANGED flightState
    BY DEF LeaderInvalidated, AtLeaderCheck, LeaderGivesUp, LeaderUnchanged, flightState, brokerVars, flightVars
<1> QED BY <1>1, <1>2, MoveKeepsFlight

LEMMA CommitFailsFlight == ASSUME TypeOK, FlightInv, NEW o \in Ops, CommitFails(o) PROVE FlightInv'
<1>1. KeepsRole(o, "complete")
    BY TopologyAssumption DEF FlightInv, LeadersAreJoined, KeepsRole, LeadsAt, Leads, BeforeFlight, LeaderStates, At, CommitFails, LeaderGivesUp
<1>2. Goto(o, "complete") /\ UNCHANGED flightState
    BY DEF CommitFails, LeaderGivesUp, LeaderUnchanged, flightState, brokerVars, flightVars
<1> QED BY <1>1, <1>2, MoveKeepsFlight

LEMMA ClearForceRefreshFlight == ASSUME TypeOK, FlightInv, NEW o \in Ops, ClearForceRefresh(o) PROVE FlightInv'
<1>1. KeepsRole(o, "complete")
    BY TopologyAssumption DEF FlightInv, LeadersAreJoined, KeepsRole, LeadsAt, Leads, BeforeFlight, LeaderStates, At, ClearForceRefresh
<1>2. Goto(o, "complete") /\ UNCHANGED flightState
    BY DEF ClearForceRefresh, flightState, brokerVars, flightVars
<1> QED BY <1>1, <1>2, MoveKeepsFlight

LEMMA ReturnFromRefreshFlight == ASSUME TypeOK, FlightInv, NEW o \in Ops, ReturnFromRefresh(o) PROVE FlightInv'
<1>1. KeepsRole(o, "refreshed")
    BY TopologyAssumption DEF FlightInv, LeadersAreJoined, KeepsRole, LeadsAt, Leads, BeforeFlight, LeaderStates, At, ReturnFromRefresh
<1>2. Goto(o, "refreshed") /\ UNCHANGED flightState
    BY DEF ReturnFromRefresh, LeaderUnchanged, flightState, brokerVars, flightVars
<1> QED BY <1>1, <1>2, MoveKeepsFlight

LEMMA PrepareLeaseFlight == ASSUME TypeOK, FlightInv, NEW o \in Ops, PrepareLease(o) PROVE FlightInv'
<1>1. KeepsRole(o, "leased")
    BY TopologyAssumption DEF FlightInv, LeadersAreJoined, KeepsRole, LeadsAt, Leads, BeforeFlight, LeaderStates, At, PrepareLease, Advance
<1>2. Goto(o, "leased") /\ UNCHANGED flightState
    BY DEF PrepareLease, Advance, flightState, brokerVars, flightVars
<1> QED BY <1>1, <1>2, MoveKeepsFlight

LEMMA LeaseExpiresFlight == ASSUME TypeOK, FlightInv, NEW o \in Ops, LeaseExpires(o) PROVE FlightInv'
<1>1. KeepsRole(o, "fail")
    BY TopologyAssumption DEF FlightInv, LeadersAreJoined, KeepsRole, LeadsAt, Leads, BeforeFlight, LeaderStates, At, LeaseExpires, Advance
<1>2. Goto(o, "fail") /\ UNCHANGED flightState
    BY DEF LeaseExpires, Advance, flightState, brokerVars, flightVars
<1> QED BY <1>1, <1>2, MoveKeepsFlight

LEMMA CheckLeaseFlight == ASSUME TypeOK, FlightInv, NEW o \in Ops, CheckLease(o) PROVE FlightInv'
<1>1. KeepsRole(o, "publish")
    BY TopologyAssumption DEF FlightInv, LeadersAreJoined, KeepsRole, LeadsAt, Leads, BeforeFlight, LeaderStates, At, CheckLease, Advance
<1>2. Goto(o, "publish") /\ UNCHANGED flightState
    BY DEF CheckLease, Advance, flightState, brokerVars, flightVars
<1> QED BY <1>1, <1>2, MoveKeepsFlight

LEMMA PublishLeaseFlight == ASSUME TypeOK, FlightInv, NEW o \in Ops, PublishLease(o) PROVE FlightInv'
<1>1. KeepsRole(o, "exit")
    BY TopologyAssumption DEF FlightInv, LeadersAreJoined, KeepsRole, LeadsAt, Leads, BeforeFlight, LeaderStates, At, PublishLease
<1>2. Goto(o, "exit") /\ UNCHANGED flightState
    BY DEF PublishLease, flightState, brokerVars, flightVars
<1> QED BY <1>1, <1>2, MoveKeepsFlight

LEMMA RemovePhysicalOperationFlight == ASSUME TypeOK, FlightInv, NEW o \in Ops, RemovePhysicalOperation(o) PROVE FlightInv'
<1>1. KeepsRole(o, "done")
    BY TopologyAssumption DEF FlightInv, LeadersAreJoined, KeepsRole, LeadsAt, Leads, BeforeFlight, LeaderStates, At, RemovePhysicalOperation
<1>2. Goto(o, "done") /\ UNCHANGED flightState
    BY DEF RemovePhysicalOperation, flightState, brokerVars, flightVars
<1> QED BY <1>1, <1>2, MoveKeepsFlight

LEMMA CheckLoadedFlight == ASSUME TypeOK, FlightInv, NEW o \in Ops, CheckLoaded(o) PROVE FlightInv'
<1>1. joined[o] = NoOp /\ pc[o] = "loaded"
    BY DEF FlightInv, LeadersAreJoined, BeforeFlight, CheckLoaded, At
<1>2. \A s \in {"quarantine", "fail", "acquire", "lease"} : KeepsRole(o, s)
    BY <1>1, TopologyAssumption DEF KeepsRole, LeadsAt, Leads, BeforeFlight, LeaderStates
<1>3. \E s \in {"quarantine", "fail", "acquire", "lease"} : Goto(o, s)
    BY DEF CheckLoaded, Advance
<1>4. UNCHANGED flightState
    BY DEF CheckLoaded, Advance, flightState, brokerVars, flightVars
<1> QED BY <1>2, <1>3, <1>4, MoveKeepsFlight

LEMMA QuarantineDamagedFlight ==
    ASSUME TypeOK, FlightInv, NEW o \in Ops, QuarantineDamaged(o) PROVE FlightInv'
<1> DEFINE s == IF joined[o] = o THEN "complete" ELSE "fail"
<1>1. KeepsRole(o, s)
    BY DEF KeepsRole, LeadsAt, Leads, BeforeFlight, LeaderStates, QuarantineDamaged, At
<1>2. Goto(o, s) /\ UNCHANGED flightState
    BY DEF QuarantineDamaged, flightState, flightVars
<1> QED BY <1>1, <1>2, MoveKeepsFlight

LEMMA FollowerWakesFlight == ASSUME TypeOK, FlightInv, NEW o \in Ops, FollowerWakes(o) PROVE FlightInv'
<1> DEFINE s == IF flightResult[joined[o]] = "ok" THEN "reload" ELSE "fail"
<1>1. pc[o] = "wait" /\ joined[o] # o
    BY DEF FlightInv, FollowersHaveLeaders, FollowerWakes, At
<1>2. KeepsRole(o, s)
    BY <1>1 DEF KeepsRole, LeadsAt, Leads, BeforeFlight, LeaderStates
<1>3. Goto(o, s) /\ UNCHANGED flightState
    BY DEF FollowerWakes, Advance, flightState, brokerVars, flightVars
<1> QED BY <1>2, <1>3, MoveKeepsFlight

LEMMA ReloadFlight == ASSUME TypeOK, FlightInv, NEW o \in Ops, Reload(o) PROVE FlightInv'
<1> DEFINE Targets == IF joined[o] = o THEN {"quarantine", "clear", "complete"}
                                       ELSE {"quarantine", "lease", "fail"}
<1>1. \A s \in Targets : KeepsRole(o, s)
    BY DEF KeepsRole, LeadsAt, Leads, BeforeFlight, LeaderStates, Reload, At
<1>2. \E s \in Targets : Goto(o, s)
    BY DEF Reload
<1>3. UNCHANGED flightState
    BY DEF Reload, flightState, brokerVars, flightVars
<1> QED BY <1>1, <1>2, <1>3, MoveKeepsFlight

LEMMA LeaderSettlesFlight == ASSUME TypeOK, FlightInv, NEW o \in Ops, LeaderSettles(o) PROVE FlightInv'
<1> DEFINE s == IF outcome[o] = "ok" THEN "lease" ELSE "fail"
<1>1. KeepsRole(o, s)
    BY DEF KeepsRole, LeadsAt, Leads, BeforeFlight, LeaderStates, LeaderSettles, At
<1>2. Goto(o, s) /\ UNCHANGED flightState
    BY DEF LeaderSettles, Advance, flightState, brokerVars, flightVars
<1> QED BY <1>1, <1>2, MoveKeepsFlight

-----------------------------------------------------------------------------
(* The steps that take up, use and give up a flight. *)

(* The refresh starts under the mutex's verdict that the broker is not shut down, so the *)
(* table still names the one leader of the account.                                      *)
LEMMA StartRefreshFlight == ASSUME TypeOK, FlightInv, NEW o \in Ops, StartRefresh(o) PROVE FlightInv'
<1>1. /\ pc[o] = "lead" /\ ~shutdown /\ UNCHANGED flightState
      /\ pc' = [q \in Ops |-> IF q = o THEN "refreshing" ELSE pc[q]]
    BY DEF StartRefresh, At, MayGoOn, IsSnapshotCurrent, Advance, Goto, TypeOK, RunTypes,
           flightState, brokerVars, flightVars
<1>2. \A q \in Ops : Leads(q)' <=> Leads(q)
    BY <1>1 DEF Leads, LeadsAt, LeaderStates, flightState
<1>3. \A q \in Ops : pc[q] = "refreshing" => refreshFlights[Account(q)] = q
    BY <1>1 DEF FlightInv, LeadersAreListed, Leads, LeadsAt, LeaderStates
<1>4. refreshFlights[Account(o)] = o
    BY <1>1 DEF FlightInv, LeadersAreListed, Leads, LeadsAt, LeaderStates
<1>5. SingleFlightRefresh'
    BY <1>1, <1>3, <1>4 DEF SingleFlightRefresh, Account
<1>6. LeadersAreJoined' /\ FollowersHaveLeaders'
    BY <1>1 DEF FlightInv, LeadersAreJoined, FollowersHaveLeaders, BeforeFlight, LeaderStates, flightState
<1>7. \A a \in Accounts : refreshFlights[a] # NoOp => refreshFlights[a] \in Ops
    BY DEF TypeOK, FlightTypes
<1>8. LeadersAreListed' /\ FlightsAreLed' /\ PendingFlightsAreLed'
    BY <1>1, <1>2, <1>7 DEF FlightInv, LeadersAreListed, FlightsAreLed, PendingFlightsAreLed,
       flightState, Account
<1> QED BY <1>5, <1>6, <1>8 DEF FlightInv

LEMMA AcquireRefreshFlightFlight ==
    ASSUME TypeOK, FlightInv, NEW o \in Ops, AcquireRefreshFlight(o) PROVE FlightInv'
<1> DEFINE a == Account(o)
<1>1. /\ pc[o] = "acquire" /\ joined[o] = NoOp /\ NoOp \notin Ops /\ ~Leads(o) /\ UNCHANGED shutdown
    BY TopologyAssumption DEF FlightInv, LeadersAreJoined, BeforeFlight, AcquireRefreshFlight, At, Leads,
       LeadsAt, LeaderStates, brokerVars
<1>2. a \in Accounts
    BY AccountType
<1>3. flightResult[o] # "pending"
    BY <1>1 DEF FlightInv, PendingFlightsAreLed
<1>4. CASE refreshFlights[a] = NoOp
    <2>1. /\ joined' = [q \in Ops |-> IF q = o THEN o ELSE joined[q]]
          /\ refreshFlights' = [b \in Accounts |-> IF b = a THEN o ELSE refreshFlights[b]]
          /\ flightResult' = [q \in Ops |-> IF q = o THEN "pending" ELSE flightResult[q]]
          /\ pc' = [q \in Ops |-> IF q = o THEN "lead" ELSE pc[q]]
        BY <1>4 DEF AcquireRefreshFlight, TypeOK, RunTypes, FlightTypes, Goto
    <2>2. \A q \in Ops \ {o} : Leads(q)' <=> Leads(q)
        BY <2>1 DEF Leads, LeadsAt
    <2>3. Leads(o)'
        BY <2>1 DEF Leads, LeadsAt, LeaderStates
    <2>4. LeadersAreJoined' /\ FollowersHaveLeaders' /\ SingleFlightRefresh'
        BY <2>1, <1>1 DEF FlightInv, LeadersAreJoined, FollowersHaveLeaders, SingleFlightRefresh,
           BeforeFlight, LeaderStates, Account
    <2>5. \A q \in Ops \ {o} : Leads(q) => shutdown \/ Account(q) # a
        BY <1>4, <1>1 DEF FlightInv, LeadersAreListed
    <2>6. LeadersAreListed'
        BY <2>1, <2>2, <2>5, <1>1, AccountType DEF FlightInv, LeadersAreListed, Account
    <2>7. \A b \in Accounts : refreshFlights[b] # NoOp => refreshFlights[b] \in Ops \ {o}
        BY <1>1 DEF FlightInv, FlightsAreLed, TypeOK, FlightTypes
    <2>8. FlightsAreLed'
        BY <2>1, <2>2, <2>3, <2>7, <1>2 DEF FlightInv, FlightsAreLed, Account
    <2>9. PendingFlightsAreLed'
        BY <2>1, <2>2, <2>3 DEF FlightInv, PendingFlightsAreLed
    <2> QED BY <2>4, <2>6, <2>8, <2>9 DEF FlightInv
<1>5. CASE refreshFlights[a] # NoOp
    <2>1. /\ joined' = [q \in Ops |-> IF q = o THEN refreshFlights[a] ELSE joined[q]]
          /\ UNCHANGED <<refreshFlights, flightResult>>
          /\ pc' = [q \in Ops |-> IF q = o THEN "wait" ELSE pc[q]]
        BY <1>5 DEF AcquireRefreshFlight, TypeOK, RunTypes, FlightTypes, Goto
    <2>2. \A q \in Ops : Leads(q)' <=> Leads(q)
        BY <2>1, <1>1 DEF Leads, LeadsAt, LeaderStates
    <2>3. refreshFlights[a] \in Ops /\ Leads(refreshFlights[a]) /\ flightResult[refreshFlights[a]] # "none"
        BY <1>5, <1>2 DEF FlightInv, FlightsAreLed, TypeOK, FlightTypes
    <2>4. LeadersAreJoined' /\ FollowersHaveLeaders' /\ SingleFlightRefresh'
        BY <2>1, <2>3, <1>1 DEF FlightInv, LeadersAreJoined, FollowersHaveLeaders, SingleFlightRefresh,
           BeforeFlight, LeaderStates, Account
    <2>5. \A b \in Accounts : refreshFlights[b] # NoOp => refreshFlights[b] \in Ops
        BY DEF TypeOK, FlightTypes
    <2>6. LeadersAreListed' /\ FlightsAreLed' /\ PendingFlightsAreLed'
        BY <2>1, <2>2, <2>5, <1>1 DEF FlightInv, LeadersAreListed, FlightsAreLed, PendingFlightsAreLed, Account
    <2> QED BY <2>4, <2>6 DEF FlightInv
<1> QED BY <1>4, <1>5

LEMMA CompleteRefreshFlightFlight ==
    ASSUME TypeOK, FlightInv, NEW o \in Ops, CompleteRefreshFlight(o) PROVE FlightInv'
<1> DEFINE a == Account(o)
           r == IF outcome[o] = "ok" THEN "ok" ELSE "failed"
<1>1. /\ pc[o] = "complete" /\ joined[o] = o /\ Leads(o) /\ a \in Accounts
      /\ UNCHANGED <<shutdown, joined>>
    BY AccountType DEF FlightInv, LeadersAreJoined, Leads, LeadsAt, LeaderStates, CompleteRefreshFlight, At
<1>2. /\ refreshFlights' = [b \in Accounts |->
              IF b = a /\ refreshFlights[a] = o THEN NoOp ELSE refreshFlights[b]]
      /\ flightResult' = [q \in Ops |-> IF q = o /\ flightResult[o] = "pending" THEN r ELSE flightResult[q]]
      /\ pc' = [q \in Ops |-> IF q = o THEN "settled" ELSE pc[q]]
    BY <1>1 DEF CompleteRefreshFlight, FinishFlight, TypeOK, RunTypes, FlightTypes, Goto
<1>3. \A q \in Ops \ {o} : Leads(q)' <=> Leads(q)
    BY <1>1, <1>2 DEF Leads, LeadsAt
<1>4. LeadersAreJoined' /\ FollowersHaveLeaders' /\ SingleFlightRefresh'
    BY <1>1, <1>2 DEF FlightInv, LeadersAreJoined, FollowersHaveLeaders, SingleFlightRefresh,
       BeforeFlight, LeaderStates, Account
<1>5. \A b \in Accounts : refreshFlights'[b] # NoOp =>
          refreshFlights'[b] = refreshFlights[b] /\ refreshFlights[b] \in Ops \ {o}
    BY <1>1, <1>2 DEF FlightInv, FlightsAreLed, TypeOK, FlightTypes
<1>6. ~Leads(o)'
    BY <1>2 DEF Leads, LeadsAt, LeaderStates
<1>7. LeadersAreListed'
    BY <1>1, <1>2, <1>3, <1>6, AccountType DEF FlightInv, LeadersAreListed, Account
<1>8. FlightsAreLed'
    <2>1. \A b \in Accounts : refreshFlights'[b] # NoOp =>
              Leads(refreshFlights[b]) /\ Account(refreshFlights[b]) = b /\ flightResult[refreshFlights[b]] # "none"
        BY <1>5, TopologyAssumption DEF FlightInv, FlightsAreLed
    <2>2. \A q \in Ops \ {o} : flightResult'[q] = flightResult[q]
        BY <1>2
    <2> QED BY <1>3, <1>5, <2>1, <2>2 DEF FlightsAreLed, Leads, LeadsAt, Account
<1>9. PendingFlightsAreLed'
    BY <1>2, <1>3 DEF FlightInv, PendingFlightsAreLed
<1> QED BY <1>4, <1>7, <1>8, <1>9 DEF FlightInv

(* A shutdown empties the table, which excuses every leader from being listed. *)
LEMMA BeginShutdownFlight == ASSUME TypeOK, FlightInv, BeginShutdown PROVE FlightInv'
<1>1. /\ shutdown' = TRUE /\ UNCHANGED <<flightResult, pc, joined>>
      /\ refreshFlights' = [a \in Accounts |-> NoOp]
    BY DEF BeginShutdown, AdminUnchanged, runVars
<1>2. \A q \in Ops : Leads(q)' <=> Leads(q)
    BY <1>1 DEF Leads, LeadsAt
<1> QED BY <1>1, <1>2 DEF FlightInv, LeadersAreJoined, LeadersAreListed, FlightsAreLed,
           PendingFlightsAreLed, FollowersHaveLeaders, SingleFlightRefresh, Account

LEMMA FailFlightFlight == ASSUME TypeOK, FlightInv, NEW o \in Ops, FailFlight(o) PROVE FlightInv'
<1>1. UNCHANGED <<pc, joined, shutdown, refreshFlights>>
    BY DEF FailFlight, AdminUnchanged, runVars, brokerVars
<1>2. flightResult' = [q \in Ops |-> IF q = o /\ flightResult[o] = "pending" THEN "failed" ELSE flightResult[q]]
    BY DEF FailFlight, TypeOK, FlightTypes
<1>3. \A q \in Ops : Leads(q)' <=> Leads(q)
    BY <1>1 DEF Leads, LeadsAt
<1>4. \A b \in Accounts : refreshFlights[b] # NoOp => refreshFlights[b] \in Ops
    BY DEF TypeOK, FlightTypes
<1>5. LeadersAreJoined' /\ LeadersAreListed' /\ FollowersHaveLeaders' /\ SingleFlightRefresh'
    BY <1>1, <1>2, <1>3 DEF FlightInv, LeadersAreJoined, LeadersAreListed, FollowersHaveLeaders,
       SingleFlightRefresh, Account
<1>6. FlightsAreLed' /\ PendingFlightsAreLed'
    BY <1>1, <1>2, <1>3, <1>4 DEF FlightInv, FlightsAreLed, PendingFlightsAreLed, Account
<1> QED BY <1>5, <1>6 DEF FlightInv

(* The administrative calls other than a shutdown know nothing of flights. *)
LEMMA AdministerFlight == ASSUME TypeOK, FlightInv, Administer PROVE FlightInv'
<1>1. CASE BeginShutdown
    BY <1>1, BeginShutdownFlight
<1>2. CASE \E o \in Ops : FailFlight(o)
    BY <1>2, FailFlightFlight
<1>3. CASE \E o \in Ops : CancelCollected(o)
    BY <1>3, ElsewhereKeepsFlight DEF CancelCollected, CancelOperation, flightState, brokerVars, flightVars, runVars
<1>4. CASE \E a \in Accounts :
               RegisterBinding(a) \/ InvalidateAccount(a) \/ QuarantineAccountForReauthentication(a)
               \/ ForceRefreshAccount(a)
    BY <1>4, ElsewhereKeepsFlight DEF RegisterBinding, InvalidateAccount, InvalidateAccounts,
       QuarantineAccountForReauthentication, ForceRefreshAccount, AdminUnchanged, flightState,
       flightVars, runVars
<1>5. CASE \E a \in Accounts :
               VerifyReplacement(a) \/ PublishReplacement(a) \/ StoreNewGrant(a) \/ DamageRecord(a)
               \/ NearExpiry(a)
    BY <1>5, ElsewhereKeepsFlight DEF VerifyReplacement, PublishReplacement, StoreNewGrant,
       DamageRecord, NearExpiry, StoreUnchanged, flightState, brokerVars, flightVars, runVars
<1>6. CASE \E p \in Profiles : InvalidateAuthProfile(p)
    BY <1>6, ElsewhereKeepsFlight DEF InvalidateAuthProfile, InvalidateAccounts, AdminUnchanged,
       flightState, flightVars, runVars
<1>7. CASE \E c \in Connections : InvalidateConnection(c)
    BY <1>7, ElsewhereKeepsFlight DEF InvalidateConnection, AdminUnchanged, flightState, flightVars, runVars
<1> QED BY <1>1, <1>2, <1>3, <1>4, <1>5, <1>6, <1>7 DEF Administer

LEMMA OperationFlight ==
    ASSUME TypeOK, FlightInv, NEW o \in Ops,
           \/ Caller(o) \/ Run(o) \/ ReturnFromRefresh(o) \/ Monitor(o) \/ Deliver(o)
           \/ Cancel(o) \/ CancelParent(o) \/ ExpireDeadline(o)
    PROVE  FlightInv'
<1>1. CASE Caller(o)
    BY <1>1, RejectResolveFlight, TakeSnapshotFlight, RejectSnapshotFlight, AdmitFlight DEF Caller
<1>2. CASE Leader(o)
    BY <1>2, LeaderObservesFlight, LeaderInvalidatedFlight, StartRefreshFlight, MayCommitFlight,
       MayNotCommitFlight, CommitFlight, CommitConflictsFlight, CommitFailsFlight, KeepCommitFlight,
       ReloadWinnerFlight, ClearForceRefreshFlight, CompleteRefreshFlightFlight, LeaderSettlesFlight
       DEF Leader
<1>3. CASE Run(o)
    BY <1>2, <1>3, StartRunFlight, RejectContextFlight, RunObservesFlight, RunInvalidatedFlight,
       PublishFailureFlight, LoadFlight, CheckLoadedFlight, QuarantineDamagedFlight,
       AcquireRefreshFlightFlight, FollowerWakesFlight, ReloadFlight, PrepareLeaseFlight,
       LeaseExpiresFlight, CheckLeaseFlight, PublishLeaseFlight, RemovePhysicalOperationFlight
       DEF Run
<1>4. CASE Monitor(o) \/ Deliver(o) \/ Cancel(o) \/ CancelParent(o) \/ ExpireDeadline(o)
    BY <1>4, ElsewhereKeepsFlight DEF Monitor, Deliver, RemoveOperation, EnqueueCredentialResult, Cancel,
       CancelOperation, CancelParent, ExpireDeadline, Signal, RunUnchanged, flightState, brokerVars,
       flightVars, runVars
<1> QED BY <1>1, <1>3, <1>4, ReturnFromRefreshFlight

LEMMA SpecFlight == Spec => [](TypeOK /\ FlightInv)
<1>1. TypeOK /\ FlightInv /\ [Next]_vars => FlightInv'
    BY OperationFlight, AdministerFlight, ElsewhereKeepsFlight
       DEF Next, vars, flightState, brokerVars, flightVars, runVars
<1>2. Init => FlightInv
    BY InitFlight
<1> QED BY <1>1, <1>2, TypeCorrect, PTL DEF Spec

(* "Per-account single-flight refresh": whatever invalidations, cancellations and      *)
(* shutdowns happen, the provider is never asked to refresh one account twice at once. *)
THEOREM SingleFlight == Spec => []SingleFlightRefresh
<1>1. FlightInv => SingleFlightRefresh
    BY DEF FlightInv
<1> QED BY <1>1, SpecFlight, PTL

(* A follower waits only for a flight that is complete, that a shutdown will complete, *)
(* or whose leader is still on its way to complete it.                                 *)
THEOREM NoFollowerIsStranded == Spec => []FollowersAreNotStranded
<1>1. FlightInv => FollowersAreNotStranded
    BY DEF FlightInv, FollowersAreNotStranded, FollowersHaveLeaders, PendingFlightsAreLed, Leads, LeadsAt
<1> QED BY <1>1, SpecFlight, PTL

-----------------------------------------------------------------------------
(* Leases.  A published lease that can still be dispatched belongs to the     *)
(* present binding of its connection.  It checks nothing itself: it carries a *)
(* freshness source.  So the invariant is about sources.  A source that left  *)
(* ConnectionFreshness is revoked, one that is still in it vouches for the    *)
(* epochs of every snapshot that holds it, and a resolve that succeeds holds  *)
(* one.                                                                       *)

SourcesAreNumbered ==
    /\ \A c \in Connections : freshness[c] <= lastFreshness[c]
    /\ \A o \in Ops : snapshot[o].freshness <= lastFreshness[ConnectionOf[o]]

RetiredSourcesAreRevoked ==
    /\ \A c \in Connections : \A n \in Nat :
            n # 0 /\ n <= lastFreshness[c] /\ n # freshness[c] => <<c, n>> \in revoked
    /\ shutdown => \A c \in Connections : freshness[c] # 0 => <<c, freshness[c]>> \in revoked

SourcesVouch ==
    /\ \A o \in Ops :
            snapshot[o].freshness # 0 /\ snapshot[o].freshness = freshness[ConnectionOf[o]] =>
                /\ binding[Account(o)].registered
                /\ binding[Account(o)].epoch = snapshot[o].epoch
                /\ connectionEpoch[ConnectionOf[o]] = snapshot[o].connectionEpoch
    /\ \A c \in Connections : binding[AccountOf[c]].quarantined => freshness[c] = 0

SourceInv == SourcesAreNumbered /\ RetiredSourcesAreRevoked /\ SourcesVouch

ProgressInv ==
    /\ \A o \in Ops : pc[o] \notin {"idle", "rejected"} => snapshot[o].freshness # 0
    /\ \A o \in Ops : terminal[o] = "Succeeded" => pc[o] \in {"exit", "done"}

LEMMA InitLease == Init => SourceInv /\ ProgressInv
BY TopologyAssumption DEF Init, SourceInv, SourcesAreNumbered, RetiredSourcesAreRevoked, SourcesVouch, ProgressInv,
   NoSnapshot, Account

-----------------------------------------------------------------------------
(* The sources. *)

LEMMA ElsewhereKeepsSources == ASSUME SourceInv, UNCHANGED <<brokerVars, snapshot>> PROVE SourceInv'
BY DEF SourceInv, SourcesAreNumbered, RetiredSourcesAreRevoked, SourcesVouch, brokerVars, Account

(* A call that revokes the sources of C may change the bindings of C's accounts at will. *)
LEMMA RevokeKeepsSources ==
    ASSUME TypeOK, SourceInv, NEW C \in SUBSET Connections, RevokeSources(C),
           UNCHANGED <<lastFreshness, snapshot, shutdown>>,
           \A c \in Connections \ C : /\ binding'[AccountOf[c]] = binding[AccountOf[c]]
                                      /\ connectionEpoch'[c] = connectionEpoch[c]
    PROVE  SourceInv'
<1>1. \A c \in Connections : freshness'[c] = IF c \in C THEN 0 ELSE freshness[c]
    BY DEF RevokeSources
<1>2. revoked \subseteq revoked'
    BY DEF RevokeSources
<1>3. \A c \in C : freshness[c] # 0 => <<c, freshness[c]>> \in revoked'
    BY DEF RevokeSources, SourcesOf
<1>4. SourcesAreNumbered'
    BY <1>1 DEF SourceInv, SourcesAreNumbered, TypeOK, BrokerTypes
<1>5. RetiredSourcesAreRevoked'
    BY <1>1, <1>2, <1>3 DEF SourceInv, RetiredSourcesAreRevoked, TypeOK, BrokerTypes
<1>6. SourcesVouch'
    BY <1>1, TopologyAssumption DEF SourceInv, SourcesVouch, Account
<1> QED BY <1>4, <1>5, <1>6 DEF SourceInv

LEMMA QuarantineKeepsSources ==
    ASSUME TypeOK, SourceInv, NEW a \in Accounts, QuarantineEntry(a),
           UNCHANGED <<shutdown, lastFreshness, connectionEpoch, snapshot>>
    PROVE  SourceInv'
<1>1. \A c \in Connections \ ConnectionsOf({a}) : binding'[AccountOf[c]] = binding[AccountOf[c]]
    BY TopologyAssumption DEF ConnectionsOf, QuarantineEntry, TypeOK, BrokerTypes
<1> QED BY <1>1, RevokeKeepsSources, ConnectionsOfType DEF QuarantineEntry

LEMMA QuarantineSnapshotKeepsSources ==
    ASSUME TypeOK, SourceInv, NEW o \in Ops, QuarantineSnapshot(o),
           UNCHANGED <<shutdown, lastFreshness, connectionEpoch, snapshot>>
    PROVE  SourceInv'
<1>1. CASE QuarantineEntry(Account(o))
    BY <1>1, QuarantineKeepsSources, AccountType
<1>2. CASE UNCHANGED <<binding, freshness, revoked>>
    BY <1>2, ElsewhereKeepsSources DEF brokerVars
<1> QED BY <1>1, <1>2 DEF QuarantineSnapshot

(* A resolve takes the source of its connection, or makes one no snapshot holds yet. *)
LEMMA TakeSnapshotSources == ASSUME TypeOK, SourceInv, NEW o \in Ops, TakeSnapshot(o) PROVE SourceInv'
<1> DEFINE c == ConnectionOf[o]
           a == Account(o)
           s == IF freshness[c] # 0 THEN freshness[c] ELSE lastFreshness[c] + 1
<1>1. c \in Connections /\ a \in Accounts /\ a = AccountOf[c]
    BY AccountType DEF Account
<1>2. /\ freshness' = [d \in Connections |-> IF d = c THEN s ELSE freshness[d]]
      /\ lastFreshness' = [d \in Connections |-> IF d = c /\ freshness[c] = 0 THEN s ELSE lastFreshness[d]]
      /\ snapshot' = [q \in Ops |-> IF q = o
              THEN [epoch |-> binding[a].epoch, connectionEpoch |-> connectionEpoch[c],
                    force |-> binding[a].force, freshness |-> s]
              ELSE snapshot[q]]
      /\ UNCHANGED <<shutdown, binding, revoked, connectionEpoch>>
    BY <1>1 DEF TakeSnapshot, TypeOK, BrokerTypes, RunTypes
<1>3. binding[a].registered /\ ~binding[a].quarantined /\ ~shutdown
    BY DEF TakeSnapshot, Refused
<1>4. /\ \A d \in Connections : freshness[d] \in Nat /\ lastFreshness[d] \in Nat
      /\ \A q \in Ops : snapshot[q].freshness \in Nat
    BY DEF TypeOK, BrokerTypes, RunTypes, Snapshots
<1>5. SourcesAreNumbered'
    BY <1>1, <1>2, <1>4, AccountType DEF SourceInv, SourcesAreNumbered
<1>6. RetiredSourcesAreRevoked'
    BY <1>1, <1>2, <1>3, <1>4 DEF SourceInv, RetiredSourcesAreRevoked
<1>7. \A q \in Ops \ {o} : ConnectionOf[q] = c /\ snapshot[q].freshness # 0 /\ snapshot[q].freshness = s
          => freshness[c] = s
    BY <1>1, <1>4 DEF SourceInv, SourcesAreNumbered
<1>8. SourcesVouch'
    <2>1. \A q \in Ops :
              snapshot'[q].freshness # 0 /\ snapshot'[q].freshness = freshness'[ConnectionOf[q]] =>
                  /\ binding'[Account(q)].registered
                  /\ binding'[Account(q)].epoch = snapshot'[q].epoch
                  /\ connectionEpoch'[ConnectionOf[q]] = snapshot'[q].connectionEpoch
        BY <1>1, <1>2, <1>3, <1>7, AccountType DEF SourceInv, SourcesVouch
    <2>2. \A d \in Connections : binding'[AccountOf[d]].quarantined => freshness'[d] = 0
        BY <1>1, <1>2, <1>3 DEF SourceInv, SourcesVouch
    <2> QED BY <2>1, <2>2 DEF SourcesVouch, Account
<1> QED BY <1>5, <1>6, <1>8 DEF SourceInv

(* Registering a binding or clearing its force flag leaves its epoch and quarantine alone. *)
LEMMA BindingFlagKeepsSources ==
    ASSUME TypeOK, SourceInv, UNCHANGED <<shutdown, freshness, lastFreshness, revoked, connectionEpoch, snapshot>>,
           \A a \in Accounts : /\ binding[a].registered => binding'[a].registered
                               /\ binding'[a].epoch = binding[a].epoch
                               /\ binding'[a].quarantined = binding[a].quarantined
    PROVE  SourceInv'
<1>1. SourcesAreNumbered' /\ RetiredSourcesAreRevoked'
    BY DEF SourceInv, SourcesAreNumbered, RetiredSourcesAreRevoked
<1>2. SourcesVouch'
    BY AccountType, TopologyAssumption DEF SourceInv, SourcesVouch, Account
<1> QED BY <1>1, <1>2 DEF SourceInv

LEMMA OperationSources ==
    ASSUME TypeOK, SourceInv, NEW o \in Ops,
           \/ Caller(o) \/ Run(o) \/ ReturnFromRefresh(o) \/ Monitor(o) \/ Deliver(o)
           \/ Cancel(o) \/ CancelParent(o) \/ ExpireDeadline(o)
    PROVE  SourceInv'
<1>1. CASE TakeSnapshot(o)
    BY <1>1, TakeSnapshotSources
<1>2. CASE RejectResolve(o) \/ RejectSnapshot(o) \/ Admit(o)
    BY <1>2, ElsewhereKeepsSources DEF RejectResolve, RejectSnapshot, Admit
<1>3. CASE QuarantineDamaged(o) \/ CompleteRefreshFlight(o)
    <2>1. UNCHANGED <<shutdown, lastFreshness, connectionEpoch, snapshot>>
        BY <1>3 DEF QuarantineDamaged, CompleteRefreshFlight
    <2>2. QuarantineSnapshot(o) \/ UNCHANGED <<binding, freshness, revoked>>
        BY <1>3 DEF QuarantineDamaged, CompleteRefreshFlight
    <2>3. CASE UNCHANGED <<binding, freshness, revoked>>
        BY <2>1, <2>3, ElsewhereKeepsSources DEF brokerVars
    <2> QED BY <2>1, <2>2, <2>3, QuarantineSnapshotKeepsSources
<1>4. CASE ClearForceRefresh(o)
    <2>1. binding' = binding \/ binding' = [binding EXCEPT ![Account(o)].force = FALSE]
        BY <1>4 DEF ClearForceRefresh
    <2>2. \A a \in Accounts : /\ binding'[a].registered = binding[a].registered
                              /\ binding'[a].epoch = binding[a].epoch
                              /\ binding'[a].quarantined = binding[a].quarantined
        BY <2>1, AccountType DEF TypeOK, BrokerTypes, Bindings
    <2> QED BY <1>4, <2>2, BindingFlagKeepsSources DEF ClearForceRefresh
<1>5. CASE \/ StartRun(o) \/ RejectContext(o) \/ RunInvalidated(o) \/ CheckLoaded(o) \/ FollowerWakes(o)
           \/ StartRefresh(o) \/ MayCommit(o) \/ MayNotCommit(o) \/ CommitConflicts(o) \/ KeepCommit(o)
           \/ ReloadWinner(o) \/ LeaderSettles(o) \/ PrepareLease(o) \/ LeaseExpires(o) \/ CheckLease(o)
    <2>1. \E s : Advance(o, s)
        BY <1>5 DEF StartRun, RejectContext, RunInvalidated, CheckLoaded, FollowerWakes, StartRefresh,
           MayCommit, MayNotCommit, CommitConflicts, KeepCommit, ReloadWinner, LeaderSettles,
           PrepareLease, LeaseExpires, CheckLease
    <2> QED BY <2>1, ElsewhereKeepsSources DEF Advance
<1>6. CASE RunObserves(o) \/ PublishFailure(o) \/ PublishLease(o) \/ Load(o) \/ Reload(o)
           \/ AcquireRefreshFlight(o) \/ RemovePhysicalOperation(o)
    BY <1>6, ElsewhereKeepsSources DEF RunObserves, PublishFailure, PublishLease, Load, Reload,
       AcquireRefreshFlight, RemovePhysicalOperation
<1>7. CASE LeaderObserves(o) \/ LeaderInvalidated(o) \/ CommitFails(o) \/ Commit(o) \/ ReturnFromRefresh(o)
    BY <1>7, ElsewhereKeepsSources DEF LeaderObserves, LeaderInvalidated, CommitFails, LeaderGivesUp,
       LeaderUnchanged, Commit, ReturnFromRefresh
<1>8. CASE Monitor(o) \/ Deliver(o) \/ Cancel(o) \/ CancelParent(o) \/ ExpireDeadline(o)
    BY <1>8, ElsewhereKeepsSources DEF Monitor, Deliver, RemoveOperation, EnqueueCredentialResult, Cancel,
       CancelOperation, CancelParent, ExpireDeadline, Signal, runVars
<1> QED BY <1>1, <1>2, <1>3, <1>4, <1>5, <1>6, <1>7, <1>8 DEF Caller, Run, Leader

LEMMA InvalidateAccountsSources ==
    ASSUME TypeOK, SourceInv, NEW A \in SUBSET Accounts, InvalidateAccounts(A) PROVE SourceInv'
<1>1. \A c \in Connections \ ConnectionsOf(A) : binding'[AccountOf[c]] = binding[AccountOf[c]]
    BY TopologyAssumption DEF ConnectionsOf, InvalidateAccounts
<1> QED BY <1>1, RevokeKeepsSources, ConnectionsOfType DEF InvalidateAccounts, AdminUnchanged, runVars

LEMMA AdministerSources == ASSUME TypeOK, SourceInv, Administer PROVE SourceInv'
<1>1. CASE \E a \in Accounts : RegisterBinding(a)
    <2>1. PICK a \in Accounts : RegisterBinding(a)
        BY <1>1
    <2>2. \A b \in Accounts : /\ binding[b].registered => binding'[b].registered
                              /\ binding'[b].epoch = binding[b].epoch
                              /\ binding'[b].quarantined = binding[b].quarantined
        BY <2>1 DEF RegisterBinding, TypeOK, BrokerTypes, Bindings
    <2> QED BY <2>1, <2>2, BindingFlagKeepsSources DEF RegisterBinding, runVars
<1>2. CASE \E a \in Accounts : InvalidateAccount(a)
    BY <1>2, InvalidateAccountsSources DEF InvalidateAccount
<1>3. CASE \E p \in Profiles : InvalidateAuthProfile(p)
    BY <1>3, InvalidateAccountsSources DEF InvalidateAuthProfile
<1>4. CASE \E a \in Accounts : QuarantineAccountForReauthentication(a)
    BY <1>4, QuarantineKeepsSources DEF QuarantineAccountForReauthentication, AdminUnchanged, runVars
<1>5. CASE \E a \in Accounts : ForceRefreshAccount(a) \/ PublishReplacement(a)
    <2>1. PICK a \in Accounts : ForceRefreshAccount(a) \/ PublishReplacement(a)
        BY <1>5
    <2>2. UNCHANGED <<shutdown, lastFreshness, connectionEpoch, snapshot>>
        BY <2>1 DEF ForceRefreshAccount, PublishReplacement, runVars
    <2>3. CASE UNCHANGED <<binding, freshness, revoked>>
        BY <2>2, <2>3, ElsewhereKeepsSources DEF brokerVars
    <2>4. CASE RevokeSources(ConnectionsOf({a})) /\ \A b \in Accounts \ {a} : binding'[b] = binding[b]
        <3>1. \A c \in Connections \ ConnectionsOf({a}) : binding'[AccountOf[c]] = binding[AccountOf[c]]
            BY <2>4, TopologyAssumption DEF ConnectionsOf
        <3> QED BY <2>2, <2>4, <3>1, RevokeKeepsSources, ConnectionsOfType
    <2> QED BY <2>1, <2>3, <2>4 DEF ForceRefreshAccount, PublishReplacement, TypeOK, BrokerTypes
<1>6. CASE \E c \in Connections : InvalidateConnection(c)
    <2>1. PICK c \in Connections : InvalidateConnection(c)
        BY <1>6
    <2>2. \A d \in Connections \ {c} : connectionEpoch'[d] = connectionEpoch[d]
        BY <2>1 DEF InvalidateConnection, TypeOK, BrokerTypes
    <2> QED BY <2>1, <2>2, RevokeKeepsSources DEF InvalidateConnection, AdminUnchanged, runVars
<1>7. CASE BeginShutdown
    <2>1. \A c \in Connections : freshness[c] # 0 => <<c, freshness[c]>> \in revoked'
        BY <1>7 DEF BeginShutdown, SourcesOf
    <2>2. revoked \subseteq revoked' /\ UNCHANGED <<binding, freshness, lastFreshness, connectionEpoch, snapshot>>
        BY <1>7 DEF BeginShutdown, AdminUnchanged, runVars
    <2>3. SourcesAreNumbered' /\ SourcesVouch'
        BY <2>2 DEF SourceInv, SourcesAreNumbered, SourcesVouch, Account
    <2>4. RetiredSourcesAreRevoked'
        BY <2>1, <2>2 DEF SourceInv, RetiredSourcesAreRevoked
    <2> QED BY <2>3, <2>4 DEF SourceInv
<1>8. CASE \/ \E a \in Accounts : VerifyReplacement(a) \/ StoreNewGrant(a) \/ DamageRecord(a) \/ NearExpiry(a)
           \/ \E o \in Ops : FailFlight(o) \/ CancelCollected(o)
    BY <1>8, ElsewhereKeepsSources DEF VerifyReplacement, StoreNewGrant, DamageRecord, NearExpiry,
       StoreUnchanged, FailFlight, AdminUnchanged, CancelCollected, CancelOperation, runVars
<1> QED BY <1>1, <1>2, <1>3, <1>4, <1>5, <1>6, <1>7, <1>8 DEF Administer

-----------------------------------------------------------------------------
(* The run thread: what it did before it may succeed. *)

LEMMA ElsewhereKeepsProgress ==
    ASSUME ProgressInv, UNCHANGED <<pc, snapshot>>,
           \A q \in Ops : terminal'[q] = "Succeeded" => terminal[q] = "Succeeded"
    PROVE  ProgressInv'
BY DEF ProgressInv

LEMMA MoveKeepsProgress ==
    ASSUME TypeOK, ProgressInv, NEW o \in Ops, NEW s, Goto(o, s), UNCHANGED snapshot,
           pc[o] \notin {"idle", "rejected"} \/ s = "rejected",
           pc[o] \notin {"exit", "done"} \/ s = "done",
           \A q \in Ops : terminal'[q] = "Succeeded" => terminal[q] = "Succeeded" \/ (q = o /\ s = "exit")
    PROVE  ProgressInv'
BY DEF TypeOK, RunTypes, Goto, ProgressInv

LEMMA PublishObservedFails ==
    ASSUME TypeOK, NEW o \in Ops, NEW t, PublishObserved(o, t)
    PROVE  \A q \in Ops : terminal'[q] = "Succeeded" => terminal[q] = "Succeeded"
BY DEF PublishObserved, Publish, SignalKind, TypeOK, PublishTypes

LEMMA GiveUpKeepsProgress ==
    ASSUME TypeOK, ProgressInv, NEW o \in Ops, LeaderGivesUp(o), pc[o] \in LeaderStates,
           \A q \in Ops : terminal'[q] = "Succeeded" => terminal[q] = "Succeeded"
    PROVE  ProgressInv'
BY MoveKeepsProgress DEF LeaderGivesUp, LeaderUnchanged, LeaderStates

LEMMA TakeSnapshotProgress == ASSUME TypeOK, ProgressInv, NEW o \in Ops, TakeSnapshot(o) PROVE ProgressInv'
<1>1. snapshot'[o].freshness # 0
    BY AccountType DEF TakeSnapshot, TypeOK, RunTypes, BrokerTypes
<1>2. /\ \A q \in Ops \ {o} : snapshot'[q] = snapshot[q] /\ pc'[q] = pc[q]
      /\ terminal' = terminal /\ pc[o] = "idle"
    BY DEF TakeSnapshot, Goto, TypeOK, RunTypes, publishVars
<1> QED BY <1>1, <1>2 DEF ProgressInv

LEMMA OperationProgress ==
    ASSUME TypeOK, ProgressInv, NEW o \in Ops,
           \/ Caller(o) \/ Run(o) \/ ReturnFromRefresh(o) \/ Monitor(o) \/ Deliver(o)
           \/ Cancel(o) \/ CancelParent(o) \/ ExpireDeadline(o)
    PROVE  ProgressInv'
<1>1. CASE TakeSnapshot(o)
    BY <1>1, TakeSnapshotProgress
<1>2. CASE RejectResolve(o) \/ RejectSnapshot(o) \/ Admit(o)
    BY <1>2, MoveKeepsProgress DEF RejectResolve, RejectSnapshot, Admit, publishVars
<1>3. CASE QuarantineDamaged(o) \/ CompleteRefreshFlight(o) \/ ClearForceRefresh(o) \/ Load(o) \/ Reload(o)
           \/ AcquireRefreshFlight(o) \/ RemovePhysicalOperation(o)
    BY <1>3, MoveKeepsProgress DEF QuarantineDamaged, CompleteRefreshFlight, ClearForceRefresh, Load,
       Reload, AcquireRefreshFlight, RemovePhysicalOperation, At, publishVars
<1>4. CASE \/ StartRun(o) \/ RejectContext(o) \/ RunInvalidated(o) \/ CheckLoaded(o) \/ FollowerWakes(o)
           \/ StartRefresh(o) \/ MayCommit(o) \/ MayNotCommit(o) \/ CommitConflicts(o) \/ KeepCommit(o)
           \/ ReloadWinner(o) \/ LeaderSettles(o) \/ PrepareLease(o) \/ LeaseExpires(o) \/ CheckLease(o)
    <2>1. \E s \in RunStates : Advance(o, s)
        BY <1>4 DEF StartRun, RejectContext, RunInvalidated, CheckLoaded, FollowerWakes, StartRefresh,
           MayCommit, MayNotCommit, CommitConflicts, KeepCommit, ReloadWinner, LeaderSettles,
           PrepareLease, LeaseExpires, CheckLease, RunStates
    <2>2. pc[o] \notin {"idle", "rejected", "exit", "done"}
        BY <1>4 DEF StartRun, RejectContext, RunInvalidated, CheckLoaded, FollowerWakes, StartRefresh,
           MayCommit, MayNotCommit, CommitConflicts, KeepCommit, ReloadWinner, LeaderSettles,
           PrepareLease, LeaseExpires, CheckLease, At
    <2> QED BY <2>1, <2>2, MoveKeepsProgress DEF Advance, publishVars
<1>5. CASE RunObserves(o)
    BY <1>5, MoveKeepsProgress, PublishObservedFails DEF RunObserves, At
<1>6. CASE PublishFailure(o) \/ PublishLease(o)
    <2>1. \A q \in Ops \ {o} : terminal'[q] = terminal[q]
        BY <1>6 DEF PublishFailure, PublishLease, Publish, TypeOK, PublishTypes
    <2> QED BY <1>6, <2>1, MoveKeepsProgress DEF PublishFailure, PublishLease, At
<1>7. CASE LeaderObserves(o) \/ LeaderInvalidated(o) \/ CommitFails(o)
    <2>1. LeaderGivesUp(o) /\ (PublishObserved(o, "run") \/ terminal' = terminal)
        BY <1>7 DEF LeaderObserves, LeaderInvalidated, CommitFails, publishVars
    <2>2. pc[o] \in LeaderStates
        BY <1>7 DEF LeaderObserves, LeaderInvalidated, CommitFails, AtLeaderCheck, At, LeaderStates
    <2> QED BY <2>1, <2>2, GiveUpKeepsProgress, PublishObservedFails
<1>8. CASE Commit(o) \/ ReturnFromRefresh(o)
    BY <1>8, MoveKeepsProgress DEF Commit, ReturnFromRefresh, LeaderUnchanged, At, publishVars
<1>9. CASE Monitor(o)
    BY <1>9, ElsewhereKeepsProgress, PublishObservedFails DEF Monitor, runVars
<1>10. CASE Deliver(o) \/ CancelParent(o) \/ ExpireDeadline(o)
    BY <1>10, ElsewhereKeepsProgress DEF Deliver, RemoveOperation, EnqueueCredentialResult, CancelParent,
       ExpireDeadline, Signal, runVars, publishVars
<1>11. CASE Cancel(o)
    BY <1>11, ElsewhereKeepsProgress DEF Cancel, CancelOperation, Publish, runVars, TypeOK, PublishTypes
<1> QED BY <1>1, <1>2, <1>3, <1>4, <1>5, <1>6, <1>7, <1>8, <1>9, <1>10, <1>11 DEF Caller, Run, Leader

LEMMA AdministerProgress == ASSUME TypeOK, ProgressInv, Administer PROVE ProgressInv'
<1>1. CASE \E o \in Ops : CancelCollected(o)
    BY <1>1, ElsewhereKeepsProgress DEF CancelCollected, CancelOperation, Publish, runVars, TypeOK, PublishTypes
<1>2. CASE ~ \E o \in Ops : CancelCollected(o)
    <2>1. UNCHANGED runVars /\ UNCHANGED publishVars
        BY <1>2 DEF Administer, RegisterBinding, InvalidateAccount, InvalidateAccounts,
           QuarantineAccountForReauthentication, ForceRefreshAccount, VerifyReplacement,
           PublishReplacement, StoreNewGrant, DamageRecord, NearExpiry, InvalidateAuthProfile,
           InvalidateConnection, BeginShutdown, FailFlight, AdminUnchanged, StoreUnchanged
    <2> QED BY <2>1, ElsewhereKeepsProgress DEF runVars, publishVars
<1> QED BY <1>1, <1>2

LEMMA SpecLease == Spec => [](TypeOK /\ SourceInv /\ ProgressInv)
<1>1. TypeOK /\ SourceInv /\ ProgressInv /\ [Next]_vars => SourceInv' /\ ProgressInv'
    <2> SUFFICES ASSUME TypeOK, SourceInv, ProgressInv, [Next]_vars PROVE SourceInv' /\ ProgressInv'
        OBVIOUS
    <2>1. CASE Next
        BY <2>1, OperationSources, AdministerSources, OperationProgress, AdministerProgress DEF Next
    <2>2. CASE UNCHANGED vars
        BY <2>2, ElsewhereKeepsSources, ElsewhereKeepsProgress DEF vars, runVars, publishVars
    <2> QED BY <2>1, <2>2
<1> QED BY <1>1, InitLease, TypeCorrect, PTL DEF Spec

(* A lease that can still be dispatched is current: no invalidation, quarantine, forced *)
(* refresh or shutdown, wherever it falls between the checks of the run thread and its  *)
(* Publish, leaves behind a lease whose freshness source still says yes.                *)
THEOREM LiveLeases == Spec => []LiveLeaseIsCurrent
<1>1. TypeOK /\ SourceInv /\ ProgressInv => LiveLeaseIsCurrent
    <2> SUFFICES ASSUME TypeOK, SourceInv, ProgressInv, NEW o \in Ops, terminal[o] = "Succeeded",
                        <<ConnectionOf[o], snapshot[o].freshness>> \notin revoked
                 PROVE  IsSnapshotCurrent(o) /\ ~binding[Account(o)].quarantined
        BY DEF LiveLeaseIsCurrent
    <2> DEFINE c == ConnectionOf[o]
               n == snapshot[o].freshness
    <2>1. c \in Connections /\ n \in Nat /\ n # 0
        BY AccountType DEF ProgressInv, TypeOK, RunTypes, Snapshots
    <2>2. n <= lastFreshness[c]
        BY DEF SourceInv, SourcesAreNumbered
    <2>3. freshness[c] = n
        BY <2>1, <2>2 DEF SourceInv, RetiredSourcesAreRevoked
    <2>4. ~shutdown
        BY <2>1, <2>3 DEF SourceInv, RetiredSourcesAreRevoked
    <2> QED BY <2>1, <2>3, <2>4 DEF SourceInv, SourcesVouch, IsSnapshotCurrent, Account
<1> QED BY <1>1, SpecLease, PTL

-----------------------------------------------------------------------------
(* The answer: who won the guard delivers, once. *)

AnswerInv ==
    /\ \A o \in Ops : terminal[o] = "none" => stage[o] = "none"
    /\ \A o \in Ops : deliveries[o] = IF stage[o] = "delivered" THEN 1 ELSE 0
    /\ \A o \in Ops : pc[o] \in {"exit", "done"} => terminal[o] # "none"

LEMMA InitAnswer == Init => AnswerInv
BY DEF Init, AnswerInv

LEMMA ElsewhereKeepsAnswers == ASSUME AnswerInv, UNCHANGED <<publishVars, pc>> PROVE AnswerInv'
BY DEF AnswerInv, publishVars

(* A thread leaves with what it published, or moves on. *)
LEMMA MoveKeepsAnswers ==
    ASSUME TypeOK, AnswerInv, NEW o \in Ops, NEW s, Goto(o, s), UNCHANGED publishVars,
           s \notin {"exit", "done"} \/ pc[o] = "exit"
    PROVE  AnswerInv'
BY DEF AnswerInv, publishVars, Goto, TypeOK, RunTypes

LEMMA PublishKeepsAnswers ==
    ASSUME TypeOK, AnswerInv, NEW o \in Ops, NEW t, NEW k, k # "none", Publish(o, t, k),
           UNCHANGED pc \/ \E s : Goto(o, s)
    PROVE  AnswerInv'
<1>1. \A q \in Ops : terminal[q] # "none" => terminal'[q] # "none"
    BY DEF Publish, TypeOK, PublishTypes
<1>2. terminal'[o] # "none"
    BY DEF Publish, TypeOK, PublishTypes
<1>3. \A q \in Ops \ {o} : pc'[q] = pc[q]
    BY DEF Goto, TypeOK, RunTypes
<1>4. \A q \in Ops : pc'[q] \in {"exit", "done"} => terminal'[q] # "none"
    BY <1>1, <1>2, <1>3 DEF AnswerInv
<1>5. \A q \in Ops : terminal'[q] = "none" => stage'[q] = "none"
    BY <1>2 DEF AnswerInv, Publish, TypeOK, PublishTypes
<1>6. \A q \in Ops : deliveries'[q] = IF stage'[q] = "delivered" THEN 1 ELSE 0
    BY DEF AnswerInv, Publish, TypeOK, PublishTypes
<1> QED BY <1>4, <1>5, <1>6 DEF AnswerInv

LEMMA SignalKindEnds == \A o : SignalKind(o) # "none"
BY DEF SignalKind

LEMMA DeliverAnswers == ASSUME TypeOK, AnswerInv, NEW o \in Ops, Deliver(o) PROVE AnswerInv'
<1>1. CASE RemoveOperation(o)
    BY <1>1 DEF RemoveOperation, AnswerInv, runVars, TypeOK, PublishTypes
<1>2. CASE EnqueueCredentialResult(o)
    BY <1>2 DEF EnqueueCredentialResult, AnswerInv, runVars, TypeOK, PublishTypes
<1> QED BY <1>1, <1>2 DEF Deliver

LEMMA OperationAnswers ==
    ASSUME TypeOK, AnswerInv, NEW o \in Ops,
           \/ Caller(o) \/ Run(o) \/ ReturnFromRefresh(o) \/ Monitor(o) \/ Deliver(o)
           \/ Cancel(o) \/ CancelParent(o) \/ ExpireDeadline(o)
    PROVE  AnswerInv'
<1>1. CASE Caller(o)
    BY <1>1, MoveKeepsAnswers DEF Caller, RejectResolve, TakeSnapshot, RejectSnapshot, Admit
<1>2. CASE QuarantineDamaged(o) \/ CompleteRefreshFlight(o) \/ ClearForceRefresh(o) \/ Load(o) \/ Reload(o)
           \/ AcquireRefreshFlight(o)
    BY <1>2, MoveKeepsAnswers DEF QuarantineDamaged, CompleteRefreshFlight, ClearForceRefresh, Load,
       Reload, AcquireRefreshFlight
<1>3. CASE RemovePhysicalOperation(o)
    BY <1>3, MoveKeepsAnswers DEF RemovePhysicalOperation, At
<1>4. CASE \/ StartRun(o) \/ RejectContext(o) \/ RunInvalidated(o) \/ CheckLoaded(o) \/ FollowerWakes(o)
           \/ StartRefresh(o) \/ MayCommit(o) \/ MayNotCommit(o) \/ CommitConflicts(o) \/ KeepCommit(o)
           \/ ReloadWinner(o) \/ LeaderSettles(o) \/ PrepareLease(o) \/ LeaseExpires(o) \/ CheckLease(o)
    <2>1. \E s \in RunStates \ {"exit"} : Advance(o, s)
        BY <1>4 DEF StartRun, RejectContext, RunInvalidated, CheckLoaded, FollowerWakes, StartRefresh,
           MayCommit, MayNotCommit, CommitConflicts, KeepCommit, ReloadWinner, LeaderSettles,
           PrepareLease, LeaseExpires, CheckLease, RunStates
    <2> QED BY <2>1, MoveKeepsAnswers DEF Advance, RunStates
<1>5. CASE RunObserves(o) \/ PublishFailure(o) \/ PublishLease(o) \/ LeaderObserves(o)
    BY <1>5, PublishKeepsAnswers, SignalKindEnds DEF RunObserves, PublishFailure, PublishLease,
       LeaderObserves, PublishObserved, LeaderGivesUp
<1>6. CASE LeaderInvalidated(o) \/ CommitFails(o) \/ Commit(o) \/ ReturnFromRefresh(o)
    BY <1>6, MoveKeepsAnswers DEF LeaderInvalidated, CommitFails, LeaderGivesUp, Commit, ReturnFromRefresh
<1>7. CASE Monitor(o) \/ Cancel(o)
    BY <1>7, PublishKeepsAnswers, SignalKindEnds DEF Monitor, PublishObserved, Cancel, CancelOperation, runVars
<1>8. CASE CancelParent(o) \/ ExpireDeadline(o)
    BY <1>8, ElsewhereKeepsAnswers DEF CancelParent, ExpireDeadline, Signal, runVars
<1> QED BY <1>1, <1>2, <1>3, <1>4, <1>5, <1>6, <1>7, <1>8, DeliverAnswers DEF Run, Leader

(* Of the outside calls only the cancellation of what a bulk call collected touches an operation. *)
LEMMA AdministerLeavesRuns ==
    ASSUME Administer, ~ \E o \in Ops : CancelCollected(o)
    PROVE  UNCHANGED <<runVars, publishVars, tableVars, late, signal>>
BY DEF Administer, RegisterBinding, InvalidateAccount, InvalidateAccounts,
   QuarantineAccountForReauthentication, ForceRefreshAccount, VerifyReplacement,
   PublishReplacement, StoreNewGrant, DamageRecord, NearExpiry, InvalidateAuthProfile,
   InvalidateConnection, BeginShutdown, FailFlight, AdminUnchanged, StoreUnchanged, historyVars

LEMMA AdministerAnswers == ASSUME TypeOK, AnswerInv, Administer PROVE AnswerInv'
<1>1. CASE \E o \in Ops : CancelCollected(o)
    BY <1>1, PublishKeepsAnswers DEF CancelCollected, CancelOperation, runVars
<1>2. CASE ~ \E o \in Ops : CancelCollected(o)
    BY <1>2, AdministerLeavesRuns, ElsewhereKeepsAnswers DEF runVars
<1> QED BY <1>1, <1>2

(* A resolve is answered once: no thread that races to end it answers it twice, and its *)
(* run thread never ends without an answer.                                             *)
THEOREM OneAnswer == Spec => []ResolvesAreAnsweredOnce
<1>1. TypeOK /\ AnswerInv /\ [Next]_vars => AnswerInv'
    <2> SUFFICES ASSUME TypeOK, AnswerInv, [Next]_vars PROVE AnswerInv'
        OBVIOUS
    <2>1. CASE Next
        BY <2>1, OperationAnswers, AdministerAnswers DEF Next
    <2>2. CASE UNCHANGED vars
        BY <2>2, ElsewhereKeepsAnswers DEF vars, runVars
    <2> QED BY <2>1, <2>2
<1>2. AnswerInv => ResolvesAreAnsweredOnce
    BY DEF AnswerInv, ResolvesAreAnsweredOnce, AtMostOneResult, RunAnswers
<1> QED BY <1>1, <1>2, InitAnswer, TypeCorrect, PTL DEF Spec

-----------------------------------------------------------------------------
(* The slots: the physical table is the set of the running threads' identifiers. *)

SlotInv == IsFiniteSet(physicalIds) /\ PhysicalTableIsExact

LEMMA InitSlots == Init => SlotInv
<1> SUFFICES ASSUME Init PROVE SlotInv
    OBVIOUS
<1>1. Running = {} /\ physicalIds = {}
    BY DEF Init, Running, RunStates
<1> QED BY <1>1, FS_EmptySet, BoundsAssumption DEF SlotInv, PhysicalTableIsExact

(* A thread that runs before and after a step keeps its slot. *)
LEMMA RunningKeepsSlots ==
    ASSUME SlotInv, UNCHANGED physicalIds, Running' = Running PROVE SlotInv'
BY DEF SlotInv, PhysicalTableIsExact

LEMMA MoveKeepsSlots ==
    ASSUME TypeOK, SlotInv, NEW o \in Ops, NEW s, Goto(o, s), UNCHANGED physicalIds,
           pc[o] \in RunStates <=> s \in RunStates
    PROVE  SlotInv'
<1>1. Running' = Running
    BY DEF Running, Goto, TypeOK, RunTypes
<1> QED BY <1>1, RunningKeepsSlots

LEMMA AdmitSlots == ASSUME TypeOK, SlotInv, NEW o \in Ops, Admit(o) PROVE SlotInv'
<1> DEFINE r == RequestIdOf[o]
<1>1. /\ physicalIds' = physicalIds \cup {r} /\ r \notin physicalIds
      /\ ~(Cardinality(physicalIds) >= MaxConcurrentOperations)
    BY DEF Admit, Refused, AtCapacity
<1>2. Running' = Running \cup {o}
    BY DEF Admit, Goto, Running, RunStates, TypeOK, RunTypes
<1>3. IsFiniteSet(physicalIds') /\ Cardinality(physicalIds') = Cardinality(physicalIds) + 1
    BY <1>1, FS_AddElement DEF SlotInv
<1>4. Cardinality(physicalIds') <= MaxConcurrentOperations
    BY <1>1, <1>3, FS_CardinalityType, BoundsAssumption DEF SlotInv
<1>5. physicalIds' = {RequestIdOf[q] : q \in Running'}
    BY <1>1, <1>2 DEF SlotInv, PhysicalTableIsExact
<1>6. \A p, q \in Running' : RequestIdOf[p] = RequestIdOf[q] => p = q
    BY <1>1, <1>2 DEF SlotInv, PhysicalTableIsExact
<1> QED BY <1>3, <1>4, <1>5, <1>6 DEF SlotInv, PhysicalTableIsExact

LEMMA RemovePhysicalOperationSlots ==
    ASSUME TypeOK, SlotInv, NEW o \in Ops, RemovePhysicalOperation(o) PROVE SlotInv'
<1> DEFINE r == RequestIdOf[o]
<1>1. o \in Running /\ Running' = Running \ {o} /\ physicalIds' = physicalIds \ {r}
    BY DEF RemovePhysicalOperation, At, Goto, Running, RunStates, TypeOK, RunTypes
<1>2. IsFiniteSet(physicalIds') /\ Cardinality(physicalIds') <= Cardinality(physicalIds)
    BY <1>1, FS_Subset DEF SlotInv
<1>3. Cardinality(physicalIds') <= MaxConcurrentOperations
    BY <1>2, FS_CardinalityType, BoundsAssumption DEF SlotInv, PhysicalTableIsExact
<1>4. physicalIds' = {RequestIdOf[q] : q \in Running'}
    BY <1>1 DEF SlotInv, PhysicalTableIsExact
<1>5. \A p, q \in Running' : RequestIdOf[p] = RequestIdOf[q] => p = q
    BY <1>1 DEF SlotInv, PhysicalTableIsExact
<1> QED BY <1>2, <1>3, <1>4, <1>5 DEF SlotInv, PhysicalTableIsExact

LEMMA OperationSlots ==
    ASSUME TypeOK, SlotInv, NEW o \in Ops,
           \/ Caller(o) \/ Run(o) \/ ReturnFromRefresh(o) \/ Monitor(o) \/ Deliver(o)
           \/ Cancel(o) \/ CancelParent(o) \/ ExpireDeadline(o)
    PROVE  SlotInv'
<1>1. CASE RejectResolve(o) \/ TakeSnapshot(o) \/ RejectSnapshot(o)
    BY <1>1, MoveKeepsSlots DEF RejectResolve, TakeSnapshot, RejectSnapshot, RunStates, tableVars
<1>2. CASE Admit(o) \/ RemovePhysicalOperation(o)
    BY <1>2, AdmitSlots, RemovePhysicalOperationSlots
<1>3. CASE QuarantineDamaged(o) \/ CompleteRefreshFlight(o) \/ ClearForceRefresh(o) \/ Load(o) \/ Reload(o)
           \/ AcquireRefreshFlight(o)
    BY <1>3, MoveKeepsSlots DEF QuarantineDamaged, CompleteRefreshFlight, ClearForceRefresh, Load,
       Reload, AcquireRefreshFlight, At, RunStates, RunUnchanged, tableVars
<1>4. CASE \/ StartRun(o) \/ RejectContext(o) \/ RunInvalidated(o) \/ CheckLoaded(o) \/ FollowerWakes(o)
           \/ StartRefresh(o) \/ MayCommit(o) \/ MayNotCommit(o) \/ CommitConflicts(o) \/ KeepCommit(o)
           \/ ReloadWinner(o) \/ LeaderSettles(o) \/ PrepareLease(o) \/ LeaseExpires(o) \/ CheckLease(o)
    <2>1. pc[o] \in RunStates /\ \E s \in RunStates : Advance(o, s)
        BY <1>4 DEF StartRun, RejectContext, RunInvalidated, CheckLoaded, FollowerWakes, StartRefresh,
           MayCommit, MayNotCommit, CommitConflicts, KeepCommit, ReloadWinner, LeaderSettles,
           PrepareLease, LeaseExpires, CheckLease, RunStates, At
    <2> QED BY <2>1, MoveKeepsSlots DEF Advance, RunUnchanged, tableVars
<1>5. CASE RunObserves(o) \/ PublishFailure(o) \/ PublishLease(o)
    BY <1>5, MoveKeepsSlots DEF RunObserves, PublishFailure, PublishLease, At, RunStates, RunUnchanged, tableVars
<1>6. CASE LeaderObserves(o) \/ LeaderInvalidated(o) \/ CommitFails(o) \/ Commit(o) \/ ReturnFromRefresh(o)
    BY <1>6, MoveKeepsSlots DEF LeaderObserves, LeaderInvalidated, CommitFails, LeaderGivesUp, Commit,
       ReturnFromRefresh, LeaderUnchanged, AtLeaderCheck, At, RunStates, tableVars
<1>7. CASE Monitor(o) \/ Deliver(o) \/ Cancel(o) \/ CancelParent(o) \/ ExpireDeadline(o)
    BY <1>7, RunningKeepsSlots DEF Monitor, Deliver, RemoveOperation, EnqueueCredentialResult, Cancel,
       CancelOperation, CancelParent, ExpireDeadline, Signal, RunUnchanged, runVars, tableVars, Running
<1> QED BY <1>1, <1>2, <1>3, <1>4, <1>5, <1>6, <1>7 DEF Caller, Run, Leader

LEMMA AdministerSlots == ASSUME TypeOK, SlotInv, Administer PROVE SlotInv'
<1>1. UNCHANGED <<runVars, physicalIds>>
    BY AdministerLeavesRuns DEF CancelCollected, CancelOperation, tableVars
<1> QED BY <1>1, RunningKeepsSlots DEF runVars, Running

(* A resolve holds its slot and its identifier from its admission until its thread has   *)
(* returned, however early it was answered, and no slot is given twice: the table never  *)
(* exceeds its capacity and forgets no store or provider call that still runs.           *)
THEOREM SlotsAreExact == Spec => []PhysicalTableIsExact
<1>1. TypeOK /\ SlotInv /\ [Next]_vars => SlotInv'
    <2> SUFFICES ASSUME TypeOK, SlotInv, [Next]_vars PROVE SlotInv'
        OBVIOUS
    <2>1. CASE Next
        BY <2>1, OperationSlots, AdministerSlots DEF Next
    <2>2. CASE UNCHANGED vars
        BY <2>2, RunningKeepsSlots DEF vars, runVars, tableVars, Running
    <2> QED BY <2>1, <2>2
<1>2. SlotInv => PhysicalTableIsExact
    BY DEF SlotInv
<1> QED BY <1>1, <1>2, InitSlots, TypeCorrect, PTL DEF Spec

-----------------------------------------------------------------------------
(* The late refresh. *)

(* Where an operation can be after a Refresh that came back too late. *)
LateStates == {"refreshed", "complete", "settled", "lease", "leased", "publish", "fail", "exit", "done"}

Revoked(o) == <<ConnectionOf[o], snapshot[o].freshness>> \in revoked

LateInv == \A o \in late : pc[o] \in LateStates /\ (Observed(o) \/ Revoked(o))

(* What stays: a source once revoked, an operation once ended or signalled. *)
LateStays(o) ==
    /\ revoked \subseteq revoked'
    /\ snapshot'[o] = snapshot[o]
    /\ Observed(o) => Observed(o)'

(* The checks of a run thread compare epochs; a snapshot fails them exactly when its source *)
(* is revoked, and that cannot be undone.                                                   *)
LEMMA CurrentIsNotRevoked ==
    ASSUME TypeOK, SourceInv, ProgressInv, NEW o \in Ops, pc[o] \notin {"idle", "rejected"}
    PROVE  IsSnapshotCurrent(o) <=> ~Revoked(o)
<1> DEFINE c == ConnectionOf[o]
           n == snapshot[o].freshness
<1>1. IsSnapshotCurrent(o) => ~Revoked(o)
    BY DEF IsSnapshotCurrent, Revoked
<1>2. ASSUME ~Revoked(o) PROVE IsSnapshotCurrent(o)
    <2>1. c \in Connections /\ n \in Nat /\ n # 0
        BY AccountType DEF ProgressInv, TypeOK, RunTypes, Snapshots
    <2>2. n <= lastFreshness[c]
        BY DEF SourceInv, SourcesAreNumbered
    <2>3. freshness[c] = n
        BY <1>2, <2>1, <2>2 DEF SourceInv, RetiredSourcesAreRevoked, Revoked
    <2>4. ~shutdown
        BY <1>2, <2>1, <2>3 DEF SourceInv, RetiredSourcesAreRevoked, Revoked
    <2> QED BY <1>2, <2>1, <2>3, <2>4 DEF SourceInv, SourcesVouch, IsSnapshotCurrent, Account, Revoked
<1> QED BY <1>1, <1>2

LEMMA QuarantineSnapshotRevokes ==
    ASSUME NEW o, QuarantineSnapshot(o) PROVE revoked \subseteq revoked'
BY DEF QuarantineSnapshot, QuarantineEntry, RevokeSources

(* Publish and the signals only add to what is observed. *)
LEMMA PublishKeepsObserved ==
    ASSUME TypeOK, NEW o \in Ops, NEW q \in Ops, NEW t, NEW k, k # "none", Publish(o, t, k),
           signal'[q] = signal[q] \/ signal'[q] # "none"
    PROVE  Observed(q) => Observed(q)'
BY DEF Observed, Publish, TypeOK, PublishTypes

LEMMA ElsewhereStays ==
    ASSUME NEW q, UNCHANGED <<terminal, signal, snapshot>>, revoked \subseteq revoked'
    PROVE  LateStays(q)
BY DEF LateStays, Observed

LEMMA PublishStays ==
    ASSUME TypeOK, NEW o \in Ops, NEW q \in Ops, NEW t, NEW k, k # "none", Publish(o, t, k),
           UNCHANGED <<revoked, snapshot>>, signal'[q] = signal[q] \/ signal'[q] # "none"
    PROVE  LateStays(q)
BY PublishKeepsObserved DEF LateStays

LEMMA OperationStays ==
    ASSUME TypeOK, NEW o \in Ops, NEW q \in Ops, pc[q] \in LateStates,
           \/ Caller(o) \/ Run(o) \/ ReturnFromRefresh(o) \/ Monitor(o) \/ Deliver(o)
           \/ Cancel(o) \/ CancelParent(o) \/ ExpireDeadline(o)
    PROVE  LateStays(q)
<1>1. CASE TakeSnapshot(o)
    <2>1. o # q
        BY <1>1 DEF TakeSnapshot, LateStates
    <2> QED BY <1>1, <2>1 DEF TakeSnapshot, LateStays, Observed, publishVars, TypeOK, RunTypes
<1>2. CASE RejectResolve(o) \/ RejectSnapshot(o) \/ Admit(o)
    BY <1>2, ElsewhereStays DEF RejectResolve, RejectSnapshot, Admit, brokerVars, publishVars
<1>3. CASE QuarantineDamaged(o) \/ CompleteRefreshFlight(o)
    BY <1>3, ElsewhereStays, QuarantineSnapshotRevokes DEF QuarantineDamaged, CompleteRefreshFlight,
       publishVars, RunUnchanged
<1>4. CASE ClearForceRefresh(o) \/ Load(o) \/ Reload(o) \/ AcquireRefreshFlight(o) \/ RemovePhysicalOperation(o)
    BY <1>4, ElsewhereStays DEF ClearForceRefresh, Load, Reload, AcquireRefreshFlight,
       RemovePhysicalOperation, brokerVars, publishVars, RunUnchanged
<1>5. CASE \/ StartRun(o) \/ RejectContext(o) \/ RunInvalidated(o) \/ CheckLoaded(o) \/ FollowerWakes(o)
           \/ StartRefresh(o) \/ MayCommit(o) \/ MayNotCommit(o) \/ CommitConflicts(o) \/ KeepCommit(o)
           \/ ReloadWinner(o) \/ LeaderSettles(o) \/ PrepareLease(o) \/ LeaseExpires(o) \/ CheckLease(o)
    <2>1. \E s : Advance(o, s)
        BY <1>5 DEF StartRun, RejectContext, RunInvalidated, CheckLoaded, FollowerWakes, StartRefresh,
           MayCommit, MayNotCommit, CommitConflicts, KeepCommit, ReloadWinner, LeaderSettles,
           PrepareLease, LeaseExpires, CheckLease
    <2> QED BY <2>1, ElsewhereStays DEF Advance, brokerVars, publishVars, RunUnchanged
<1>6. CASE RunObserves(o) \/ PublishFailure(o) \/ PublishLease(o)
    BY <1>6, PublishStays, SignalKindEnds DEF RunObserves, PublishFailure, PublishLease, PublishObserved,
       brokerVars, RunUnchanged
<1>7. CASE LeaderObserves(o)
    BY <1>7, PublishStays, SignalKindEnds DEF LeaderObserves, PublishObserved, LeaderGivesUp,
       LeaderUnchanged, brokerVars
<1>8. CASE LeaderInvalidated(o) \/ CommitFails(o) \/ Commit(o) \/ ReturnFromRefresh(o)
    BY <1>8, ElsewhereStays DEF LeaderInvalidated, CommitFails, LeaderGivesUp, Commit, ReturnFromRefresh,
       LeaderUnchanged, brokerVars, publishVars
<1>9. CASE Monitor(o)
    BY <1>9, PublishStays, SignalKindEnds DEF Monitor, PublishObserved, brokerVars, RunUnchanged, runVars
<1>10. CASE Cancel(o)
    BY <1>10, PublishStays DEF Cancel, CancelOperation, brokerVars, runVars, TypeOK, SignalTypes
<1>11. CASE Deliver(o)
    BY <1>11, ElsewhereStays DEF Deliver, RemoveOperation, EnqueueCredentialResult, brokerVars,
       RunUnchanged, runVars
<1>12. CASE CancelParent(o) \/ ExpireDeadline(o)
    BY <1>12 DEF CancelParent, ExpireDeadline, Signal, LateStays, Observed, brokerVars, publishVars, runVars,
       TypeOK, SignalTypes
<1> QED BY <1>1, <1>2, <1>3, <1>4, <1>5, <1>6, <1>7, <1>8, <1>9, <1>10, <1>11, <1>12 DEF Caller, Run, Leader

LEMMA AdministerStays == ASSUME TypeOK, NEW q \in Ops, Administer PROVE LateStays(q)
<1>1. CASE \E o \in Ops : CancelCollected(o)
    BY <1>1, PublishStays DEF CancelCollected, CancelOperation, brokerVars, runVars, TypeOK, SignalTypes
<1>2. CASE ~ \E o \in Ops : CancelCollected(o)
    <2>1. revoked \subseteq revoked'
        BY <1>2 DEF Administer, RegisterBinding, InvalidateAccount, InvalidateAccounts,
           QuarantineAccountForReauthentication, QuarantineEntry, ForceRefreshAccount, VerifyReplacement,
           PublishReplacement, StoreNewGrant, DamageRecord, NearExpiry, InvalidateAuthProfile,
           InvalidateConnection, BeginShutdown, FailFlight, AdminUnchanged, StoreUnchanged, RevokeSources,
           brokerVars
    <2> QED BY <1>2, <2>1, AdministerLeavesRuns, ElsewhereStays DEF runVars, publishVars
<1> QED BY <1>1, <1>2

(* An operation whose snapshot or terminal failed once fails every check that leads to the store. *)
LEMMA LateStatesStay ==
    ASSUME TypeOK, SourceInv, ProgressInv, NEW o \in Ops, pc[o] \in LateStates, Observed(o) \/ Revoked(o),
           \/ Caller(o) \/ Run(o) \/ ReturnFromRefresh(o) \/ Monitor(o) \/ Deliver(o)
           \/ Cancel(o) \/ CancelParent(o) \/ ExpireDeadline(o)
    PROVE  pc'[o] \in LateStates
<1>1. ~MayGoOn(o)
    BY CurrentIsNotRevoked DEF MayGoOn, LateStates
<1>2. CASE Caller(o)
    BY <1>2 DEF Caller, RejectResolve, TakeSnapshot, RejectSnapshot, Admit, LateStates
<1>3. CASE \/ RunObserves(o) \/ PublishFailure(o) \/ PublishLease(o) \/ RemovePhysicalOperation(o)
           \/ CompleteRefreshFlight(o)
    BY <1>3 DEF RunObserves, PublishFailure, PublishLease, RemovePhysicalOperation, CompleteRefreshFlight,
       Goto, LateStates, TypeOK, RunTypes
<1>4. CASE \/ RunInvalidated(o) \/ MayNotCommit(o) \/ LeaderSettles(o) \/ PrepareLease(o) \/ LeaseExpires(o)
           \/ CheckLease(o)
    BY <1>4 DEF RunInvalidated, MayNotCommit, LeaderSettles, PrepareLease, LeaseExpires, CheckLease, Advance,
       Goto, LateStates, TypeOK, RunTypes
<1>5. CASE LeaderObserves(o) \/ LeaderInvalidated(o)
    BY <1>5 DEF LeaderObserves, LeaderInvalidated, LeaderGivesUp, Goto, LateStates, TypeOK, RunTypes
<1>6. ~(StartRun(o) \/ RejectContext(o) \/ Load(o) \/ CheckLoaded(o) \/ QuarantineDamaged(o)
        \/ AcquireRefreshFlight(o) \/ FollowerWakes(o) \/ Reload(o) \/ StartRefresh(o) \/ MayCommit(o)
        \/ Commit(o) \/ CommitConflicts(o) \/ CommitFails(o) \/ KeepCommit(o) \/ ReloadWinner(o)
        \/ ClearForceRefresh(o) \/ ReturnFromRefresh(o))
    BY <1>1 DEF StartRun, RejectContext, Load, CheckLoaded, QuarantineDamaged, AcquireRefreshFlight,
       FollowerWakes, Reload, StartRefresh, MayCommit, Commit, CommitConflicts, CommitFails, KeepCommit,
       ReloadWinner, ClearForceRefresh, ReturnFromRefresh, At, LateStates
<1>7. CASE Monitor(o) \/ Deliver(o) \/ Cancel(o) \/ CancelParent(o) \/ ExpireDeadline(o)
    BY <1>7 DEF Monitor, Deliver, RemoveOperation, EnqueueCredentialResult, Cancel, CancelOperation,
       CancelParent, ExpireDeadline, Signal, runVars
<1> QED BY <1>2, <1>3, <1>4, <1>5, <1>6, <1>7 DEF Run, Leader

(* One thread moves at a time, and only a Refresh that returns makes an operation late. *)
LEMMA OperationMoves ==
    ASSUME TypeOK, NEW o \in Ops,
           \/ Caller(o) \/ Run(o) \/ ReturnFromRefresh(o) \/ Monitor(o) \/ Deliver(o)
           \/ Cancel(o) \/ CancelParent(o) \/ ExpireDeadline(o)
    PROVE  /\ \A q \in Ops \ {o} : pc'[q] = pc[q] /\ envelope'[q] = envelope[q] /\ outcome'[q] = outcome[q]
           /\ late' = late \/ ReturnFromRefresh(o)
<1>1. CASE Caller(o)
    BY <1>1 DEF Caller, RejectResolve, TakeSnapshot, RejectSnapshot, Admit, Goto, TypeOK, RunTypes, historyVars
<1>2. CASE QuarantineDamaged(o) \/ CompleteRefreshFlight(o) \/ ClearForceRefresh(o) \/ Load(o) \/ Reload(o)
           \/ AcquireRefreshFlight(o) \/ RemovePhysicalOperation(o)
    BY <1>2 DEF QuarantineDamaged, CompleteRefreshFlight, ClearForceRefresh, Load,
       Reload, AcquireRefreshFlight, RemovePhysicalOperation, RunUnchanged, historyVars, Goto, TypeOK, RunTypes
<1>3. CASE \/ StartRun(o) \/ RejectContext(o) \/ RunInvalidated(o) \/ CheckLoaded(o) \/ FollowerWakes(o)
           \/ StartRefresh(o) \/ MayCommit(o) \/ MayNotCommit(o) \/ CommitConflicts(o) \/ KeepCommit(o)
           \/ ReloadWinner(o) \/ LeaderSettles(o) \/ PrepareLease(o) \/ LeaseExpires(o) \/ CheckLease(o)
    <2>1. \E s : Advance(o, s)
        BY <1>3 DEF StartRun, RejectContext, RunInvalidated, CheckLoaded, FollowerWakes, StartRefresh,
           MayCommit, MayNotCommit, CommitConflicts, KeepCommit, ReloadWinner, LeaderSettles,
           PrepareLease, LeaseExpires, CheckLease
    <2> QED BY <2>1 DEF Advance, Goto, RunUnchanged, historyVars, TypeOK, RunTypes
<1>4. CASE RunObserves(o) \/ PublishFailure(o) \/ PublishLease(o)
    BY <1>4 DEF RunObserves, PublishFailure, PublishLease, Goto, RunUnchanged, historyVars, TypeOK, RunTypes
<1>5. CASE LeaderObserves(o) \/ LeaderInvalidated(o) \/ CommitFails(o) \/ Commit(o) \/ ReturnFromRefresh(o)
    BY <1>5 DEF LeaderObserves, LeaderInvalidated, CommitFails, LeaderGivesUp, Commit,
       ReturnFromRefresh, Goto, historyVars, TypeOK, RunTypes
<1>6. CASE Monitor(o) \/ Deliver(o) \/ Cancel(o) \/ CancelParent(o) \/ ExpireDeadline(o)
    BY <1>6 DEF Monitor, Deliver, RemoveOperation, EnqueueCredentialResult, Cancel, CancelOperation,
       CancelParent, ExpireDeadline, Signal, RunUnchanged, runVars, historyVars
<1> QED BY <1>1, <1>2, <1>3, <1>4, <1>5, <1>6 DEF Run, Leader

LEMMA ReturnIsLate ==
    ASSUME TypeOK, SourceInv, ProgressInv, NEW o \in Ops, ReturnFromRefresh(o), o \in late' \ late
    PROVE  pc'[o] = "refreshed" /\ (Observed(o) \/ Revoked(o))' /\ late' = late \cup {o}
<1>1. ~MayGoOn(o) /\ late' = late \cup {o} /\ pc[o] = "refreshing"
    BY DEF ReturnFromRefresh, At
<1>2. Observed(o) \/ Revoked(o)
    BY <1>1, CurrentIsNotRevoked DEF MayGoOn
<1>3. UNCHANGED <<terminal, signal, snapshot, revoked>> /\ pc'[o] = "refreshed"
    BY DEF ReturnFromRefresh, LeaderUnchanged, publishVars, brokerVars, Goto, TypeOK, RunTypes
<1> QED BY <1>1, <1>2, <1>3 DEF Observed, Revoked

LEMMA OperationLate ==
    ASSUME TypeOK, SourceInv, ProgressInv, LateInv, NEW o \in Ops,
           \/ Caller(o) \/ Run(o) \/ ReturnFromRefresh(o) \/ Monitor(o) \/ Deliver(o)
           \/ Cancel(o) \/ CancelParent(o) \/ ExpireDeadline(o)
    PROVE  LateInv'
<1> SUFFICES ASSUME NEW q \in late' PROVE pc'[q] \in LateStates /\ (Observed(q) \/ Revoked(q))'
    BY DEF LateInv
<1>1. CASE q \in late
    <2>1. q \in Ops /\ pc[q] \in LateStates /\ (Observed(q) \/ Revoked(q))
        BY <1>1 DEF LateInv, TypeOK, HistoryTypes
    <2>2. LateStays(q)
        BY <2>1, OperationStays
    <2>3. (Observed(q) \/ Revoked(q))'
        BY <2>1, <2>2 DEF LateStays, Revoked
    <2>4. pc'[q] \in LateStates
        BY <2>1, LateStatesStay, OperationMoves
    <2> QED BY <2>3, <2>4
<1>2. CASE q \notin late
    <2>1. ReturnFromRefresh(o) /\ late' \subseteq late \cup {o}
        BY <1>2, OperationMoves DEF ReturnFromRefresh
    <2> QED BY <1>2, <2>1, ReturnIsLate DEF LateStates
<1> QED BY <1>1, <1>2

LEMMA AdministerLate == ASSUME TypeOK, LateInv, Administer PROVE LateInv'
<1>1. UNCHANGED <<pc, late>>
    BY AdministerLeavesRuns DEF CancelCollected, CancelOperation, runVars, historyVars
<1>2. \A q \in late : q \in Ops /\ LateStays(q)
    BY AdministerStays DEF TypeOK, HistoryTypes
<1> QED BY <1>1, <1>2 DEF LateInv, LateStays, Revoked

(* A refresh whose answer came after its resolve had ended, or after its binding had    *)
(* moved on, never reaches the secure store: what made it late cannot be undone, and    *)
(* the check before the commit looks for it.                                            *)
THEOREM LateRefreshes == Spec => LateRefreshNeverCommits
<1>1. Init => LateInv
    BY DEF Init, LateInv
<1>2. TypeOK /\ SourceInv /\ ProgressInv /\ LateInv /\ [Next]_vars => LateInv'
    <2> SUFFICES ASSUME TypeOK, SourceInv, ProgressInv, LateInv, [Next]_vars PROVE LateInv'
        OBVIOUS
    <2>1. CASE Next
        BY <2>1, OperationLate, AdministerLate DEF Next
    <2>2. CASE UNCHANGED vars
        BY <2>2 DEF vars, runVars, publishVars, brokerVars, historyVars, LateInv, Revoked, Observed
    <2> QED BY <2>1, <2>2
<1>3. LateInv => [\A o \in Ops : pc[o] = "store" /\ pc'[o] = "stored" => o \notin late]_vars
    BY DEF LateInv, LateStates
<1> QED BY <1>1, <1>2, <1>3, SpecLease, PTL DEF Spec, LateRefreshNeverCommits

-----------------------------------------------------------------------------
(* The commit. *)

(* Revisions identify a grant as long as no record is deleted and made again: a deletion *)
(* restarts them.  The broker is told of a deletion by a quarantine, which is how the    *)
(* account providers keep a refresh from meeting another life of its record.             *)
NoSecondLife == ~({"delete", "login"} \subseteq AdminCalls)

RecordInv ==
    \A a \in Accounts : /\ store[a].kind = "valid" => store[a].rev # 0
                        /\ store[a].rev = 0 => "login" \notin AdminCalls

(* The record an operation loaded is an earlier one of its account, or the present one. *)
IsEarlier(o) ==
    /\ envelope[o].rev # 0
    /\ store[Account(o)].rev = 0 \/ envelope[o].rev <= store[Account(o)].rev

Holds(o) ==
    /\ pc[o] \in {"loaded", "acquire", "lead", "refreshing"} /\ envelope[o].kind = "valid" =>
          /\ IsEarlier(o)
          /\ store[Account(o)].rev = envelope[o].rev => store[Account(o)].gen = envelope[o].gen
    /\ pc[o] \in {"acquire", "lead", "refreshing"} => envelope[o].kind = "valid"
    /\ (pc[o] = "refreshed" /\ outcome[o] = "ok") \/ pc[o] = "store" =>
          /\ IsEarlier(o)
          /\ store[Account(o)].rev = envelope[o].rev => store[Account(o)].gen < envelope[o].gen

GrantInv == RecordInv /\ \A o \in Ops : Holds(o)

(* What a step does to a record: nothing that counts, a deletion, or the next revision. *)
Grows(a) ==
    \/ store'[a].rev = store[a].rev /\ store'[a].gen = store[a].gen
    \/ store'[a].rev = 0
    \/ store[a].rev # 0 /\ store[a].rev < store'[a].rev

LEMMA StoreTypes ==
    ASSUME TypeOK
    PROVE  /\ \A a \in Accounts : store[a].rev \in Nat /\ store[a].gen \in Nat
           /\ \A o \in Ops : envelope[o].rev \in Nat /\ envelope[o].gen \in Nat
BY DEF TypeOK, OutsideTypes, RunTypes, Records

LEMMA InitGrant == Init => GrantInv
<1> SUFFICES ASSUME Init PROVE GrantInv
    OBVIOUS
<1>1. \A a \in Accounts : store[a].rev = 1
    BY DEF Init
<1>2. \A o \in Ops : pc[o] = "idle"
    BY DEF Init
<1> QED BY <1>1, <1>2 DEF GrantInv, RecordInv, Holds

LEMMA OthersKeepGrant ==
    ASSUME TypeOK, TypeOK', NEW q \in Ops, Holds(q), Grows(Account(q)),
           pc'[q] = pc[q], envelope'[q] = envelope[q], outcome'[q] = outcome[q]
    PROVE  Holds(q)'
<1> DEFINE a == Account(q)
<1>1. /\ a \in Accounts /\ store[a].rev \in Nat /\ store[a].gen \in Nat /\ envelope[q].rev \in Nat
      /\ store'[a].rev \in Nat /\ store'[a].gen \in Nat
    BY AccountType, StoreTypes DEF TypeOK, OutsideTypes, Records
<1>2. IsEarlier(q) => IsEarlier(q)' /\
          (store'[a].rev = envelope[q].rev => store'[a].rev = store[a].rev /\ store'[a].gen = store[a].gen)
    BY <1>1 DEF IsEarlier, Grows, Account
<1> QED BY <1>2 DEF Holds, Account

LEMMA LeavesKeepGrant ==
    ASSUME TypeOK, NEW o \in Ops, NEW s, Goto(o, s),
           s \notin {"loaded", "acquire", "lead", "refreshing", "refreshed", "store"}
    PROVE  Holds(o)'
BY DEF Holds, Goto, TypeOK, RunTypes

LEMMA SameStoreGrows == ASSUME UNCHANGED store, NEW a PROVE Grows(a)
BY DEF Grows

LEMMA LoadGrant == ASSUME TypeOK, GrantInv, NEW o \in Ops, Load(o) PROVE Holds(o)'
<1>1. pc'[o] = "loaded" /\ UNCHANGED store
    BY DEF Load, Goto, RunUnchanged, outsideVars, TypeOK, RunTypes
<1>2. envelope'[o] = store[Account(o)] \/ envelope'[o].kind = "unavailable"
    <2>1. PICK r \in Loadable(o) : envelope' = [envelope EXCEPT ![o] = r]
        BY DEF Load
    <2>2. r = store[Account(o)] \/ r = [NoRecord EXCEPT !.kind = "unavailable"]
        BY DEF Loadable
    <2>3. envelope'[o] = r
        BY <2>1 DEF TypeOK, RunTypes
    <2> QED BY <2>2, <2>3 DEF NoRecord
<1>3. store[Account(o)].kind = "valid" => store[Account(o)].rev # 0
    BY AccountType DEF GrantInv, RecordInv
<1>4. store[Account(o)].rev \in Nat
    BY AccountType, StoreTypes
<1> QED BY <1>1, <1>2, <1>3, <1>4 DEF Holds, IsEarlier, Account

(* The refresh: the provider accepts the generation of the record and answers the next. *)
LEMMA ReturnGrant == ASSUME TypeOK, GrantInv, NEW o \in Ops, ReturnFromRefresh(o) PROVE Holds(o)'
<1> DEFINE a == Account(o)
<1>1. /\ pc[o] = "refreshing" /\ pc'[o] = "refreshed" /\ UNCHANGED store
      /\ a \in Accounts /\ provider[a] \in Nat /\ store[a].gen \in Nat
    BY AccountType, StoreTypes DEF ReturnFromRefresh, At, Goto, TypeOK, RunTypes, OutsideTypes
<1>2. /\ IsEarlier(o)
      /\ store[a].rev = envelope[o].rev => store[a].gen = envelope[o].gen
    BY <1>1 DEF GrantInv, Holds
<1>3. CASE outcome'[o] = "ok"
    <2>1. /\ envelope[o].gen = provider[a]
          /\ envelope' = [envelope EXCEPT ![o].gen = provider[a] + 1, ![o].expiring = FALSE]
        BY <1>3 DEF ReturnFromRefresh, TypeOK, RunTypes
    <2>2. envelope'[o].rev = envelope[o].rev /\ envelope'[o].gen = envelope[o].gen + 1
        BY <2>1 DEF TypeOK, RunTypes, Records
    <2> QED BY <1>1, <1>2, <2>1, <2>2 DEF Holds, IsEarlier, Account
<1>4. CASE outcome'[o] # "ok"
    BY <1>1, <1>4 DEF Holds
<1> QED BY <1>3, <1>4

LEMMA TowardsStoreGrant ==
    ASSUME TypeOK, GrantInv, NEW o \in Ops,
           CheckLoaded(o) \/ AcquireRefreshFlight(o) \/ StartRefresh(o) \/ MayCommit(o)
    PROVE  Holds(o)'
<1>1. Holds(o) /\ UNCHANGED <<store, envelope, outcome>>
    BY DEF GrantInv, CheckLoaded, AcquireRefreshFlight, StartRefresh, MayCommit, Advance, RunUnchanged, outsideVars
<1>2. CASE CheckLoaded(o)
    <2>1. pc[o] = "loaded" /\ \/ pc'[o] \in {"quarantine", "fail", "lease"}
                              \/ pc'[o] = "acquire" /\ envelope[o].kind = "valid"
        BY <1>2 DEF CheckLoaded, At, Advance, Goto, TypeOK, RunTypes
    <2> QED BY <1>1, <2>1 DEF Holds, IsEarlier
<1>3. CASE AcquireRefreshFlight(o)
    <2>1. pc[o] = "acquire" /\ pc'[o] \in {"lead", "wait"}
        BY <1>3 DEF AcquireRefreshFlight, At, Goto, TypeOK, RunTypes
    <2> QED BY <1>1, <2>1 DEF Holds, IsEarlier
<1>4. CASE StartRefresh(o)
    <2>1. pc[o] = "lead" /\ pc'[o] = "refreshing"
        BY <1>4 DEF StartRefresh, At, Advance, Goto, TypeOK, RunTypes
    <2> QED BY <1>1, <2>1 DEF Holds, IsEarlier
<1>5. CASE MayCommit(o)
    <2>1. pc[o] = "refreshed" /\ outcome[o] = "ok" /\ pc'[o] = "store"
        BY <1>5 DEF MayCommit, At, Advance, Goto, TypeOK, RunTypes
    <2> QED BY <1>1, <2>1 DEF Holds, IsEarlier
<1> QED BY <1>2, <1>3, <1>4, <1>5

LEMMA CommitGrant ==
    ASSUME TypeOK, GrantInv, NEW o \in Ops, Commit(o)
    PROVE  /\ \A a \in Accounts : Grows(a)
           /\ store[Account(o)].gen < store'[Account(o)].gen
           /\ RecordInv'
<1> DEFINE a == Account(o)
<1>1. /\ a \in Accounts /\ pc[o] = "store" /\ store[a].rev = envelope[o].rev
      /\ store' = [store EXCEPT ![a] = [envelope[o] EXCEPT !.rev = store[a].rev + 1]]
    BY AccountType DEF Commit, At
<1>2. envelope[o].rev # 0 /\ store[a].gen < envelope[o].gen
    BY <1>1 DEF GrantInv, Holds, IsEarlier
<1>3. store'[a].rev = store[a].rev + 1 /\ store'[a].gen = envelope[o].gen
    BY <1>1 DEF TypeOK, OutsideTypes, RunTypes, Records
<1>4. \A b \in Accounts \ {a} : store'[b] = store[b]
    BY <1>1 DEF TypeOK, OutsideTypes
<1>5. store[a].rev \in Nat
    BY <1>1, StoreTypes
<1>6. \A b \in Accounts : Grows(b)
    BY <1>1, <1>2, <1>3, <1>4, <1>5 DEF Grows
<1>7. RecordInv'
    BY <1>1, <1>3, <1>4, <1>5 DEF GrantInv, RecordInv
<1> QED BY <1>2, <1>3, <1>6, <1>7

LEMMA OperationGrant ==
    ASSUME TypeOK, TypeOK', GrantInv, NEW o \in Ops,
           \/ Caller(o) \/ Run(o) \/ ReturnFromRefresh(o) \/ Monitor(o) \/ Deliver(o)
           \/ Cancel(o) \/ CancelParent(o) \/ ExpireDeadline(o)
    PROVE  GrantInv'
<1>1. Commit(o) \/ UNCHANGED store
    BY DEF Caller, RejectResolve, TakeSnapshot, RejectSnapshot, Admit, Run, Leader, StartRun, RejectContext,
       RunObserves, RunInvalidated, PublishFailure, Load, CheckLoaded, QuarantineDamaged,
       AcquireRefreshFlight, FollowerWakes, Reload, LeaderObserves, LeaderInvalidated, StartRefresh,
       MayCommit, MayNotCommit, CommitConflicts, CommitFails, KeepCommit, ReloadWinner, ClearForceRefresh,
       CompleteRefreshFlight, LeaderSettles, PrepareLease, LeaseExpires, CheckLease, PublishLease,
       RemovePhysicalOperation, ReturnFromRefresh, Monitor, Deliver, RemoveOperation,
       EnqueueCredentialResult, Cancel, CancelOperation, CancelParent, ExpireDeadline, Signal, Advance,
       LeaderGivesUp, RunUnchanged, outsideVars
<1>2. (\A a \in Accounts : Grows(a)) /\ RecordInv'
    BY <1>1, CommitGrant, SameStoreGrows DEF GrantInv, RecordInv
<1>3. \A q \in Ops \ {o} : Holds(q)'
    BY <1>2, OperationMoves, OthersKeepGrant, AccountType DEF GrantInv
<1>4. Holds(o)'
    <2>1. CASE Caller(o)
        BY <2>1, LeavesKeepGrant DEF Caller, RejectResolve, TakeSnapshot, RejectSnapshot, Admit
    <2>2. CASE QuarantineDamaged(o) \/ CompleteRefreshFlight(o) \/ ClearForceRefresh(o) \/ Reload(o)
               \/ RemovePhysicalOperation(o) \/ Commit(o)
        BY <2>2, LeavesKeepGrant DEF QuarantineDamaged, CompleteRefreshFlight, ClearForceRefresh,
           Reload, RemovePhysicalOperation, Commit
    <2>3. CASE \/ StartRun(o) \/ RejectContext(o) \/ RunInvalidated(o) \/ FollowerWakes(o)
               \/ MayNotCommit(o) \/ CommitConflicts(o) \/ KeepCommit(o) \/ ReloadWinner(o)
               \/ LeaderSettles(o) \/ PrepareLease(o) \/ LeaseExpires(o) \/ CheckLease(o)
        BY <2>3, LeavesKeepGrant DEF StartRun, RejectContext, RunInvalidated, FollowerWakes, MayNotCommit,
           CommitConflicts, KeepCommit, ReloadWinner, LeaderSettles, PrepareLease, LeaseExpires, CheckLease,
           Advance
    <2>4. CASE RunObserves(o) \/ PublishFailure(o) \/ PublishLease(o) \/ LeaderObserves(o)
               \/ LeaderInvalidated(o) \/ CommitFails(o)
        BY <2>4, LeavesKeepGrant DEF RunObserves, PublishFailure, PublishLease, LeaderObserves,
           LeaderInvalidated, CommitFails, LeaderGivesUp
    <2>5. CASE Load(o) \/ ReturnFromRefresh(o) \/ CheckLoaded(o) \/ AcquireRefreshFlight(o)
               \/ StartRefresh(o) \/ MayCommit(o)
        BY <2>5, LoadGrant, ReturnGrant, TowardsStoreGrant
    <2>6. CASE Monitor(o) \/ Deliver(o) \/ Cancel(o) \/ CancelParent(o) \/ ExpireDeadline(o)
        <3>1. UNCHANGED runVars
            BY <2>6 DEF Monitor, Deliver, RemoveOperation, EnqueueCredentialResult, Cancel, CancelOperation,
               CancelParent, ExpireDeadline, Signal
        <3> QED BY <1>2, <3>1, OthersKeepGrant, AccountType DEF GrantInv, runVars
    <2> QED BY <2>1, <2>2, <2>3, <2>4, <2>5, <2>6 DEF Run, Leader
<1> QED BY <1>2, <1>3, <1>4 DEF GrantInv

(* Of the outside writers the login stores the next revision, never over a deleted record. *)
LEMMA AdministerGrant ==
    ASSUME NoSecondLife, TypeOK, TypeOK', GrantInv, Administer PROVE GrantInv'
<1>1. (\A a \in Accounts : Grows(a)) /\ RecordInv'
    <2>1. CASE \E a \in Accounts : StoreNewGrant(a)
        <3>1. PICK a \in Accounts : StoreNewGrant(a)
            BY <2>1
        <3>2. /\ store'[a].rev = store[a].rev + 1 /\ store[a].rev # 0
              /\ \A b \in Accounts \ {a} : store'[b] = store[b]
            BY <3>1 DEF StoreNewGrant, GrantInv, RecordInv, TypeOK, OutsideTypes
        <3>3. store[a].rev \in Nat
            BY StoreTypes
        <3> QED BY <3>2, <3>3 DEF Grows, GrantInv, RecordInv
    <2>2. CASE \E a \in Accounts : DamageRecord(a)
        <3>1. PICK a \in Accounts : DamageRecord(a)
            BY <2>2
        <3>2. \A b \in Accounts \ {a} : store'[b] = store[b]
            BY <3>1 DEF DamageRecord, TypeOK, OutsideTypes
        <3>3. CASE store' = [store EXCEPT ![a].kind = "corrupt"]
            <4>1. store'[a].rev = store[a].rev /\ store'[a].gen = store[a].gen /\ store'[a].kind = "corrupt"
                BY <3>3 DEF TypeOK, OutsideTypes, Records
            <4> QED BY <3>2, <4>1 DEF Grows, GrantInv, RecordInv
        <3>4. CASE "delete" \in AdminCalls /\ store' = [store EXCEPT ![a] = NoRecord]
            <4>1. store'[a] = NoRecord /\ "login" \notin AdminCalls
                BY <3>4 DEF TypeOK, OutsideTypes, NoSecondLife
            <4>2. NoRecord.rev = 0 /\ NoRecord.kind = "absent"
                BY DEF NoRecord
            <4> QED BY <3>2, <4>1, <4>2 DEF Grows, GrantInv, RecordInv
        <3> QED BY <3>1, <3>3, <3>4 DEF DamageRecord
    <2>3. CASE \E a \in Accounts : NearExpiry(a)
        <3>1. PICK a \in Accounts : NearExpiry(a)
            BY <2>3
        <3>2. /\ store'[a].rev = store[a].rev /\ store'[a].gen = store[a].gen /\ store'[a].kind = store[a].kind
              /\ \A b \in Accounts \ {a} : store'[b] = store[b]
            BY <3>1 DEF NearExpiry, TypeOK, OutsideTypes, Records
        <3> QED BY <3>2 DEF Grows, GrantInv, RecordInv
    <2>4. CASE UNCHANGED store
        BY <2>4, SameStoreGrows DEF GrantInv, RecordInv
    <2>5. \/ \E a \in Accounts : StoreNewGrant(a) \/ DamageRecord(a) \/ NearExpiry(a)
          \/ UNCHANGED store
        BY DEF Administer, RegisterBinding, InvalidateAccount, InvalidateAccounts,
           QuarantineAccountForReauthentication, ForceRefreshAccount, VerifyReplacement,
           PublishReplacement, InvalidateAuthProfile, InvalidateConnection, BeginShutdown, FailFlight,
           CancelCollected, CancelOperation, AdminUnchanged, outsideVars
    <2> QED BY <2>1, <2>2, <2>3, <2>4, <2>5
<1>2. UNCHANGED runVars
    BY AdministerLeavesRuns DEF CancelCollected, CancelOperation
<1> QED BY <1>1, <1>2, OthersKeepGrant, AccountType DEF GrantInv, runVars

LEMMA OnlyCommitStores ==
    ASSUME TypeOK, NEW o \in Ops, pc[o] = "store", pc'[o] = "stored", Next PROVE Commit(o)
<1>1. ~Administer
    BY AdministerLeavesRuns DEF CancelCollected, CancelOperation, runVars
<1>2. PICK q \in Ops : \/ Caller(q) \/ Run(q) \/ ReturnFromRefresh(q) \/ Monitor(q) \/ Deliver(q)
                       \/ Cancel(q) \/ CancelParent(q) \/ ExpireDeadline(q)
    BY <1>1 DEF Next
<1>3. q = o
    BY <1>2, OperationMoves
<1>4. ~(Caller(o) \/ Monitor(o) \/ Deliver(o) \/ Cancel(o) \/ CancelParent(o) \/ ExpireDeadline(o))
    BY DEF Caller, RejectResolve, TakeSnapshot, RejectSnapshot, Admit, Monitor, Deliver, RemoveOperation,
       EnqueueCredentialResult, Cancel, CancelOperation, CancelParent, ExpireDeadline, Signal, runVars
<1>5. ~(CommitConflicts(o) \/ CommitFails(o))
    BY DEF CommitConflicts, CommitFails, LeaderGivesUp, Advance, Goto, TypeOK, RunTypes
<1>6. ~(StartRun(o) \/ RejectContext(o) \/ RunObserves(o) \/ RunInvalidated(o) \/ PublishFailure(o)
        \/ Load(o) \/ CheckLoaded(o) \/ QuarantineDamaged(o) \/ AcquireRefreshFlight(o)
        \/ FollowerWakes(o) \/ Reload(o) \/ LeaderObserves(o) \/ LeaderInvalidated(o)
        \/ StartRefresh(o) \/ MayCommit(o) \/ MayNotCommit(o) \/ KeepCommit(o) \/ ReloadWinner(o)
        \/ ClearForceRefresh(o) \/ CompleteRefreshFlight(o) \/ LeaderSettles(o) \/ PrepareLease(o)
        \/ LeaseExpires(o) \/ CheckLease(o) \/ PublishLease(o) \/ RemovePhysicalOperation(o)
        \/ ReturnFromRefresh(o))
    BY DEF StartRun, RejectContext, RunObserves, RunInvalidated, PublishFailure, Load, CheckLoaded,
       QuarantineDamaged, AcquireRefreshFlight, FollowerWakes, Reload, LeaderObserves, LeaderInvalidated,
       StartRefresh, MayCommit, MayNotCommit, KeepCommit, ReloadWinner, ClearForceRefresh,
       CompleteRefreshFlight, LeaderSettles, PrepareLease, LeaseExpires, CheckLease, PublishLease,
       RemovePhysicalOperation, ReturnFromRefresh, AtLeaderCheck, At
<1> QED BY <1>2, <1>3, <1>4, <1>5, <1>6 DEF Run, Leader

(* The commit replaces exactly the grant that was refreshed: a credential that a login   *)
(* stored meanwhile has another revision, and the record at the loaded revision is of    *)
(* the loaded generation.                                                                *)
THEOREM CommitsReplaceTheirGrant ==
    ASSUME NoSecondLife PROVE Spec => CommitNeverOverwritesNewerGrant
<1>1. TypeOK /\ TypeOK' /\ GrantInv /\ [Next]_vars => GrantInv'
    <2> SUFFICES ASSUME TypeOK, TypeOK', GrantInv, [Next]_vars PROVE GrantInv'
        OBVIOUS
    <2>1. CASE Next
        BY <2>1, OperationGrant, AdministerGrant DEF Next
    <2>2. CASE UNCHANGED vars
        BY <2>2 DEF vars, runVars, outsideVars, GrantInv, RecordInv, Holds, IsEarlier
    <2> QED BY <2>1, <2>2
<1>2. TypeOK /\ GrantInv /\ [Next]_vars =>
          [\A o \in Ops : pc[o] = "store" /\ pc'[o] = "stored" =>
              store[Account(o)].gen < store'[Account(o)].gen]_vars
    BY OnlyCommitStores, CommitGrant
<1> QED BY <1>1, <1>2, InitGrant, TypeCorrect, PTL DEF Spec, CommitNeverOverwritesNewerGrant

=============================================================================
