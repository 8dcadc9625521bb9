------------------ MODULE DeviceOAuthAccountProviderProofs ------------------
(***************************************************************************)
(* For every set of operations and every combination of outside events:    *)
(* what the provider tells of the account is true of the store, no grant   *)
(* nobody was told of is in use, and a sink hears its events in order.     *)
(*                                                                         *)
(* None of the three is inductive.  IInv says what each place of a run     *)
(* thread promises: whether the operation's grant is in the store there,   *)
(* which thread may have published which terminal, and which quarantines   *)
(* stand.  A step of a run thread that only moves on is Quiet and keeps    *)
(* all of it by one lemma; the others are taken one by one.                *)
(***************************************************************************)
EXTENDS DeviceOAuthAccountProvider, SequenceTheorems, TLAPS

Places == CallerStates \cup RunStates \cup {"done"}

\* A run thread exists from admission to its end.
Running == RunStates \cup {"admitted"}

\* Where the operation's grant has not been written, where it is in the store,
\* and where a sign-in that did not succeed has done all it does to it.
Unwritten == CallerStates \cup SignOutStates \cup
    {"start", "authorize", "instructed", "authorized", "loaded", "loadFailed", "store"}
Written == {"stored", "verify", "lift", "rejected", "claim"}
Ended == {"fail", "failed", "exit"}

\* One run thread at a time, that of the newest operation, and none beside a recovery.
ThreadsFit ==
    /\ \A o \in Ops : o \in physical <=> pc[o] \in Running
    /\ \A o \in physical : o = newest
    /\ newest # NoOp => pc[newest] \in Running \cup {"done"}
    /\ \A o \in Ops : /\ pc[o] \in SignInStates \cup {"evaluated", "refused"} => kind[o] = "SignIn"
                      /\ pc[o] \in SignOutStates \cup {"admitted"} => kind[o] = "SignOut"
    /\ RecoveryInFlight => physical = {}

\* A terminal is published by one thread; only a run thread says Succeeded, last of all.
GuardFits(o) ==
    /\ stage[o] # "none" <=> publisher[o] # "none"
    /\ stage[o] # "none" => terminal[o] # "none"
    /\ publisher[o] = "run" => pc[o] \in {"exit", "cleanUp"}
    /\ stage[o] # "none" /\ terminal[o] = "Succeeded" => publisher[o] = "run"
    /\ terminal[o] = "Succeeded" /\ kind[o] = "SignIn" => pc[o] \in {"exit", "done"}
    /\ terminal[o] # "none" => pc[o] \in RunStates \cup {"done"}

\* What waits for the sink follows what it has heard.
EventsFit(o) ==
    /\ pending[o] \in {<<>>, <<"Interaction">>, <<"Terminal">>, <<"Interaction", "Terminal">>}
    /\ delivered[o] # "none" => pending[o] \in {<<>>, <<"Terminal">>}
    /\ delivered[o] = "Terminal" => pending[o] = <<>>
    /\ delivered[o] = "Terminal" \/ pending[o] \in {<<"Terminal">>, <<"Interaction", "Terminal">>}
       => terminal[o] # "none" /\ stage[o] = "none"
    /\ delivered[o] = "Interaction" \/ pending[o] \in {<<"Interaction">>, <<"Interaction", "Terminal">>}
       => pc[o] \notin CallerStates \cup {"start", "authorize"}
    /\ drainer[o] = "none" <=> pending[o] = <<>>

\* What the broker has still to replace is the record, or an older one; or the
\* provider is shut down, the record gone, and nobody left to store another.
RecordsFit ==
    /\ store # NoRecord => store.rev > 0 /\ store.grant # "none"
    /\ brokerCommit # NoRecord =>
          /\ connected /\ ~brokerQuarantined
          /\ brokerCommit.rev > 0
          /\ brokerCommit.rev <= store.rev \/ store = NoRecord
          /\ brokerCommit.rev = store.rev => brokerCommit.grant = store.grant
          /\ store = NoRecord => shutdown /\ \A o \in physical : pc[o] \in Ended

BrokerFenced ==
    /\ SignOutKeepsBrokerFenced
    /\ \A o \in Ops : pc[o] \in {"reread", "discard"} /\ connected /\ ~shutdown => brokerQuarantined

GrantsFit ==
    /\ \A o \in Ops : /\ pc[o] \in Unwritten => store.grant # o
                      /\ pc[o] \in Written => store.grant = o
    /\ newest # NoOp /\ kind[newest] = "SignIn" =>
          /\ terminal[newest] = "Succeeded" => store.grant = newest
          /\ /\ pc[newest] \in Ended \cup {"done"} /\ ~shutdown /\ store.grant = newest
             /\ terminal[newest] # "Succeeded"
             => localQuarantine /\ (connected => brokerQuarantined)

\* What is reported of the record, or about to be, is true of it, and no thread
\* that runs can still make it false.
StatusFits ==
    /\ status = "Ready" =>
          /\ store.grant \notin {"none", "damaged"}
          /\ \A o \in physical : kind[o] = "SignIn" /\ terminal[o] = "Succeeded"
    /\ confirmedSignedOut =>
          /\ store = NoRecord
          /\ \A o \in physical : pc[o] \in {"publish", "exit"}
    /\ \A o \in Ops : pc[o] = "finish" => store = NoRecord
    /\ recovery = "apply" /\ recovered = "SignedOut" => store = NoRecord
    /\ recovery = "apply" /\ recovered = "Ready" => store.grant \notin {"none", "damaged"}

IInv ==
    /\ TypeOK /\ ThreadsFit /\ (\A o \in Ops : GuardFits(o) /\ EventsFit(o))
    /\ RecordsFit /\ BrokerFenced /\ GrantsFit /\ StatusFits

-----------------------------------------------------------------------------
(* Types *)

LEMMA AccountTypesFrame == AccountTypes /\ UNCHANGED <<accountVars, tableVars>> => AccountTypes'
BY DEF AccountTypes, accountVars, tableVars

LEMMA OutsideTypesFrame ==
    OutsideTypes /\ UNCHANGED <<brokerVars, store, recoveryVars, shutdownVars>> => OutsideTypes'
BY DEF OutsideTypes, brokerVars, recoveryVars, shutdownVars

LEMMA OperationTypesFrame ==
    OperationTypes /\ UNCHANGED <<requestVars, runVars, signal>> => OperationTypes'
BY DEF OperationTypes, requestVars, runVars

LEMMA EventTypesFrame == EventTypes /\ UNCHANGED <<guardVars, eventVars>> => EventTypes'
BY DEF EventTypes, guardVars, eventVars

LEMMA PublishTypes ==
    ASSUME EventTypes, NEW o \in Ops, NEW thread \in {"run", "other"}, NEW k \in Terminals,
           Publish(o, thread, k), UNCHANGED eventVars
    PROVE  EventTypes'
<1>1. CASE terminal[o] = "none"
    <2>1. /\ terminal \in [Ops -> Terminals] /\ publisher \in [Ops -> {"none", "run", "other"}]
          /\ stage \in [Ops -> {"none", "won", "settled"}]
        BY DEF EventTypes
    <2>2. /\ terminal' = [terminal EXCEPT ![o] = k] /\ publisher' = [publisher EXCEPT ![o] = thread]
          /\ stage' = [stage EXCEPT ![o] = "won"]
        BY <1>1 DEF Publish
    <2>3. terminal' \in [Ops -> Terminals]
        BY <2>1, <2>2
    <2>4. publisher' \in [Ops -> {"none", "run", "other"}]
        BY <2>1, <2>2
    <2>5. stage' \in [Ops -> {"none", "won", "settled"}]
        BY <2>1, <2>2
    <2> QED BY <2>3, <2>4, <2>5 DEF EventTypes, eventVars
<1>2. CASE terminal[o] # "none"
    BY <1>2, EventTypesFrame DEF Publish
<1> QED BY <1>1, <1>2

LEMMA PublishObservedTypes ==
    ASSUME EventTypes, NEW o \in Ops, NEW thread \in {"run", "other"},
           PublishObserved(o, thread), UNCHANGED eventVars
    PROVE  EventTypes'
<1>1. SignalKind(o) \in Terminals
    BY DEF SignalKind, Terminals
<1> QED BY <1>1, PublishTypes, EventTypesFrame DEF PublishObserved

\* A step of a thread that goes on to another place.
LEMMA GotoTypes ==
    ASSUME OperationTypes, NEW o \in Ops, NEW to \in Places, Goto(o, to),
           UNCHANGED <<requestVars, signal>>,
           UNCHANGED revision \/ \E n \in Nat : revision' = [revision EXCEPT ![o] = n],
           \/ UNCHANGED afterCleanUp
           \/ \E s \in {"exit", "fail", "failed"} : afterCleanUp' = [afterCleanUp EXCEPT ![o] = s]
    PROVE  OperationTypes'
BY DEF OperationTypes, Goto, requestVars, Places

-----------------------------------------------------------------------------
(* The parts that any step of a run thread keeps *)

\* A run thread goes on: in its own kind of operation, and forward.
Leads(o, to) ==
    /\ pc[o] \in Running \ {"exit"} /\ publisher[o] # "run"
    /\ to \in RunStates \ {"start"}
    /\ pc[o] \in SignInStates => to \in SignInStates \cup {"exit"}
    /\ pc[o] \notin SignInStates => to \in SignOutStates \cup {"exit"}
    /\ to = "authorize" => pc[o] = "start"
    /\ Goto(o, to)

\* Where the operation stands while its thread runs.
LEMMA Alone ==
    ASSUME TypeOK, ThreadsFit, NEW o \in Ops, pc[o] \in Running
    PROVE  /\ newest = o /\ newest # NoOp /\ physical = {o} /\ ~RecoveryInFlight
           /\ \A x \in Ops \ {o} : pc[x] \notin Running
BY OpsAssumption DEF ThreadsFit, TypeOK, AccountTypes

LEMMA ThreadsKept ==
    ASSUME TypeOK, ThreadsFit, NEW o \in Ops, NEW to, Leads(o, to),
           UNCHANGED <<physical, newest, kind, recovery>>
    PROVE  ThreadsFit'
<1>1. pc' = [pc EXCEPT ![o] = to] /\ to \in Running /\ pc[o] \in Running
    BY DEF Leads, Goto, Running
<1>2. \A x \in Ops : pc'[x] = IF x = o THEN to ELSE pc[x]
    BY <1>1 DEF TypeOK, OperationTypes
<1>3. to \in SignInStates => pc[o] \in SignInStates
    BY DEF Leads, SignInStates, SignOutStates
<1>4. to \in SignOutStates => pc[o] \in SignOutStates \cup {"admitted"}
    BY DEF Leads, SignInStates, SignOutStates, Running, RunStates
<1>5. to \notin {"evaluated", "refused", "admitted"}
    BY DEF Leads, RunStates, SignInStates, SignOutStates
<1> QED
    BY <1>1, <1>2, <1>3, <1>4, <1>5 DEF ThreadsFit, RecoveryInFlight

LEMMA GuardsKept ==
    ASSUME TypeOK, NEW o \in Ops, NEW to, Leads(o, to), UNCHANGED kind,
           \A x \in Ops : GuardFits(x),
           \/ UNCHANGED guardVars
           \/ \E k \in Terminals \ {"none"} :
                 /\ Publish(o, "run", k) /\ to \in {"exit", "cleanUp"}
                 /\ k = "Succeeded" => to = "exit"
    PROVE  \A x \in Ops : GuardFits(x)'
<1>1. \A x \in Ops : pc'[x] = IF x = o THEN to ELSE pc[x]
    BY DEF Leads, Goto, TypeOK, OperationTypes
<1>2. to \in RunStates /\ publisher[o] # "run"
    BY DEF Leads
<1>3. terminal[o] = "Succeeded" /\ kind[o] = "SignIn" => FALSE
    BY DEF Leads, GuardFits, Running, RunStates, SignInStates, SignOutStates
<1>4. CASE UNCHANGED guardVars
    BY <1>1, <1>2, <1>3, <1>4 DEF GuardFits, guardVars
<1>5. ASSUME NEW k \in Terminals \ {"none"}, Publish(o, "run", k), to \in {"exit", "cleanUp"},
             k = "Succeeded" => to = "exit", terminal[o] = "none"
      PROVE  \A x \in Ops : GuardFits(x)'
    <2>1. \A x \in Ops : /\ terminal'[x] = IF x = o THEN k ELSE terminal[x]
                         /\ publisher'[x] = IF x = o THEN "run" ELSE publisher[x]
                         /\ stage'[x] = IF x = o THEN "won" ELSE stage[x]
        BY <1>5 DEF Publish, TypeOK, EventTypes
    <2> QED BY <1>1, <1>2, <1>5, <2>1 DEF GuardFits
<1> QED BY <1>4, <1>5 DEF Publish

LEMMA EventsKept ==
    ASSUME TypeOK, NEW o \in Ops, NEW to, Leads(o, to), UNCHANGED eventVars,
           \A x \in Ops : EventsFit(x),
           UNCHANGED guardVars \/ \E k \in Terminals \ {"none"} : Publish(o, "run", k)
    PROVE  \A x \in Ops : EventsFit(x)'
<1>1. \A x \in Ops : pc'[x] = IF x = o THEN to ELSE pc[x]
    BY DEF Leads, Goto, TypeOK, OperationTypes
<1>2. to \in CallerStates \cup {"start", "authorize"}
      => pc[o] \in CallerStates \cup {"start", "authorize"}
    BY DEF Leads, RunStates, SignInStates, SignOutStates, CallerStates
<1>3. \A x \in Ops : \/ terminal[x] = "none"
                     \/ terminal'[x] = terminal[x] /\ stage'[x] = stage[x]
    BY DEF Publish, guardVars, TypeOK, EventTypes
<1> QED
    BY <1>1, <1>2, <1>3 DEF EventsFit, eventVars

-----------------------------------------------------------------------------
(* A step of a run thread that changes neither the record nor what is told of it *)

\* What such a step may do to its terminal.
Ends(o, to) ==
    \/ UNCHANGED guardVars
    \/ \E k \in Terminals \ {"none"} :
          /\ Publish(o, "run", k) /\ to \in {"exit", "cleanUp"}
          /\ k = "Succeeded" => to = "exit" /\ kind[o] = "SignOut"

\* It reaches no place whose promise about the record does not hold already.
Quiet(o, to) ==
    /\ Leads(o, to) /\ Ends(o, to)
    /\ UNCHANGED <<accountVars, tableVars, brokerVars, store, recoveryVars, shutdownVars, requestVars,
                   signal, eventVars>>
    /\ UNCHANGED revision \/ \E n \in Nat : revision' = [revision EXCEPT ![o] = n]
    /\ \/ UNCHANGED afterCleanUp
       \/ \E s \in {"exit", "fail", "failed"} : afterCleanUp' = [afterCleanUp EXCEPT ![o] = s]
    /\ pc[o] \in Ended \cup {"publish"} => to \in Ended
    /\ pc[o] # "admitted" /\ to # "reread"
    /\ to = "discard" => pc[o] = "reread"
    /\ to \in Unwritten => pc[o] \in Unwritten
    /\ to \in Written => pc[o] \in Written
    /\ to \in Ended => store.grant # o \/ pc[o] \in Ended \/ kind[o] = "SignOut"
    /\ to = "finish" => store = NoRecord

LEMMA QuietKeeps ==
    ASSUME IInv, NEW o \in Ops, NEW to, Quiet(o, to)
    PROVE  IInv'
<1> USE DEF IInv
<1>1. Leads(o, to) /\ Ends(o, to) /\ UNCHANGED <<accountVars, tableVars, brokerVars, store, recoveryVars>>
      /\ UNCHANGED <<shutdownVars, requestVars, signal, eventVars>>
    BY DEF Quiet
<1>2. pc[o] \in Running /\ to \in RunStates /\ Goto(o, to)
    BY <1>1 DEF Leads
<1>3. \A x \in Ops : pc'[x] = IF x = o THEN to ELSE pc[x]
    BY <1>2 DEF Goto, TypeOK, OperationTypes
<1>4. /\ newest = o /\ newest # NoOp /\ physical = {o} /\ ~RecoveryInFlight
      /\ \A x \in Ops \ {o} : pc[x] \notin Running
    BY <1>2, Alone
<1>5. /\ UNCHANGED <<shutdown, status, confirmedSignedOut, localQuarantine, physical, newest, kind>>
      /\ UNCHANGED <<connected, brokerQuarantined, brokerCommit, store, recovery, recovered>>
    BY <1>1 DEF accountVars, tableVars, brokerVars, recoveryVars, requestVars
<1>6. TypeOK'
    <2>1. OperationTypes'
        BY <1>1, <1>2, GotoTypes DEF Quiet, TypeOK, Places
    <2>2. EventTypes'
        BY <1>1, PublishTypes, EventTypesFrame DEF Ends, TypeOK
    <2> QED BY <1>1, <2>1, <2>2, AccountTypesFrame, OutsideTypesFrame DEF TypeOK
<1>7. ThreadsFit'
    BY <1>1, <1>5, ThreadsKept
<1>8. \A x \in Ops : GuardFits(x)'
    BY <1>1, <1>5, GuardsKept DEF Ends
<1>9. \A x \in Ops : EventsFit(x)'
    BY <1>1, EventsKept DEF Ends
<1>10. \A x \in Ops : /\ x # o => terminal'[x] = terminal[x]
                      /\ terminal'[x] # terminal[x] => terminal[x] = "none"
                      /\ kind[x] = "SignIn" /\ terminal[x] # "Succeeded" => terminal'[x] # "Succeeded"
    BY <1>1 DEF Ends, Publish, guardVars, TypeOK, EventTypes
<1>11. RecordsFit'
    BY <1>3, <1>4, <1>5 DEF RecordsFit, Quiet
<1>12. BrokerFenced'
    <2>1. kind[o] = "SignOut" => pc[o] \in SignOutStates \cup {"exit"}
        <3>1. pc[o] \in SignInStates \cup SignOutStates \cup {"exit"}
            BY <1>2 DEF Quiet, Running, RunStates
        <3>2. pc[o] \in SignInStates => kind[o] = "SignIn"
            BY DEF ThreadsFit
        <3> QED BY <3>1, <3>2
    <2> QED BY <1>3, <1>4, <1>5, <2>1 DEF BrokerFenced, SignOutKeepsBrokerFenced, Quiet
<1>13. GrantsFit'
    <2>1. kind[o] = "SignIn" => terminal[o] # "Succeeded" /\ terminal'[o] # "Succeeded"
        <3>1. pc[o] \in (RunStates \cup {"admitted"}) \ {"exit"}
            BY <1>1 DEF Leads, Running
        <3>3. pc[o] \notin {"exit", "done"}
            BY <3>1 DEF RunStates, SignInStates, SignOutStates
        <3>2. GuardFits(o)
            BY DEF IInv
        <3> QED BY <1>10, <3>2, <3>3 DEF GuardFits
    <2>2. to # "done"
        BY <1>2 DEF RunStates, SignInStates, SignOutStates
    <2> QED BY <1>3, <1>4, <1>5, <1>10, <2>1, <2>2 DEF GrantsFit, Quiet
<1>14. StatusFits'
    <2>1. pc[o] # "exit" /\ to \in RunStates
        BY <1>1 DEF Leads
    <2>2. pc[o] = "publish" => to \in {"publish", "exit"}
        BY <1>1 DEF Leads, Quiet, Ended, SignInStates, SignOutStates
    <2> QED BY <1>3, <1>4, <1>5, <1>10, <2>1, <2>2 DEF StatusFits, Quiet
<1> QED BY <1>6, <1>7, <1>8, <1>9, <1>11, <1>12, <1>13, <1>14

LEMMA ObservedEnds ==
    ASSUME NEW o \in Ops, NEW to \in {"exit", "cleanUp"}, PublishObserved(o, "run")
    PROVE  Ends(o, to)
<1>1. SignalKind(o) \in Terminals \ {"none"} /\ SignalKind(o) # "Succeeded"
    BY DEF SignalKind, Terminals
<1> QED BY <1>1 DEF PublishObserved, Ends

\* Move is quiet when the places it joins allow it.
LEMMA MoveIsQuiet ==
    ASSUME NEW o \in Ops, NEW from, NEW to, Move(o, from, to),
           from \in Running \ {"exit", "admitted"}, to \in RunStates \ {"start", "reread"},
           from \in SignInStates => to \in SignInStates \cup {"exit"},
           from \notin SignInStates => to \in SignOutStates \cup {"exit"},
           to = "authorize" => from = "start",
           from \in Ended \cup {"publish"} => to \in Ended,
           to = "discard" => from = "reread",
           to \in Unwritten => from \in Unwritten,
           to \in Written => from \in Written,
           to \in Ended => store.grant # o \/ from \in Ended \/ kind[o] = "SignOut",
           to = "finish" => store = NoRecord
    PROVE  Quiet(o, to)
BY DEF Move, At, Quiet, Leads, Ends, RunUnchanged

LEMMA SignInMoves ==
    ASSUME IInv, NEW o \in Ops,
           \/ CallAuthorize(o) \/ AuthorizeSucceeds(o) \/ RejectTokens(o) \/ FailLoad(o)
           \/ CallStore(o) \/ StoreFails(o) \/ PinBroker(o) \/ VerifyReplacement(o)
           \/ ReplacementFails(o)
    PROVE  \E to : Quiet(o, to)
<1> USE DEF Running, RunStates, SignInStates, SignOutStates, CallerStates, Unwritten, Written, Ended
<1>1. pc[o] \in Unwritten => store.grant # o
    BY DEF IInv, GrantsFit
<1>2. CASE CallAuthorize(o)
    BY <1>2, MoveIsQuiet DEF CallAuthorize
<1>3. CASE AuthorizeSucceeds(o)
    BY <1>3, MoveIsQuiet DEF AuthorizeSucceeds, Authorizing, At
<1>4. CASE RejectTokens(o) \/ FailLoad(o) \/ StoreFails(o)
    BY <1>1, <1>4, MoveIsQuiet DEF RejectTokens, FailLoad, StoreFails, Move, At
<1>5. CASE CallStore(o)
    BY <1>5, MoveIsQuiet DEF CallStore
<1>6. CASE PinBroker(o) \/ VerifyReplacement(o) \/ ReplacementFails(o)
    BY <1>6, MoveIsQuiet DEF PinBroker, VerifyReplacement, ReplacementFails
<1> QED BY <1>2, <1>3, <1>4, <1>5, <1>6

LEMMA OtherMoves ==
    ASSUME IInv, NEW o \in Ops,
           RereadFindsNothing(o) \/ RereadFindsOwn(o) \/ SignOutDeleteFails(o)
    PROVE  \E to : Quiet(o, to)
<1> USE DEF Running, RunStates, SignInStates, SignOutStates, CallerStates, Unwritten, Written, Ended
<1>1. CASE RereadFindsNothing(o)
    <2>1. afterCleanUp[o] \in Ended
        BY DEF IInv, TypeOK, OperationTypes
    <2>2. store.grant # o
        BY <1>1, OpsAssumption DEF RereadFindsNothing, NoRecord
    <2> QED BY <1>1, <2>1, <2>2, MoveIsQuiet DEF RereadFindsNothing
<1>2. CASE RereadFindsOwn(o)
    BY <1>2, MoveIsQuiet DEF RereadFindsOwn
<1>3. CASE SignOutDeleteFails(o)
    BY <1>3, MoveIsQuiet DEF SignOutDeleteFails
<1> QED BY <1>1, <1>2, <1>3

LEMMA QuietEnds ==
    ASSUME IInv, NEW o \in Ops,
           \/ LeaveStale(o) \/ AuthorizeFails(o) \/ CompensateStored(o) \/ PublishSignInFailure(o)
           \/ PublishSignedOut(o)
    PROVE  \E to : Quiet(o, to)
<1> USE DEF Running, RunStates, SignInStates, SignOutStates, CallerStates, Unwritten, Written, Ended
<1>1. /\ pc[o] \in Unwritten => store.grant # o
      /\ pc[o] \in SignOutStates => kind[o] = "SignOut"
    BY DEF IInv, GrantsFit, ThreadsFit
<1>2. CASE LeaveStale(o)
    BY <1>1, <1>2, ObservedEnds DEF LeaveStale, Quiet, Leads, RunUnchanged, At
<1>3. CASE AuthorizeFails(o)
    <2>1. Ends(o, "exit")
        BY <1>3 DEF AuthorizeFails, Ends, Terminals, SignalKind
    <2> QED BY <1>1, <1>3, <2>1 DEF AuthorizeFails, Authorizing, Quiet, Leads, RunUnchanged, At
<1>4. CASE CompensateStored(o)
    BY <1>4, ObservedEnds DEF CompensateStored, Quiet, Leads, RunUnchanged, At
<1>5. CASE PublishSignInFailure(o)
    <2>1. Ends(o, "exit")
        BY <1>5 DEF PublishSignInFailure, Ends, Terminals, SignalKind
    <2> QED BY <1>5, <2>1 DEF PublishSignInFailure, Quiet, Leads, RunUnchanged, At
<1>6. CASE PublishSignedOut(o)
    <2>1. Ends(o, "exit")
        BY <1>1, <1>6 DEF PublishSignedOut, Ends, Terminals, At
    <2> QED BY <1>1, <1>6, <2>1 DEF PublishSignedOut, Quiet, Leads, RunUnchanged, At
<1> QED BY <1>2, <1>3, <1>4, <1>5, <1>6

LEMMA QuietLoads ==
    ASSUME IInv, NEW o \in Ops, LoadExisting(o) \/ SignOutLoad(o)
    PROVE  \E to : Quiet(o, to)
<1> USE DEF Running, RunStates, SignInStates, SignOutStates, CallerStates, Unwritten, Written, Ended
<1>1. store.rev \in Nat
    BY DEF IInv, TypeOK, OutsideTypes, Records
<1>2. CASE LoadExisting(o)
    BY <1>1, <1>2 DEF LoadExisting, Quiet, Leads, Ends, RunUnchanged, At
<1>3. CASE SignOutLoad(o)
    BY <1>1, <1>3 DEF SignOutLoad, Quiet, Leads, Ends, RunUnchanged, At
<1> QED BY <1>2, <1>3

-----------------------------------------------------------------------------
(* Steps of a run thread that change the record, the broker or the status *)

Advances(o, to) ==
    /\ Leads(o, to)
    /\ \/ UNCHANGED guardVars
       \/ \E k \in Terminals \ {"none"} :
             /\ Publish(o, "run", k) /\ to \in {"exit", "cleanUp"}
             /\ k = "Succeeded" => to = "exit"
    /\ UNCHANGED <<shutdown, physical, newest, recoveryVars, shutdownVars, requestVars, signal, eventVars>>
    /\ UNCHANGED revision
    /\ \/ UNCHANGED afterCleanUp
       \/ \E s \in {"exit", "fail", "failed"} : afterCleanUp' = [afterCleanUp EXCEPT ![o] = s]

\* The parts such a step keeps whatever it does to the record, and what it leaves
\* for the others to go by.
Advanced(o, to) ==
    /\ ThreadsFit' /\ \A x \in Ops : GuardFits(x)' /\ EventsFit(x)'
    /\ OperationTypes' /\ EventTypes'
    /\ UNCHANGED <<shutdown, physical, newest, kind, recovery, recovered>>
    /\ \A x \in Ops : pc'[x] = IF x = o THEN to ELSE pc[x]
    /\ \A x \in Ops : x # o => terminal'[x] = terminal[x]
    /\ newest = o /\ newest # NoOp /\ physical = {o} /\ recovery \in {"none", "done"}
    /\ \A x \in Ops : x # o => pc[x] \notin Running
    /\ \A x \in Ops : x # o => pc[x] \notin Written \cup {"finish", "reread", "discard"}
    /\ kind[o] = "SignIn" => terminal[o] # "Succeeded"
    /\ store \in Records /\ brokerCommit \in Records

LEMMA AdvanceKeeps ==
    ASSUME IInv, NEW o \in Ops, NEW to, Advances(o, to)
    PROVE  Advanced(o, to)
<1>1. TypeOK /\ ThreadsFit /\ (\A x \in Ops : GuardFits(x)) /\ (\A x \in Ops : EventsFit(x))
    BY DEF IInv
<1>2. Leads(o, to) /\ UNCHANGED <<physical, newest, kind, recovery, eventVars>>
    BY DEF Advances, requestVars, recoveryVars
<1>3. pc[o] \in Running \ {"exit"} /\ to \in RunStates /\ Goto(o, to)
    BY <1>2 DEF Leads
<1>4. \A x \in Ops : pc'[x] = IF x = o THEN to ELSE pc[x]
    BY <1>1, <1>3 DEF Goto, TypeOK, OperationTypes
<1>5. /\ newest = o /\ newest # NoOp /\ physical = {o} /\ ~RecoveryInFlight
      /\ \A x \in Ops \ {o} : pc[x] \notin Running
    BY <1>1, <1>3, Alone
<1>6. ThreadsFit'
    BY <1>1, <1>2, ThreadsKept
<1>7. \A x \in Ops : GuardFits(x)'
    BY <1>1, <1>2, GuardsKept DEF Advances
<1>8. \A x \in Ops : EventsFit(x)'
    BY <1>1, <1>2, EventsKept DEF Advances
<1>9. OperationTypes'
    BY <1>1, <1>3, GotoTypes DEF Advances, TypeOK, Places
<1>10. EventTypes'
    BY <1>1, PublishTypes, EventTypesFrame DEF Advances, TypeOK
<1>11. \A x \in Ops : x # o => terminal'[x] = terminal[x]
    BY <1>1 DEF Advances, Publish, guardVars, TypeOK, EventTypes
<1>12. kind[o] = "SignIn" => terminal[o] # "Succeeded"
    <2>1. pc[o] \notin {"exit", "done"}
        BY <1>3 DEF Running, RunStates, SignInStates, SignOutStates
    <2> QED BY <1>1, <2>1 DEF GuardFits
<1>13. \A x \in Ops : x # o => pc[x] \notin Written \cup {"finish", "reread", "discard"}
    BY <1>5 DEF Written, Running, RunStates, SignInStates, SignOutStates
<1>14. UNCHANGED <<shutdown, physical, newest, kind, recovery, recovered>>
    BY DEF Advances, requestVars, recoveryVars
<1>15. store \in Records /\ brokerCommit \in Records
    BY <1>1 DEF TypeOK, OutsideTypes
<1> QED
    BY <1>4, <1>5, <1>6, <1>7, <1>8, <1>9, <1>10, <1>11, <1>12, <1>13, <1>14, <1>15
    DEF Advanced, RecoveryInFlight, OutsideTypes

LEMMA QuarantineForSignOutKeeps ==
    ASSUME IInv, NEW o \in Ops, QuarantineForSignOut(o)
    PROVE  IInv'
<1> USE DEF QuarantineForSignOut
<1>1. kind[o] = "SignOut" /\ publisher[o] # "run"
    BY DEF IInv, ThreadsFit, GuardFits
<1>2. Advanced(o, "load")
    <2>1. Leads(o, "load")
        BY <1>1 DEF Leads, Running, RunStates, SignInStates, SignOutStates
    <2> QED BY <2>1, AdvanceKeeps DEF Advances, accountVars, tableVars
<1>3. AccountTypes' /\ OutsideTypes'
    BY AccountTypesFrame DEF IInv, TypeOK, OutsideTypes, QuarantineBroker, recoveryVars,
        shutdownVars, Records, NoRecord, Grants
<1>4. RecordsFit'
    BY <1>2 DEF IInv, RecordsFit, QuarantineBroker, Advanced
<1>5. BrokerFenced'
    BY <1>2 DEF IInv, BrokerFenced, SignOutKeepsBrokerFenced, QuarantineBroker, Advanced
<1>6. GrantsFit'
    BY <1>1, <1>2 DEF IInv, GrantsFit, Advanced, Unwritten, Written, CallerStates, SignOutStates
<1>7. StatusFits'
    BY <1>1, <1>2 DEF IInv, StatusFits, Advanced, accountVars
<1> QED BY <1>2, <1>3, <1>4, <1>5, <1>6, <1>7 DEF IInv, TypeOK, Advanced

LEMMA StoreGrantTypes ==
    ASSUME IInv, NEW o \in Ops, store.rev = revision[o], WriteGrant(o),
           UNCHANGED <<brokerVars, recoveryVars, shutdownVars>>
    PROVE  OutsideTypes' /\ store' = [rev |-> store.rev + 1, grant |-> o] /\ store' # NoRecord
<1>1. store \in Records /\ o # "none"
    BY OpsAssumption DEF IInv, TypeOK, OutsideTypes
<1>2. store' = [rev |-> store.rev + 1, grant |-> o]
    BY DEF WriteGrant
<1>3. store' \in Records
    BY <1>1, <1>2 DEF Records, Grants
<1>4. store' # NoRecord
    BY <1>1, <1>2 DEF NoRecord
<1> QED BY <1>2, <1>3, <1>4 DEF IInv, TypeOK, OutsideTypes, brokerVars, recoveryVars, shutdownVars

LEMMA WriteKeepsRecords ==
    ASSUME IInv, NEW o \in Ops, pc[o] = "store", o \in physical,
           store' = [rev |-> store.rev + 1, grant |-> o], store' # NoRecord,
           UNCHANGED <<brokerVars, shutdown>>
    PROVE  RecordsFit'
<1>1. store \in Records /\ brokerCommit \in Records /\ o # "none"
    BY OpsAssumption DEF IInv, TypeOK, OutsideTypes
<1>2. store.rev \in Nat /\ brokerCommit.rev \in Nat
    BY <1>1 DEF Records
<1>3. store'.rev = store.rev + 1 /\ store'.grant = o
    OBVIOUS
<1>4. brokerCommit # NoRecord => /\ connected /\ ~brokerQuarantined /\ brokerCommit.rev > 0
                                 /\ brokerCommit.rev <= store.rev
    BY DEF IInv, RecordsFit, Ended
<1> QED BY <1>1, <1>2, <1>3, <1>4 DEF RecordsFit, brokerVars

LEMMA StoreGrantKeeps ==
    ASSUME IInv, NEW o \in Ops, StoreGrant(o)
    PROVE  IInv'
<1> USE DEF StoreGrant, At
<1>1. Advanced(o, "stored")
    <2>1. Leads(o, "stored")
        BY DEF Leads, Running, RunStates, SignInStates
    <2> QED BY <2>1, AdvanceKeeps DEF Advances, accountVars, tableVars
<1>2. /\ AccountTypes' /\ OutsideTypes'
      /\ store' = [rev |-> store.rev + 1, grant |-> o] /\ store' # NoRecord /\ store'.grant = o
    BY StoreGrantTypes, AccountTypesFrame DEF IInv, TypeOK
<1>3. RecordsFit'
    BY <1>1, <1>2, WriteKeepsRecords DEF Advanced
<1>4. kind[o] = "SignIn"
    BY DEF IInv, ThreadsFit, SignInStates
<1>5. BrokerFenced'
    BY <1>1, <1>4 DEF IInv, BrokerFenced, SignOutKeepsBrokerFenced, Advanced, brokerVars
<1>6. GrantsFit'
    BY <1>1, <1>2, <1>4 DEF IInv, GrantsFit, Advanced, guardVars, Unwritten, Written, Ended,
        CallerStates, SignOutStates
<1>7. StatusFits'
    BY <1>1, <1>2, <1>4 DEF IInv, StatusFits, Advanced, accountVars
<1> QED BY <1>1, <1>2, <1>3, <1>5, <1>6, <1>7 DEF IInv, TypeOK, Advanced

LEMMA StoreAmbiguousKeeps ==
    ASSUME IInv, NEW o \in Ops, StoreAmbiguous(o)
    PROVE  IInv'
<1> USE DEF StoreAmbiguous, At
<1>1. Advanced(o, "cleanUp")
    <2>1. Leads(o, "cleanUp")
        BY DEF Leads, Running, RunStates, SignInStates
    <2> QED BY <2>1, AdvanceKeeps DEF Advances, accountVars, tableVars
<1>2. kind[o] = "SignIn"
    BY DEF IInv, ThreadsFit, SignInStates
<1>3. AccountTypes' /\ OutsideTypes' /\ RecordsFit'
    <2>1. CASE UNCHANGED store
        BY <1>1, <2>1, AccountTypesFrame, OutsideTypesFrame
        DEF IInv, TypeOK, RecordsFit, Advanced, brokerVars, Ended
    <2>2. CASE store.rev = revision[o] /\ WriteGrant(o)
        BY <1>1, <2>2, AccountTypesFrame, StoreGrantTypes, WriteKeepsRecords
        DEF IInv, TypeOK, Advanced
    <2> QED BY <2>1, <2>2
<1>4. UNCHANGED store \/ store'.grant = o
    BY DEF WriteGrant
<1>5. BrokerFenced'
    BY <1>1, <1>2 DEF IInv, BrokerFenced, SignOutKeepsBrokerFenced, Advanced, brokerVars
<1>6. GrantsFit'
    BY <1>1, <1>2, <1>4 DEF IInv, GrantsFit, Advanced, guardVars, Unwritten, Written, Ended,
        CallerStates, SignOutStates
<1>7. StatusFits'
    BY <1>1, <1>2, <1>4 DEF IInv, StatusFits, Advanced, accountVars
<1> QED BY <1>1, <1>3, <1>5, <1>6, <1>7 DEF IInv, TypeOK, Advanced

-----------------------------------------------------------------------------
(* ... and those that quarantine, lift, claim, discard or sign out *)

LEMMA LiftQuarantineKeeps ==
    ASSUME IInv, NEW o \in Ops, LiftQuarantine(o)
    PROVE  IInv'
<1> USE DEF LiftQuarantine, At
<1>1. Advanced(o, "claim")
    <2>1. Leads(o, "claim")
        BY DEF Leads, Running, RunStates, SignInStates
    <2> QED BY <2>1, AdvanceKeeps DEF Advances, accountVars, tableVars
<1>2. kind[o] = "SignIn"
    BY DEF IInv, ThreadsFit, SignInStates
<1>3. AccountTypes' /\ OutsideTypes'
    BY AccountTypesFrame DEF IInv, TypeOK, OutsideTypes, recoveryVars, shutdownVars, Records,
        NoRecord, Grants
<1>4. RecordsFit'
    BY DEF IInv, RecordsFit
<1>5. BrokerFenced'
    BY <1>1, <1>2 DEF IInv, BrokerFenced, SignOutKeepsBrokerFenced, Advanced
<1>6. GrantsFit'
    BY <1>1, <1>2 DEF IInv, GrantsFit, Advanced, guardVars, Unwritten, Written, Ended,
        CallerStates, SignOutStates
<1>7. StatusFits'
    BY <1>1, <1>2 DEF IInv, StatusFits, Advanced, accountVars
<1> QED BY <1>1, <1>3, <1>4, <1>5, <1>6, <1>7 DEF IInv, TypeOK, Advanced

\* A sign-in that failed after it stored its grant turns to clean up.
LEMMA CompensationKeeps ==
    ASSUME IInv, NEW o \in Ops, pc[o] \in Written, Advanced(o, "cleanUp"), NEW v \in BOOLEAN,
           QuarantineBroker(v),
           UNCHANGED <<accountVars, tableVars, connected, store, recoveryVars, shutdownVars>>
    PROVE  IInv'
<1>1. kind[o] = "SignIn"
    BY DEF IInv, ThreadsFit, SignInStates, Written
<1>2. AccountTypes' /\ OutsideTypes'
    BY AccountTypesFrame DEF IInv, TypeOK, OutsideTypes, QuarantineBroker, recoveryVars,
        shutdownVars, Records, NoRecord, Grants
<1>3. RecordsFit'
    BY <1>1 DEF IInv, RecordsFit, QuarantineBroker, Advanced, Ended, Written
<1>4. BrokerFenced'
    BY <1>1 DEF IInv, BrokerFenced, SignOutKeepsBrokerFenced, QuarantineBroker, Advanced
<1>5. GrantsFit'
    <2>1. \A x \in Ops : pc'[x] \in Unwritten => store'.grant # x
        BY DEF IInv, GrantsFit, Advanced, Unwritten, CallerStates, SignOutStates
    <2>2. \A x \in Ops : pc'[x] \notin Written
        BY DEF Advanced, Written
    <2>3. store'.grant = newest'
        BY DEF IInv, GrantsFit, Advanced
    <2>4. pc'[newest'] \notin Ended \cup {"done"}
        BY DEF Advanced, Ended
    <2> QED BY <2>1, <2>2, <2>3, <2>4 DEF GrantsFit
<1>6. StatusFits'
    BY <1>1 DEF IInv, StatusFits, Advanced, accountVars, Written
<1> QED BY <1>2, <1>3, <1>4, <1>5, <1>6 DEF IInv, TypeOK, Advanced

LEMMA CompensateRejectedKeeps ==
    ASSUME IInv, NEW o \in Ops, CompensateRejected(o)
    PROVE  IInv'
<1> USE DEF CompensateRejected, At
<1>1. Advanced(o, "cleanUp")
    <2>1. Leads(o, "cleanUp")
        BY DEF Leads, Running, RunStates, SignInStates
    <2> QED BY <2>1, AdvanceKeeps DEF Advances, accountVars, tableVars
<1> QED BY <1>1, CompensationKeeps DEF Written

LEMMA CompensateUnclaimedKeeps ==
    ASSUME IInv, NEW o \in Ops, CompensateUnclaimed(o)
    PROVE  IInv'
<1> USE DEF CompensateUnclaimed, At
<1>1. Advanced(o, "cleanUp")
    <2>1. Leads(o, "cleanUp")
        BY DEF Leads, Running, RunStates, SignInStates
    <2>2. Ends(o, "cleanUp")
        BY ObservedEnds
    <2> QED BY <2>1, <2>2, AdvanceKeeps DEF Advances, Ends, accountVars, tableVars
<1>2. connected \in BOOLEAN
    BY DEF IInv, TypeOK, OutsideTypes
<1> QED BY <1>1, <1>2, CompensationKeeps DEF Written

LEMMA ClaimSucceededKeeps ==
    ASSUME IInv, NEW o \in Ops, ClaimSucceeded(o)
    PROVE  IInv'
<1> USE DEF ClaimSucceeded, At, SetStatus
<1>1. Advanced(o, "exit")
    <2>1. Leads(o, "exit")
        BY DEF Leads, Running, RunStates, SignInStates
    <2> QED BY <2>1, AdvanceKeeps DEF Advances, Terminals
<1>2. kind[o] = "SignIn" /\ store.grant = o
    BY DEF IInv, ThreadsFit, SignInStates, GrantsFit, Written
<1>3. AccountTypes' /\ OutsideTypes'
    BY OutsideTypesFrame DEF IInv, TypeOK, AccountTypes, States
<1>4. RecordsFit'
    BY <1>1 DEF IInv, RecordsFit, Advanced, brokerVars, Ended
<1>5. BrokerFenced'
    BY <1>1, <1>2 DEF IInv, BrokerFenced, SignOutKeepsBrokerFenced, Advanced, brokerVars
<1>6. terminal'[o] = "Succeeded"
    BY DEF Publish, IInv, TypeOK, EventTypes
<1>7. GrantsFit'
    BY <1>1, <1>2, <1>6 DEF IInv, GrantsFit, Advanced, Unwritten, Written, CallerStates,
        SignOutStates
<1>8. StatusFits'
    <2>1. o \notin {"none", "damaged"}
        BY OpsAssumption
    <2>2. pc'[o] # "finish" /\ \A x \in Ops : pc'[x] # "finish"
        BY <1>1 DEF Advanced
    <2> QED BY <1>1, <1>2, <1>6, <2>1, <2>2 DEF StatusFits, Advanced
<1> QED BY <1>1, <1>3, <1>4, <1>5, <1>7, <1>8 DEF IInv, TypeOK, Advanced

LEMMA BeginCleanUpKeeps ==
    ASSUME IInv, NEW o \in Ops, BeginCleanUp(o)
    PROVE  IInv'
<1> USE DEF BeginCleanUp, At
<1>1. Advanced(o, "reread")
    <2>1. Leads(o, "reread")
        BY DEF Leads, Running, RunStates, SignInStates
    <2> QED BY <2>1, AdvanceKeeps DEF Advances, accountVars, tableVars
<1>2. kind[o] = "SignIn"
    BY DEF IInv, ThreadsFit, SignInStates
<1>3. AccountTypes' /\ OutsideTypes'
    BY AccountTypesFrame DEF IInv, TypeOK, OutsideTypes, QuarantineBroker, BrokerPinned, AccountTypes,
        recoveryVars, shutdownVars, Records, NoRecord, Grants
<1>4. RecordsFit'
    BY <1>1 DEF IInv, RecordsFit, QuarantineBroker, Advanced, Ended
<1>5. BrokerFenced'
    BY <1>1, <1>2 DEF IInv, BrokerFenced, SignOutKeepsBrokerFenced, QuarantineBroker, BrokerPinned,
        Advanced
<1>6. GrantsFit'
    BY <1>1, <1>2 DEF IInv, GrantsFit, QuarantineBroker, Advanced, guardVars, Unwritten, Written,
        Ended, CallerStates, SignOutStates
<1>7. StatusFits'
    BY <1>1, <1>2 DEF IInv, StatusFits, Advanced, accountVars
<1> QED BY <1>1, <1>3, <1>4, <1>5, <1>6, <1>7 DEF IInv, TypeOK, Advanced

\* Where the clean-up of a sign-in leads.
LEMMA CleanUpAdvances ==
    ASSUME IInv, NEW o \in Ops, pc[o] \in {"reread", "discard"}, publisher[o] # "run",
           Goto(o, afterCleanUp[o]), UNCHANGED guardVars,
           UNCHANGED <<shutdown, tableVars, recoveryVars, shutdownVars, requestVars, revision,
                       afterCleanUp, signal, eventVars>>
    PROVE  /\ Advanced(o, afterCleanUp[o]) /\ kind[o] = "SignIn"
           /\ afterCleanUp[o] \in Ended
           /\ \A x \in Ops : pc'[x] \notin Written \cup {"finish", "reread", "discard"}
           /\ \A x \in Ops : terminal'[x] = terminal[x]
<1>1. afterCleanUp[o] \in Ended
    BY DEF IInv, TypeOK, OperationTypes, Ended
<1>2. Leads(o, afterCleanUp[o])
    BY <1>1 DEF Leads, Running, RunStates, SignInStates, Ended
<1>3. Advanced(o, afterCleanUp[o])
    BY <1>2, AdvanceKeeps DEF Advances, tableVars
<1>4. kind[o] = "SignIn"
    BY DEF IInv, ThreadsFit, SignInStates
<1> QED BY <1>1, <1>3, <1>4 DEF Advanced, Ended, Written, guardVars

LEMMA CleanUpQuarantinesKeeps ==
    ASSUME IInv, NEW o \in Ops, CleanUpQuarantines(o)
    PROVE  IInv'
<1> USE DEF CleanUpQuarantines, At, QuarantineLocalRecovery
<1>1. /\ Advanced(o, afterCleanUp[o]) /\ kind[o] = "SignIn" /\ afterCleanUp[o] \in Ended
      /\ \A x \in Ops : pc'[x] \notin Written \cup {"finish", "reread", "discard"}
      /\ \A x \in Ops : terminal'[x] = terminal[x]
    BY CleanUpAdvances
<1>2. pc[o] \in {"reread", "discard"}
    OBVIOUS
<1>3. AccountTypes' /\ OutsideTypes'
    BY OutsideTypesFrame DEF IInv, TypeOK, AccountTypes, tableVars
<1>4. RecordsFit'
    BY <1>1, <1>2 DEF IInv, RecordsFit, Advanced, brokerVars, Ended
<1>5. BrokerFenced'
    BY <1>1, <1>2 DEF IInv, BrokerFenced, SignOutKeepsBrokerFenced, Advanced, brokerVars
<1>6. GrantsFit'
    <2>1. \A x \in Ops : pc'[x] \in Unwritten => store'.grant # x
        BY <1>1 DEF IInv, GrantsFit, Advanced, Unwritten, Ended, CallerStates, SignOutStates
    <2>2. terminal'[newest'] # "Succeeded"
        BY <1>1 DEF Advanced
    <2>3. ~shutdown' => localQuarantine' /\ (connected' => brokerQuarantined')
        BY <1>2 DEF IInv, BrokerFenced, brokerVars
    <2> QED BY <1>1, <2>1, <2>2, <2>3 DEF GrantsFit
<1>7. StatusFits'
    BY <1>1, <1>2 DEF IInv, StatusFits, Advanced, AccountTypes, TypeOK
<1> QED BY <1>1, <1>3, <1>4, <1>5, <1>6, <1>7 DEF IInv, TypeOK, Advanced

LEMMA DiscardGrantKeeps ==
    ASSUME IInv, NEW o \in Ops, DiscardGrant(o)
    PROVE  IInv'
<1> USE DEF DiscardGrant, At
<1>1. /\ Advanced(o, afterCleanUp[o]) /\ kind[o] = "SignIn" /\ afterCleanUp[o] \in Ended
      /\ \A x \in Ops : pc'[x] \notin Written \cup {"finish", "reread", "discard"}
      /\ \A x \in Ops : terminal'[x] = terminal[x]
    BY CleanUpAdvances DEF QuarantineLocalRecovery, accountVars
<1>2. /\ pc[o] = "discard" /\ UNCHANGED <<shutdown, status>> /\ store' = NoRecord
      /\ confirmedSignedOut' => confirmedSignedOut
    BY DEF QuarantineLocalRecovery, accountVars, IInv, TypeOK, AccountTypes
<1>3. AccountTypes' /\ OutsideTypes'
    <2>1. OutsideTypes'
        BY <1>2 DEF IInv, TypeOK, OutsideTypes, brokerVars, recoveryVars, shutdownVars, Records,
            NoRecord, Grants
    <2>2. AccountTypes'
        BY AccountTypesFrame DEF IInv, TypeOK, AccountTypes, QuarantineLocalRecovery, tableVars
    <2> QED BY <2>1, <2>2
<1>4. store' = NoRecord /\ store'.grant = "none" /\ store'.rev = 0
    BY <1>2 DEF NoRecord
<1>5. RecordsFit'
    <2>1. brokerCommit # NoRecord => shutdown
        BY <1>2 DEF IInv, RecordsFit, BrokerFenced
    <2>2. UNCHANGED <<connected, brokerQuarantined, brokerCommit, shutdown>>
        BY <1>2 DEF brokerVars
    <2>3. brokerCommit # NoRecord => brokerCommit.rev > 0 /\ brokerCommit.rev # 0
        BY <1>1 DEF IInv, RecordsFit, Advanced, Records
    <2>4. \A x \in physical' : pc'[x] \in Ended
        BY <1>1 DEF Advanced
    <2> QED BY <1>4, <2>1, <2>2, <2>3, <2>4 DEF IInv, RecordsFit
<1>6. BrokerFenced'
    BY <1>1, <1>2 DEF IInv, BrokerFenced, SignOutKeepsBrokerFenced, Advanced, brokerVars
<1>7. GrantsFit'
    <2>1. "none" \notin Ops
        BY OpsAssumption
    <2> QED BY <1>1, <1>4, <2>1 DEF GrantsFit, Advanced
<1>8. StatusFits'
    BY <1>1, <1>2 DEF IInv, StatusFits, Advanced
<1> QED BY <1>1, <1>3, <1>5, <1>6, <1>7, <1>8 DEF IInv, TypeOK, Advanced

LEMMA SignOutDeleteKeeps ==
    ASSUME IInv, NEW o \in Ops, SignOutDelete(o)
    PROVE  IInv'
<1> USE DEF SignOutDelete, At
<1>1. PICK to \in {"finish", "deleteFailed"} : Goto(o, to)
    OBVIOUS
<1>2. Advanced(o, to)
    <2>1. Leads(o, to)
        BY <1>1 DEF Leads, Running, RunStates, SignInStates, SignOutStates
    <2> QED BY <2>1, AdvanceKeeps DEF Advances, accountVars, tableVars
<1>3. kind[o] = "SignOut" /\ (connected => brokerQuarantined)
    <2>1. kind[o] = "SignOut"
        BY DEF IInv, ThreadsFit, SignOutStates
    <2> QED BY <1>2, <2>1 DEF IInv, BrokerFenced, SignOutKeepsBrokerFenced, Advanced, SignOutStates
<1>4. AccountTypes' /\ OutsideTypes'
    BY AccountTypesFrame DEF IInv, TypeOK, OutsideTypes, brokerVars, recoveryVars, shutdownVars,
        Records, NoRecord, Grants
<1>5. RecordsFit'
    BY <1>3 DEF IInv, RecordsFit, brokerVars
<1>6. BrokerFenced'
    BY <1>2, <1>3 DEF IInv, BrokerFenced, SignOutKeepsBrokerFenced, Advanced, brokerVars
<1>7. GrantsFit'
    <2>1. store'.grant = "none" /\ "none" \notin Ops
        BY OpsAssumption DEF NoRecord
    <2>2. \A x \in Ops : pc'[x] \notin Written
        BY <1>2 DEF Advanced, Written
    <2> QED BY <1>2, <1>3, <2>1, <2>2 DEF GrantsFit, Advanced
<1>8. StatusFits'
    BY <1>2, <1>3 DEF IInv, StatusFits, Advanced, accountVars
<1> QED BY <1>2, <1>4, <1>5, <1>6, <1>7, <1>8 DEF IInv, TypeOK, Advanced

LEMMA SignOutFailedKeeps ==
    ASSUME IInv, NEW o \in Ops, SignOutFailed(o)
    PROVE  IInv'
<1> USE DEF SignOutFailed, At, SetStatus
<1>1. Advanced(o, "exit")
    <2>1. Leads(o, "exit")
        BY DEF Leads, Running, RunStates, SignInStates, SignOutStates
    <2> QED BY <2>1, AdvanceKeeps DEF Advances, Terminals, tableVars
<1>2. kind[o] = "SignOut"
    BY DEF IInv, ThreadsFit, SignOutStates
<1>3. AccountTypes' /\ OutsideTypes'
    BY OutsideTypesFrame DEF IInv, TypeOK, AccountTypes, States, tableVars
<1>4. RecordsFit'
    BY <1>1 DEF IInv, RecordsFit, Advanced, brokerVars, Ended
<1>5. BrokerFenced'
    BY <1>1, <1>2 DEF IInv, BrokerFenced, SignOutKeepsBrokerFenced, Advanced, brokerVars,
        SignOutStates
<1>6. GrantsFit'
    BY <1>1, <1>2 DEF IInv, GrantsFit, Advanced, Unwritten, Written, CallerStates, SignOutStates
<1>7. StatusFits'
    BY <1>1, <1>2 DEF IInv, StatusFits, Advanced
<1> QED BY <1>1, <1>3, <1>4, <1>5, <1>6, <1>7 DEF IInv, TypeOK, Advanced

LEMMA ConfirmSignedOutKeeps ==
    ASSUME IInv, NEW o \in Ops, ConfirmSignedOut(o)
    PROVE  IInv'
<1> USE DEF ConfirmSignedOut, At, SetStatus
<1>1. PICK to \in {"publish", "exit"} : Goto(o, to)
    OBVIOUS
<1>2. Advanced(o, to)
    <2>1. Leads(o, to)
        BY <1>1 DEF Leads, Running, RunStates, SignInStates, SignOutStates
    <2> QED BY <2>1, AdvanceKeeps DEF Advances, tableVars
<1>3. kind[o] = "SignOut" /\ store = NoRecord
    BY DEF IInv, ThreadsFit, SignOutStates, StatusFits
<1>4. AccountTypes' /\ OutsideTypes'
    BY OutsideTypesFrame DEF IInv, TypeOK, AccountTypes, States, tableVars, accountVars
<1>5. RecordsFit'
    BY <1>2 DEF IInv, RecordsFit, Advanced, brokerVars, Ended
<1>6. BrokerFenced'
    BY <1>2, <1>3 DEF IInv, BrokerFenced, SignOutKeepsBrokerFenced, Advanced, brokerVars,
        SignOutStates
<1>7. GrantsFit'
    BY <1>2, <1>3 DEF IInv, GrantsFit, Advanced, Unwritten, Written, CallerStates, SignOutStates
<1>8. StatusFits'
    BY <1>2, <1>3 DEF IInv, StatusFits, Advanced, accountVars
<1> QED BY <1>2, <1>4, <1>5, <1>6, <1>7, <1>8 DEF IInv, TypeOK, Advanced

LEMMA CompleteKeeps ==
    ASSUME IInv, NEW o \in Ops, OnPhysicalOperationComplete(o)
    PROVE  IInv'
<1> USE DEF OnPhysicalOperationComplete, At
<1>1. pc[o] = "exit" /\ publisher[o] # "run"
    OBVIOUS
<1>2. \A x \in Ops : pc'[x] = IF x = o THEN "done" ELSE pc[x]
    BY DEF Goto, IInv, TypeOK, OperationTypes
<1>3. newest = o /\ newest # NoOp /\ physical = {o} /\ \A x \in Ops \ {o} : pc[x] \notin Running
    BY <1>1, Alone DEF IInv, Running, RunStates
<1>4. /\ UNCHANGED <<shutdown, status, confirmedSignedOut, localQuarantine, newest, kind, guardVars>>
      /\ UNCHANGED <<connected, brokerQuarantined, brokerCommit, store, recovery, recovered>>
      /\ physical' = {}
    BY <1>3 DEF accountVars, brokerVars, recoveryVars
<1>5. AccountTypes' /\ OutsideTypes' /\ EventTypes'
    BY OutsideTypesFrame, EventTypesFrame DEF IInv, TypeOK, AccountTypes, accountVars
<1>6. OperationTypes'
    BY DEF IInv, TypeOK, OperationTypes, Goto
<1>7. ThreadsFit'
    <2>1. "done" \notin Running \cup SignInStates \cup SignOutStates \cup CallerStates
        BY DEF Running, RunStates, SignInStates, SignOutStates, CallerStates
    <2> QED BY <1>2, <1>3, <1>4, <2>1 DEF IInv, ThreadsFit, RecoveryInFlight, CallerStates
<1>8. \A x \in Ops : GuardFits(x)'
    BY <1>1, <1>2, <1>4 DEF IInv, GuardFits, guardVars
<1>9. \A x \in Ops : EventsFit(x)'
    <2>1. "done" \notin CallerStates \cup {"start", "authorize"}
        BY DEF CallerStates
    <2> QED BY <1>2, <1>4, <2>1 DEF IInv, EventsFit, eventVars, guardVars
<1>10. RecordsFit' /\ BrokerFenced' /\ StatusFits'
    BY <1>1, <1>2, <1>3, <1>4
    DEF IInv, RecordsFit, BrokerFenced, SignOutKeepsBrokerFenced, StatusFits
<1>11. GrantsFit'
    <2>1. "done" \notin Unwritten \cup Written /\ "exit" \in Ended
        BY DEF Unwritten, Written, Ended, CallerStates, SignOutStates
    <2> QED BY <1>1, <1>2, <1>3, <1>4, <2>1 DEF IInv, GrantsFit, guardVars
<1> QED BY <1>5, <1>6, <1>7, <1>8, <1>9, <1>10, <1>11 DEF IInv, TypeOK

LEMMA RunKeeps ==
    ASSUME IInv, NEW o \in Ops, Run(o)
    PROVE  IInv'
<1>1. CASE \/ CallAuthorize(o) \/ AuthorizeSucceeds(o) \/ RejectTokens(o) \/ FailLoad(o)
           \/ CallStore(o) \/ StoreFails(o) \/ PinBroker(o) \/ VerifyReplacement(o)
           \/ ReplacementFails(o)
    BY <1>1, SignInMoves, QuietKeeps
<1>2. CASE RereadFindsNothing(o) \/ RereadFindsOwn(o) \/ SignOutDeleteFails(o)
    BY <1>2, OtherMoves, QuietKeeps
<1>3. CASE \/ LeaveStale(o) \/ AuthorizeFails(o) \/ CompensateStored(o) \/ PublishSignInFailure(o)
           \/ PublishSignedOut(o)
    BY <1>3, QuietEnds, QuietKeeps
<1>4. CASE LoadExisting(o) \/ SignOutLoad(o)
    BY <1>4, QuietLoads, QuietKeeps
<1>5. CASE \/ StoreGrant(o) \/ StoreAmbiguous(o) \/ LiftQuarantine(o) \/ CompensateRejected(o)
           \/ CompensateUnclaimed(o) \/ ClaimSucceeded(o)
    BY <1>5, StoreGrantKeeps, StoreAmbiguousKeeps, LiftQuarantineKeeps, CompensateRejectedKeeps,
        CompensateUnclaimedKeeps, ClaimSucceededKeeps
<1>6. CASE BeginCleanUp(o) \/ CleanUpQuarantines(o) \/ DiscardGrant(o)
    BY <1>6, BeginCleanUpKeeps, CleanUpQuarantinesKeeps, DiscardGrantKeeps
<1>7. CASE SignOutDelete(o) \/ SignOutFailed(o) \/ ConfirmSignedOut(o) \/ OnPhysicalOperationComplete(o)
    BY <1>7, SignOutDeleteKeeps, SignOutFailedKeeps, ConfirmSignedOutKeeps, CompleteKeeps
<1> QED BY <1>1, <1>2, <1>3, <1>4, <1>5, <1>6, <1>7 DEF Run, RunSignIn, RunSignOut

-----------------------------------------------------------------------------
(* The caller's thread *)

\* Before it is admitted an operation has no thread and no terminal.
LEMMA NotAdmitted ==
    ASSUME IInv, NEW o \in Ops, pc[o] \in {"idle", "evaluated", "refused"}
    PROVE  /\ o # newest /\ o \notin physical
           /\ terminal[o] = "none" /\ publisher[o] = "none" /\ stage[o] = "none"
           /\ store.grant # o
<1>1. pc[o] \notin Running \cup RunStates \cup {"done"}
    BY DEF Running, RunStates, SignInStates, SignOutStates
<1>2. GuardFits(o) /\ publisher[o] \in {"none", "run", "other"}
    BY DEF IInv, TypeOK, EventTypes
<1> QED
    BY <1>1, <1>2, OpsAssumption DEF IInv, ThreadsFit, GrantsFit, GuardFits, Unwritten, CallerStates

LEMMA EvaluateSignInKeeps ==
    ASSUME IInv, NEW o \in Ops, EvaluateSignIn(o)
    PROVE  IInv'
<1> USE DEF EvaluateSignIn
<1>1. /\ o # newest /\ o \notin physical /\ terminal[o] = "none" /\ publisher[o] = "none"
      /\ stage[o] = "none" /\ store.grant # o
    BY NotAdmitted
<1>2. \A x \in Ops : /\ pc'[x] = IF x = o THEN "evaluated" ELSE pc[x]
                     /\ kind'[x] = IF x = o THEN "SignIn" ELSE kind[x]
    BY DEF Goto, IInv, TypeOK, OperationTypes
<1>3. /\ UNCHANGED <<shutdown, status, confirmedSignedOut, localQuarantine, newest, physical>>
      /\ UNCHANGED <<connected, brokerQuarantined, brokerCommit, store, recovery, recovered>>
    BY DEF accountVars, tableVars, brokerVars, recoveryVars
<1>4. AccountTypes' /\ OutsideTypes' /\ EventTypes'
    BY AccountTypesFrame, OutsideTypesFrame, EventTypesFrame DEF IInv, TypeOK
<1>5. OperationTypes'
    BY DEF IInv, TypeOK, OperationTypes, Goto, Kinds, CallerStates
<1>6. ThreadsFit'
    <2>1. /\ {"idle", "evaluated"} \cap (Running \cup SignOutStates \cup {"admitted"}) = {}
          /\ "evaluated" \notin SignInStates /\ ThreadsFit
        BY DEF Running, RunStates, SignInStates, SignOutStates, IInv
    <2>2. \A x \in Ops : x \in physical <=> pc'[x] \in Running
        BY <1>1, <1>2, <2>1 DEF ThreadsFit
    <2>3. newest # NoOp => pc'[newest] \in Running \cup {"done"}
        BY <1>1, <1>2, <2>1 DEF ThreadsFit, IInv, TypeOK, AccountTypes
    <2>4. \A x \in Ops :
             /\ pc'[x] \in SignInStates \cup {"evaluated", "refused"} => kind'[x] = "SignIn"
             /\ pc'[x] \in SignOutStates \cup {"admitted"} => kind'[x] = "SignOut"
        BY <1>2, <1>3, <2>1 DEF ThreadsFit
    <2>5. RecoveryInFlight' => physical = {}
        BY <1>3, <2>1 DEF ThreadsFit, RecoveryInFlight
    <2> QED BY <1>3, <2>1, <2>2, <2>3, <2>4, <2>5 DEF ThreadsFit
<1>7. \A x \in Ops : GuardFits(x)'
    BY <1>1, <1>2 DEF IInv, GuardFits, guardVars
<1>8. \A x \in Ops : EventsFit(x)'
    BY <1>2 DEF IInv, EventsFit, eventVars, guardVars, CallerStates
<1>9. RecordsFit'
    BY <1>1, <1>2, <1>3 DEF IInv, RecordsFit, TypeOK, AccountTypes
<1>10. BrokerFenced'
    BY <1>1, <1>2, <1>3, OpsAssumption
    DEF IInv, BrokerFenced, SignOutKeepsBrokerFenced, TypeOK, AccountTypes
<1>11. GrantsFit'
    <2>1. "evaluated" \notin Written
        BY DEF Written
    <2> QED BY <1>1, <1>2, <1>3, <2>1 DEF IInv, GrantsFit, guardVars, TypeOK, AccountTypes
<1>12. StatusFits'
    BY <1>1, <1>2, <1>3 DEF IInv, StatusFits, guardVars, TypeOK, AccountTypes
<1> QED BY <1>4, <1>5, <1>6, <1>7, <1>8, <1>9, <1>10, <1>11, <1>12 DEF IInv, TypeOK

LEMMA RefuseSignInKeeps ==
    ASSUME IInv, NEW o \in Ops, RefuseSignIn(o)
    PROVE  IInv'
<1> USE DEF RefuseSignIn, Move, At, RunUnchanged
<1>1. /\ o # newest /\ o \notin physical /\ terminal[o] = "none" /\ publisher[o] = "none"
      /\ stage[o] = "none" /\ store.grant # o
    BY NotAdmitted
<1>2. \A x \in Ops : pc'[x] = IF x = o THEN "refused" ELSE pc[x]
    BY DEF Goto, IInv, TypeOK, OperationTypes
<1>3. /\ UNCHANGED <<shutdown, status, confirmedSignedOut, localQuarantine, newest, physical, kind>>
      /\ UNCHANGED <<connected, brokerQuarantined, brokerCommit, store, recovery, recovered>>
    BY DEF accountVars, tableVars, brokerVars, recoveryVars, requestVars
<1>4. AccountTypes' /\ OutsideTypes' /\ EventTypes'
    BY AccountTypesFrame, OutsideTypesFrame, EventTypesFrame DEF IInv, TypeOK
<1>5. OperationTypes'
    BY DEF IInv, TypeOK, OperationTypes, Goto, requestVars, CallerStates
<1>6. ThreadsFit'
    <2>1. /\ {"evaluated", "refused"} \cap (Running \cup SignOutStates \cup {"admitted"}) = {}
          /\ "refused" \notin SignInStates /\ ThreadsFit
        BY DEF Running, RunStates, SignInStates, SignOutStates, IInv
    <2>2. \A x \in Ops : x \in physical <=> pc'[x] \in Running
        BY <1>1, <1>2, <2>1 DEF ThreadsFit
    <2>3. newest # NoOp => pc'[newest] \in Running \cup {"done"}
        BY <1>1, <1>2, <2>1 DEF ThreadsFit, IInv, TypeOK, AccountTypes
    <2>4. \A x \in Ops :
             /\ pc'[x] \in SignInStates \cup {"evaluated", "refused"} => kind'[x] = "SignIn"
             /\ pc'[x] \in SignOutStates \cup {"admitted"} => kind'[x] = "SignOut"
        BY <1>2, <1>3, <2>1 DEF ThreadsFit
    <2>5. RecoveryInFlight' => physical = {}
        BY <1>3, <2>1 DEF ThreadsFit, RecoveryInFlight
    <2> QED BY <1>3, <2>1, <2>2, <2>3, <2>4, <2>5 DEF ThreadsFit
<1>7. \A x \in Ops : GuardFits(x)'
    BY <1>1, <1>2, <1>3 DEF IInv, GuardFits, guardVars
<1>8. \A x \in Ops : EventsFit(x)'
    BY <1>2 DEF IInv, EventsFit, eventVars, guardVars, CallerStates
<1>9. RecordsFit'
    BY <1>1, <1>2, <1>3 DEF IInv, RecordsFit, TypeOK, AccountTypes
<1>10. BrokerFenced'
    BY <1>1, <1>2, <1>3, OpsAssumption
    DEF IInv, BrokerFenced, SignOutKeepsBrokerFenced, TypeOK, AccountTypes
<1>11. GrantsFit'
    <2>1. "refused" \notin Written
        BY DEF Written
    <2> QED BY <1>1, <1>2, <1>3, <2>1 DEF IInv, GrantsFit, guardVars, TypeOK, AccountTypes
<1>12. StatusFits'
    BY <1>1, <1>2, <1>3 DEF IInv, StatusFits, guardVars, TypeOK, AccountTypes
<1> QED BY <1>4, <1>5, <1>6, <1>7, <1>8, <1>9, <1>10, <1>11, <1>12 DEF IInv, TypeOK

\* What both admissions begin: the newest operation, alone, and no status that
\* says anything of the record.
LEMMA BeginKeeps ==
    ASSUME IInv, NEW o \in Ops, NEW to, NEW s \in Transient,
           ~Busy, BeginOperation(o, s), Goto(o, to),
           \/ pc[o] = "evaluated" /\ to = "start" /\ UNCHANGED kind
           \/ pc[o] = "idle" /\ to = "admitted" /\ kind' = [kind EXCEPT ![o] = "SignOut"],
           UNCHANGED reauthentication
    PROVE  IInv'
<1> USE DEF BeginOperation, SetStatus
<1>1. /\ o # newest /\ o \notin physical /\ terminal[o] = "none" /\ publisher[o] = "none"
      /\ stage[o] = "none" /\ store.grant # o
    BY NotAdmitted
<1>2. \A x \in Ops : /\ pc'[x] = IF x = o THEN to ELSE pc[x]
                     /\ x # o => kind'[x] = kind[x]
                     /\ kind'[x] \in Kinds
    BY DEF Goto, IInv, TypeOK, OperationTypes, Kinds
<1>3. kind'[o] = IF to = "start" THEN "SignIn" ELSE "SignOut"
    <2>1. CASE pc[o] = "evaluated" /\ to = "start" /\ UNCHANGED kind
        BY <2>1 DEF IInv, ThreadsFit
    <2>2. CASE pc[o] = "idle" /\ to = "admitted" /\ kind' = [kind EXCEPT ![o] = "SignOut"]
        BY <2>2 DEF IInv, TypeOK, OperationTypes
    <2> QED BY <2>1, <2>2
<1>4. ~shutdown /\ ~shutdown' /\ ~RecoveryInFlight /\ physical = {} /\ physical' = {o} /\ newest' = o
    BY DEF Busy
<1>5. /\ status' \in Transient /\ confirmedSignedOut' = FALSE /\ UNCHANGED localQuarantine
      /\ UNCHANGED <<connected, brokerQuarantined, brokerCommit, store, recovery, recovered>>
    BY DEF brokerVars, recoveryVars
<1>6. AccountTypes'
    <2>1. status' \in States
        BY DEF States, Transient
    <2>2. sessionEpoch' \in Nat
        BY DEF IInv, TypeOK, AccountTypes
    <2>3. UNCHANGED <<shutdown, localQuarantine>> /\ confirmedSignedOut' = FALSE
        OBVIOUS
    <2>4. active' \subseteq Ops /\ physical' \subseteq Ops /\ newest' \in Ops
        BY DEF IInv, TypeOK, AccountTypes
    <2> QED BY <2>1, <2>2, <2>3, <2>4 DEF IInv, TypeOK, AccountTypes
<1>7. OutsideTypes' /\ EventTypes'
    BY OutsideTypesFrame, EventTypesFrame DEF IInv, TypeOK
<1>8. OperationTypes'
    <2>1. kind' \in [Ops -> Kinds]
        BY DEF IInv, TypeOK, OperationTypes, Kinds
    <2>2. pc' \in [Ops -> CallerStates \cup RunStates \cup {"done"}]
        BY DEF IInv, TypeOK, OperationTypes, Goto, CallerStates, RunStates, SignInStates
    <2>3. operationEpoch' \in [Ops -> Nat]
        BY DEF IInv, TypeOK, OperationTypes, AccountTypes
    <2> QED BY <2>1, <2>2, <2>3 DEF IInv, TypeOK, OperationTypes
<1>9. /\ to \in Running /\ to \notin SignOutStates \cup {"evaluated", "refused", "exit", "done"}
      /\ to \in SignInStates => to = "start"
      /\ to \in Unwritten /\ to \notin Written \cup Ended \cup {"finish", "reread", "discard"}
    BY DEF Running, RunStates, SignInStates, SignOutStates, Unwritten, Written, Ended, CallerStates
<1>10. \A x \in Ops : pc[x] \notin Running
    BY <1>4 DEF IInv, ThreadsFit
<1>11. ThreadsFit'
    BY <1>1, <1>2, <1>3, <1>4, <1>5, <1>9, <1>10 DEF IInv, ThreadsFit, RecoveryInFlight
<1>12. \A x \in Ops : GuardFits(x)'
    BY <1>1, <1>2 DEF IInv, GuardFits, guardVars
<1>13. \A x \in Ops : EventsFit(x)'
    BY <1>2 DEF IInv, EventsFit, eventVars, guardVars, CallerStates
<1>14. RecordsFit'
    BY <1>2, <1>4, <1>5 DEF IInv, RecordsFit
<1>15. BrokerFenced'
    BY <1>2, <1>4, <1>5, <1>9 DEF IInv, BrokerFenced, SignOutKeepsBrokerFenced
<1>16. GrantsFit'
    BY <1>1, <1>2, <1>4, <1>5, <1>9 DEF IInv, GrantsFit, guardVars
<1>17. StatusFits'
    BY <1>2, <1>4, <1>5, <1>9 DEF IInv, StatusFits, RecoveryInFlight, Transient
<1> QED BY <1>6, <1>7, <1>8, <1>11, <1>12, <1>13, <1>14, <1>15, <1>16, <1>17 DEF IInv, TypeOK

LEMMA CallerKeeps ==
    ASSUME IInv, NEW o \in Ops, Caller(o)
    PROVE  IInv'
<1>1. CASE AdmitSignIn(o)
    BY <1>1, BeginKeeps DEF AdmitSignIn, SignInRefused, Transient
<1>2. CASE StartSignOut(o)
    BY <1>2, BeginKeeps DEF StartSignOut, Transient
<1> QED BY <1>1, <1>2, EvaluateSignInKeeps, RefuseSignInKeeps, QuarantineForSignOutKeeps DEF Caller

-----------------------------------------------------------------------------
(* Terminals and events *)

\* Steps that change neither a place nor a terminal, and nothing the status is about.
LEMMA PlacesFrame ==
    ASSUME IInv,
           UNCHANGED <<shutdown, status, confirmedSignedOut, localQuarantine, newest, physical, kind, pc>>,
           UNCHANGED <<connected, brokerQuarantined, brokerCommit, store, recovery, recovered, terminal>>
    PROVE  ThreadsFit' /\ RecordsFit' /\ BrokerFenced' /\ GrantsFit' /\ StatusFits'
<1>1. ThreadsFit' /\ RecordsFit'
    BY DEF IInv, ThreadsFit, RecoveryInFlight, RecordsFit
<1>2. BrokerFenced' /\ GrantsFit'
    BY DEF IInv, BrokerFenced, SignOutKeepsBrokerFenced, GrantsFit
<1>3. StatusFits'
    BY DEF IInv, StatusFits
<1> QED BY <1>1, <1>2, <1>3

\* A signal, or the sign that the shutdown has cancelled an operation, changes none of it.
LEMMA SignalKeeps ==
    ASSUME IInv, OperationTypes', OutsideTypes',
           UNCHANGED <<accountVars, tableVars, brokerVars, store, recoveryVars, requestVars, runVars,
                       guardVars, eventVars>>
    PROVE  IInv'
<1>1. /\ UNCHANGED <<shutdown, status, confirmedSignedOut, localQuarantine, newest, physical, kind, pc>>
      /\ UNCHANGED <<connected, brokerQuarantined, brokerCommit, store, recovery, recovered, terminal>>
    BY DEF accountVars, tableVars, brokerVars, recoveryVars, requestVars, runVars, guardVars
<1>2. AccountTypes' /\ EventTypes'
    BY AccountTypesFrame, EventTypesFrame DEF IInv, TypeOK
<1>3. \A x \in Ops : GuardFits(x)' /\ EventsFit(x)'
    BY <1>1 DEF IInv, GuardFits, EventsFit, guardVars, eventVars
<1>4. ThreadsFit' /\ RecordsFit' /\ BrokerFenced' /\ GrantsFit' /\ StatusFits'
    BY <1>1, PlacesFrame
<1> QED BY <1>2, <1>3, <1>4 DEF IInv, TypeOK

LEMMA SignalsKeep ==
    ASSUME IInv, NEW o \in Ops, Cancel(o) \/ Expire(o) \/ ShutdownCancels(o)
    PROVE  IInv'
<1>1. OperationTypes'
    BY DEF Cancel, Expire, ShutdownCancels, NotEnding, IInv, TypeOK, OperationTypes, requestVars, runVars
<1>2. OutsideTypes'
    BY OutsideTypesFrame
    DEF Cancel, Expire, ShutdownCancels, NotEnding, IInv, TypeOK, OutsideTypes, brokerVars,
        recoveryVars, shutdownVars
<1> QED BY <1>1, <1>2, SignalKeeps DEF Cancel, Expire, ShutdownCancels, NotEnding

LEMMA MonitorKeeps ==
    ASSUME IInv, NEW o \in Ops, Monitor(o)
    PROVE  IInv'
<1> USE DEF Monitor, NotEnding
<1>1. /\ UNCHANGED <<shutdown, status, confirmedSignedOut, localQuarantine, newest, physical, kind, pc>>
      /\ UNCHANGED <<connected, brokerQuarantined, brokerCommit, store, recovery, recovered>>
    BY DEF accountVars, tableVars, brokerVars, recoveryVars, requestVars, runVars
<1>2. SignalKind(o) \in Terminals \ {"none", "Succeeded"}
    BY DEF SignalKind, Terminals
<1>3. TypeOK'
    BY <1>2, PublishTypes, AccountTypesFrame, OutsideTypesFrame, OperationTypesFrame
    DEF IInv, TypeOK
<1>4. \A x \in Ops : /\ terminal'[x] = IF x = o THEN SignalKind(o) ELSE terminal[x]
                     /\ publisher'[x] = IF x = o THEN "other" ELSE publisher[x]
                     /\ stage'[x] = IF x = o THEN "won" ELSE stage[x]
    BY DEF Publish, IInv, TypeOK, EventTypes
<1>5. terminal[o] = "none" /\ pc[o] \in RunStates \cup {"done"}
    BY DEF Admitted
<1>6. \A x \in Ops : GuardFits(x)'
    BY <1>1, <1>2, <1>4, <1>5 DEF IInv, GuardFits
<1>7. \A x \in Ops : EventsFit(x)'
    BY <1>1, <1>4, <1>5 DEF IInv, EventsFit, eventVars
<1>8. ThreadsFit' /\ RecordsFit' /\ BrokerFenced'
    <2>1. ThreadsFit' /\ RecordsFit'
        BY <1>1 DEF IInv, ThreadsFit, RecoveryInFlight, RecordsFit
    <2>2. BrokerFenced'
        BY <1>1 DEF IInv, BrokerFenced, SignOutKeepsBrokerFenced
    <2> QED BY <2>1, <2>2
<1>9. GrantsFit'
    BY <1>1, <1>2, <1>4, <1>5, OpsAssumption DEF IInv, GrantsFit, TypeOK, AccountTypes
<1>10. StatusFits'
    BY <1>1, <1>4, <1>5 DEF IInv, StatusFits, TypeOK, AccountTypes
<1> QED BY <1>3, <1>6, <1>7, <1>8, <1>9, <1>10 DEF IInv

\* A sign-in publishes its success before its thread ends, so it is still the newest.
LEMMA SuccessIsNewest ==
    ASSUME IInv, NEW o \in Ops, stage[o] # "none", terminal[o] = "Succeeded", kind[o] = "SignIn"
    PROVE  newest = o /\ physical = {o} /\ store.grant = o
<1>1. pc[o] = "exit"
    BY DEF IInv, GuardFits
<1>2. newest = o /\ newest # NoOp /\ physical = {o}
    BY <1>1, Alone DEF IInv, Running, RunStates
<1> QED BY <1>2 DEF IInv, GrantsFit

LEMMA OnOperationTerminalKeeps ==
    ASSUME IInv, NEW o \in Ops, OnOperationTerminal(o)
    PROVE  IInv'
<1> USE DEF OnOperationTerminal
<1>1. /\ UNCHANGED <<shutdown, localQuarantine, newest, physical, kind, pc, terminal, publisher>>
      /\ UNCHANGED <<connected, brokerQuarantined, brokerCommit, store, recovery, recovered>>
    BY DEF brokerVars, recoveryVars, requestVars, runVars
<1>2. \A x \in Ops : stage'[x] = IF x = o THEN "settled" ELSE stage[x]
    BY DEF IInv, TypeOK, EventTypes
<1>3. terminal[o] # "none" /\ stage[o] = "won"
    BY DEF IInv, GuardFits
<1>4. /\ status' = status \/ (~shutdown /\ status' = TerminalState(o, terminal[o]))
      /\ confirmedSignedOut' => confirmedSignedOut
      /\ confirmedSignedOut' \in BOOLEAN
    BY DEF IInv, TypeOK, AccountTypes
<1>5. TypeOK'
    <2>1. AccountTypes'
        <3>1. status' \in States
            BY <1>4 DEF TerminalState, States, IInv, TypeOK, AccountTypes
        <3> QED BY <1>4, <3>1 DEF IInv, TypeOK, AccountTypes
    <2>2. EventTypes'
        BY DEF IInv, TypeOK, EventTypes, eventVars
    <2> QED BY <2>1, <2>2, OutsideTypesFrame, OperationTypesFrame DEF IInv, TypeOK
<1>6. \A x \in Ops : GuardFits(x)'
    BY <1>1, <1>2, <1>3 DEF IInv, GuardFits
<1>7. \A x \in Ops : EventsFit(x)'
    BY <1>1, <1>2, <1>3 DEF IInv, EventsFit, eventVars
<1>8. ThreadsFit' /\ RecordsFit' /\ BrokerFenced' /\ GrantsFit'
    <2>1. ThreadsFit' /\ RecordsFit'
        BY <1>1 DEF IInv, ThreadsFit, RecoveryInFlight, RecordsFit
    <2>2. BrokerFenced' /\ GrantsFit'
        BY <1>1 DEF IInv, BrokerFenced, SignOutKeepsBrokerFenced, GrantsFit
    <2> QED BY <2>1, <2>2
<1>9. StatusFits'
    <2>1. CASE status' = status
        BY <1>1, <1>4, <2>1 DEF IInv, StatusFits
    <2>2. CASE status' = TerminalState(o, terminal[o]) /\ status' = "Ready"
        <3>1. terminal[o] = "Succeeded" /\ kind[o] = "SignIn"
            BY <2>2 DEF TerminalState
        <3>2. physical = {o} /\ store.grant = o /\ o \notin {"none", "damaged"}
            BY <1>3, <3>1, SuccessIsNewest, OpsAssumption
        <3> QED BY <1>1, <1>4, <3>1, <3>2 DEF IInv, StatusFits
    <2>3. CASE status' # "Ready"
        BY <1>1, <1>4, <2>3 DEF IInv, StatusFits
    <2> QED BY <1>4, <2>1, <2>2, <2>3
<1> QED BY <1>5, <1>6, <1>7, <1>8, <1>9 DEF IInv

\* The four queues an operation can have.
LEMMA QueuesDiffer ==
    /\ <<>> # <<"Interaction">> /\ <<>> # <<"Terminal">> /\ <<>> # <<"Interaction", "Terminal">>
    /\ <<"Interaction">> # <<"Terminal">> /\ <<"Interaction">> # <<"Interaction", "Terminal">>
    /\ <<"Terminal">> # <<"Interaction", "Terminal">>
<1>1. Len(<<>>) = 0 /\ Len(<<"Interaction">>) = 1 /\ Len(<<"Terminal">>) = 1
      /\ Len(<<"Interaction", "Terminal">>) = 2
    OBVIOUS
<1>2. <<"Interaction">>[1] # <<"Terminal">>[1]
    OBVIOUS
<1> QED BY <1>1, <1>2

LEMMA QueueAppends ==
    /\ Append(<<>>, "Terminal") = <<"Terminal">>
    /\ Append(<<>>, "Interaction") = <<"Interaction">>
    /\ Append(<<"Interaction">>, "Terminal") = <<"Interaction", "Terminal">>
<1>1. Append(<<>>, "Terminal") = <<"Terminal">>
    OBVIOUS
<1>2. Append(<<>>, "Interaction") = <<"Interaction">>
    OBVIOUS
<1>3. Append(<<"Interaction">>, "Terminal") = <<"Interaction", "Terminal">>
    <2> DEFINE S == {"Interaction", "Terminal"}
               a == Append(<<"Interaction">>, "Terminal")
               b == <<"Interaction", "Terminal">>
    <2>1. <<"Interaction">> \in Seq(S) /\ b \in Seq(S) /\ "Terminal" \in S
        OBVIOUS
    <2>2. a \in Seq(S) /\ Len(a) = 2 /\ Len(b) = 2
        BY <2>1
    <2>3. a[1] = b[1] /\ a[2] = b[2]
        BY <2>1
    <2>4. \A i \in 1 .. Len(a) : a[i] = b[i]
        BY <2>2, <2>3
    <2> QED BY <2>1, <2>2, <2>4, SeqEqual
<1> QED BY <1>1, <1>2, <1>3

LEMMA QueueHeads ==
    /\ Head(<<"Interaction">>) = "Interaction" /\ Tail(<<"Interaction">>) = <<>>
    /\ Len(<<"Interaction">>) = 1
    /\ Head(<<"Terminal">>) = "Terminal" /\ Tail(<<"Terminal">>) = <<>> /\ Len(<<"Terminal">>) = 1
    /\ Head(<<"Interaction", "Terminal">>) = "Interaction"
    /\ Tail(<<"Interaction", "Terminal">>) = <<"Terminal">> /\ Len(<<"Interaction", "Terminal">>) = 2
<1>1. /\ Head(<<"Interaction">>) = "Interaction" /\ Len(<<"Interaction">>) = 1
      /\ Head(<<"Terminal">>) = "Terminal" /\ Len(<<"Terminal">>) = 1
      /\ Head(<<"Interaction", "Terminal">>) = "Interaction" /\ Len(<<"Interaction", "Terminal">>) = 2
    OBVIOUS
<1>2. Tail(<<"Interaction">>) = <<>>
    OBVIOUS
<1>3. Tail(<<"Terminal">>) = <<>>
    OBVIOUS
<1>4. Tail(<<"Interaction", "Terminal">>) = <<"Terminal">>
    OBVIOUS
<1> QED BY <1>1, <1>2, <1>3, <1>4

\* What the steps that queue and deliver events leave alone.
LEMMA EventStepKeeps ==
    ASSUME IInv, EventTypes',
           UNCHANGED <<accountVars, tableVars, brokerVars, store, recoveryVars, shutdownVars, requestVars,
                       runVars, signal, terminal>>,
           \A x \in Ops : GuardFits(x)' /\ EventsFit(x)'
    PROVE  IInv'
<1>1. /\ UNCHANGED <<shutdown, status, confirmedSignedOut, localQuarantine, newest, physical, kind, pc>>
      /\ UNCHANGED <<connected, brokerQuarantined, brokerCommit, store, recovery, recovered, terminal>>
    BY DEF accountVars, tableVars, brokerVars, recoveryVars, requestVars, runVars
<1>2. AccountTypes' /\ OutsideTypes' /\ OperationTypes'
    BY AccountTypesFrame, OutsideTypesFrame, OperationTypesFrame DEF IInv, TypeOK
<1> QED BY <1>1, <1>2, PlacesFrame DEF IInv, TypeOK

LEMMA QueueTerminalKeeps ==
    ASSUME IInv, NEW o \in Ops, QueueTerminal(o)
    PROVE  IInv'
<1> USE DEF QueueTerminal, EndPublication
<1>1. GuardFits(o) /\ EventsFit(o) /\ EventTypes
    BY DEF IInv, TypeOK
<1>2. pending[o] \in {<<>>, <<"Interaction">>} /\ publisher[o] \in {"run", "other"}
    BY <1>1 DEF GuardFits, EventsFit, EventTypes
<1>3. Append(pending[o], "Terminal") =
        IF pending[o] = <<>> THEN <<"Terminal">> ELSE <<"Interaction", "Terminal">>
    BY <1>2, QueueAppends, QueuesDiffer
<1>4. /\ pending'[o] = IF pending[o] = <<>> THEN <<"Terminal">> ELSE <<"Interaction", "Terminal">>
      /\ \A x \in Ops : x # o => pending'[x] = pending[x]
    BY <1>1, <1>3 DEF EventTypes
<1>5. \A x \in Ops : /\ stage'[x] = IF x = o THEN "none" ELSE stage[x]
                     /\ publisher'[x] = IF x = o THEN "none" ELSE publisher[x]
    BY <1>1 DEF EventTypes
<1>6. /\ \A x \in Ops : x # o => drainer'[x] = drainer[x]
      /\ drainer'[o] # "none"
    BY <1>1, <1>2 DEF EventTypes
<1>7. EventTypes'
    <2>1. <<"Terminal">> \in Seq({"Interaction", "Terminal"})
          /\ <<"Interaction", "Terminal">> \in Seq({"Interaction", "Terminal"})
        OBVIOUS
    <2>2. pending' \in [Ops -> Seq({"Interaction", "Terminal"})]
        BY <1>1, <1>3, <2>1 DEF EventTypes
    <2>3. drainer' \in [Ops -> {"none", "run", "other"}]
        BY <1>1, <1>2 DEF EventTypes
    <2>4. stage' \in [Ops -> {"none", "won", "settled"}] /\ publisher' \in [Ops -> {"none", "run", "other"}]
        BY <1>1 DEF EventTypes
    <2> QED BY <1>1, <2>2, <2>3, <2>4 DEF EventTypes
<1>8. \A x \in Ops : GuardFits(x)'
    BY <1>1, <1>5 DEF IInv, GuardFits, requestVars, runVars
<1>9. \A x \in Ops : EventsFit(x)'
    <2>1. EventsFit(o)'
        BY <1>1, <1>2, <1>4, <1>5, <1>6 DEF EventsFit, GuardFits, runVars
    <2>2. \A x \in Ops : x # o => EventsFit(x)'
        BY <1>4, <1>5, <1>6 DEF IInv, EventsFit, runVars
    <2> QED BY <2>1, <2>2
<1> QED BY <1>7, <1>8, <1>9, EventStepKeeps

LEMMA DrainKeeps ==
    ASSUME IInv, NEW o \in Ops, DrainQueuedEvents(o)
    PROVE  IInv'
<1> USE DEF DrainQueuedEvents
<1>1. GuardFits(o) /\ EventsFit(o) /\ EventTypes
    BY DEF IInv, TypeOK
<1>2. pending[o] \in {<<"Interaction">>, <<"Terminal">>, <<"Interaction", "Terminal">>}
    BY <1>1 DEF EventsFit
<1>3. /\ Head(pending[o]) = IF pending[o] = <<"Terminal">> THEN "Terminal" ELSE "Interaction"
      /\ Tail(pending[o]) = IF pending[o] = <<"Interaction", "Terminal">> THEN <<"Terminal">> ELSE <<>>
      /\ Len(pending[o]) = 1 <=> pending[o] # <<"Interaction", "Terminal">>
    <2>1. CASE pending[o] = <<"Interaction">>
        BY <2>1, QueueHeads, QueuesDiffer
    <2>2. CASE pending[o] = <<"Terminal">>
        BY <2>2, QueueHeads, QueuesDiffer
    <2>3. CASE pending[o] = <<"Interaction", "Terminal">>
        BY <2>3, QueueHeads, QueuesDiffer
    <2> QED BY <1>2, <2>1, <2>2, <2>3
<1>4. /\ pending'[o] = IF pending[o] = <<"Interaction", "Terminal">> THEN <<"Terminal">> ELSE <<>>
      /\ delivered'[o] = IF pending[o] = <<"Terminal">> THEN "Terminal" ELSE "Interaction"
      /\ drainer'[o] = IF pending[o] = <<"Interaction", "Terminal">> THEN drainer[o] ELSE "none"
    BY <1>1, <1>3 DEF EventTypes
<1>5. \A x \in Ops : x # o => /\ pending'[x] = pending[x] /\ delivered'[x] = delivered[x]
                              /\ drainer'[x] = drainer[x]
    BY <1>1 DEF EventTypes
<1>6. EventTypes'
    <2>1. <<"Terminal">> \in Seq({"Interaction", "Terminal"}) /\ <<>> \in Seq({"Interaction", "Terminal"})
        OBVIOUS
    <2>2. pending' \in [Ops -> Seq({"Interaction", "Terminal"})]
        BY <1>1, <1>3, <2>1 DEF EventTypes
    <2>3. drainer' \in [Ops -> {"none", "run", "other"}]
        BY <1>1 DEF EventTypes
    <2>4. delivered' \in [Ops -> {"none", "Interaction", "Terminal"}]
        BY <1>1, <1>3 DEF EventTypes
    <2> QED BY <1>1, <2>2, <2>3, <2>4 DEF EventTypes, guardVars
<1>7. \A x \in Ops : GuardFits(x)'
    BY DEF IInv, GuardFits, requestVars, runVars, guardVars
<1>8. \A x \in Ops : EventsFit(x)'
    <2>1. EventsFit(o)'
        BY <1>1, <1>2, <1>4, QueuesDiffer DEF EventsFit, runVars, guardVars
    <2>2. \A x \in Ops : x # o => EventsFit(x)'
        BY <1>5 DEF IInv, EventsFit, runVars, guardVars
    <2> QED BY <2>1, <2>2
<1> QED BY <1>6, <1>7, <1>8, EventStepKeeps DEF guardVars

LEMMA PublishInteractionKeeps ==
    ASSUME IInv, NEW o \in Ops, PublishInteraction(o)
    PROVE  IInv'
<1> USE DEF PublishInteraction, At
<1>1. TypeOK /\ GuardFits(o) /\ EventsFit(o)
    BY DEF IInv
<1>2. pending[o] = <<>> /\ delivered[o] = "none" /\ drainer[o] = "none"
    BY <1>1 DEF EventsFit, TypeOK, EventTypes
<1>3. Leads(o, "instructed")
    BY DEF Leads, Running, RunStates, SignInStates, SignOutStates
<1>4. /\ newest = o /\ newest # NoOp /\ physical = {o} /\ ~RecoveryInFlight
      /\ \A x \in Ops \ {o} : pc[x] \notin Running
    BY <1>3, Alone DEF IInv, Leads
<1>5. \A x \in Ops : pc'[x] = IF x = o THEN "instructed" ELSE pc[x]
    BY <1>1, <1>3 DEF Leads, Goto, TypeOK, OperationTypes
<1>6. /\ UNCHANGED <<shutdown, status, confirmedSignedOut, localQuarantine, newest, physical, kind>>
      /\ UNCHANGED <<connected, brokerQuarantined, brokerCommit, store, recovery, recovered, terminal>>
    BY DEF accountVars, tableVars, brokerVars, recoveryVars, requestVars, guardVars
<1>7. /\ pending' = [pending EXCEPT ![o] = <<"Interaction">>]
      /\ drainer' = [drainer EXCEPT ![o] = "run"]
    BY <1>1, <1>2 DEF TypeOK, EventTypes
<1>8. EventTypes'
    <2>1. <<"Interaction">> \in Seq({"Interaction", "Terminal"})
        OBVIOUS
    <2>2. pending' \in [Ops -> Seq({"Interaction", "Terminal"})]
        BY <1>1, <1>7, <2>1 DEF TypeOK, EventTypes
    <2>3. drainer' \in [Ops -> {"none", "run", "other"}]
        BY <1>1, <1>7 DEF TypeOK, EventTypes
    <2> QED BY <1>1, <2>2, <2>3 DEF TypeOK, EventTypes, guardVars
<1>9. TypeOK'
    <2>1. OperationTypes'
        BY <1>1, <1>3, GotoTypes DEF TypeOK, Places, Leads
    <2> QED BY <1>1, <1>8, <2>1, AccountTypesFrame, OutsideTypesFrame DEF TypeOK
<1>10. ThreadsFit'
    BY <1>3, <1>6, ThreadsKept DEF IInv
<1>11. \A x \in Ops : GuardFits(x)'
    BY <1>3, <1>6, GuardsKept DEF IInv
<1>12. \A x \in Ops : EventsFit(x)'
    <2>1. EventsFit(o)'
        <3>1. pending'[o] = <<"Interaction">> /\ drainer'[o] = "run"
            BY <1>1, <1>7 DEF TypeOK, EventTypes
        <3>2. delivered'[o] = "none" /\ pc'[o] = "instructed"
            BY <1>2, <1>5
        <3> QED BY <3>1, <3>2, QueuesDiffer DEF EventsFit, CallerStates
    <2>2. \A x \in Ops : x # o => EventsFit(x)'
        <3>1. \A x \in Ops : x # o => /\ pending'[x] = pending[x] /\ drainer'[x] = drainer[x]
                                      /\ pc'[x] = pc[x]
            BY <1>1, <1>5, <1>7 DEF TypeOK, EventTypes
        <3> QED BY <3>1 DEF IInv, EventsFit, guardVars
    <2> QED BY <2>1, <2>2
<1>13. RecordsFit' /\ BrokerFenced'
    <2>1. RecordsFit'
        BY <1>4, <1>5, <1>6 DEF IInv, RecordsFit, Ended
    <2>2. BrokerFenced'
        BY <1>4, <1>5, <1>6
        DEF IInv, BrokerFenced, SignOutKeepsBrokerFenced, SignOutStates
    <2> QED BY <2>1, <2>2
<1>14. GrantsFit'
    BY <1>4, <1>5, <1>6 DEF IInv, GrantsFit, Unwritten, Written, Ended, CallerStates, SignOutStates
<1>15. StatusFits'
    BY <1>4, <1>5, <1>6 DEF IInv, StatusFits
<1> QED BY <1>9, <1>10, <1>11, <1>12, <1>13, <1>14, <1>15 DEF IInv

-----------------------------------------------------------------------------
(* The recovery, the broker and the shutdown *)

\* What a step beside the operations leaves them.
Beside ==
    /\ ThreadsFit' /\ \A x \in Ops : GuardFits(x)' /\ EventsFit(x)'
    /\ AccountTypes' /\ OutsideTypes' /\ OperationTypes' /\ EventTypes'
    /\ UNCHANGED <<newest, physical, kind, pc, terminal>>
    /\ physical \subseteq Ops

LEMMA BesideKeeps ==
    ASSUME IInv, AccountTypes', OutsideTypes',
           UNCHANGED <<tableVars, requestVars, runVars, signal, guardVars, eventVars>>,
           RecoveryInFlight' => physical = {}
    PROVE  Beside
<1>1. UNCHANGED <<newest, physical, kind, pc, terminal>>
    BY DEF tableVars, requestVars, runVars, guardVars
<1>2. ThreadsFit'
    BY <1>1 DEF IInv, ThreadsFit
<1>3. \A x \in Ops : GuardFits(x)' /\ EventsFit(x)'
    BY <1>1 DEF IInv, GuardFits, EventsFit, guardVars, eventVars
<1>4. OperationTypes' /\ EventTypes'
    BY OperationTypesFrame, EventTypesFrame DEF IInv, TypeOK
<1> QED BY <1>1, <1>2, <1>3, <1>4 DEF Beside, IInv, TypeOK, AccountTypes

LEMMA SetCredentialBrokerKeeps ==
    ASSUME IInv, SetCredentialBroker
    PROVE  IInv'
<1> USE DEF SetCredentialBroker
<1>1. AccountTypes' /\ OutsideTypes'
    BY AccountTypesFrame DEF IInv, TypeOK, OutsideTypes, tableVars, recoveryVars, shutdownVars
<1>2. Beside
    BY <1>1, BesideKeeps DEF IInv, ThreadsFit, RecoveryInFlight, recoveryVars
<1>3. \A x \in Ops : pc[x] \notin Running
    BY OpsAssumption DEF IInv, ThreadsFit
<1>4. RecordsFit'
    BY DEF IInv, RecordsFit
<1>5. BrokerFenced' /\ GrantsFit'
    BY <1>2, <1>3 DEF IInv, BrokerFenced, SignOutKeepsBrokerFenced, GrantsFit, Beside, Running,
        RunStates, SignInStates
<1>6. StatusFits'
    BY <1>2 DEF IInv, StatusFits, Beside, accountVars, recoveryVars
<1> QED BY <1>2, <1>4, <1>5, <1>6 DEF IInv, TypeOK, Beside

LEMMA StartRecoveryKeeps ==
    ASSUME IInv, StartStoredSessionRecovery
    PROVE  IInv'
<1> USE DEF StartStoredSessionRecovery, SetStatus, OperationsUnchanged
<1>1. AccountTypes' /\ OutsideTypes'
    <2>1. AccountTypes'
        BY DEF IInv, TypeOK, AccountTypes, States, tableVars
    <2>2. OutsideTypes'
        BY DEF IInv, TypeOK, OutsideTypes, AccountTypes, brokerVars, shutdownVars
    <2> QED BY <2>1, <2>2
<1>2. Beside
    BY <1>1, BesideKeeps
<1>3. RecordsFit' /\ BrokerFenced' /\ GrantsFit'
    BY <1>2 DEF IInv, RecordsFit, BrokerFenced, SignOutKeepsBrokerFenced, GrantsFit, Beside, brokerVars
<1>4. StatusFits'
    BY <1>2 DEF IInv, StatusFits, Beside
<1> QED BY <1>2, <1>3, <1>4 DEF IInv, TypeOK, Beside

LEMMA RecoveryLoadKeeps ==
    ASSUME IInv, RecoveryLoad
    PROVE  IInv'
<1> USE DEF RecoveryLoad, OperationsUnchanged
<1>1. /\ recovered' = "SignedOut" => store = NoRecord
      /\ recovered' = "Ready" => store.grant \notin {"none", "damaged"}
      /\ recovered' \in States
    BY DEF IInv, RecordsFit, States
<1>2. AccountTypes' /\ OutsideTypes'
    BY <1>1, AccountTypesFrame DEF IInv, TypeOK, OutsideTypes, brokerVars, shutdownVars
<1>3. Beside
    BY <1>2, BesideKeeps DEF IInv, ThreadsFit, RecoveryInFlight
<1>4. RecordsFit' /\ BrokerFenced' /\ GrantsFit'
    BY <1>3 DEF IInv, RecordsFit, BrokerFenced, SignOutKeepsBrokerFenced, GrantsFit, Beside,
        brokerVars, accountVars
<1>5. StatusFits'
    BY <1>1, <1>3 DEF IInv, StatusFits, Beside, accountVars
<1> QED BY <1>3, <1>4, <1>5 DEF IInv, TypeOK, Beside

LEMMA RecoveryApplyKeeps ==
    ASSUME IInv, RecoveryApply
    PROVE  IInv'
<1> USE DEF OperationsUnchanged
<1> DEFINE s == IF localQuarantine /\ recovered # "SignedOut" THEN "Reauthenticate" ELSE recovered
<1>1. /\ recovery = "apply"
      /\ UNCHANGED <<shutdown, sessionEpoch, recoveryEpoch, brokerVars, store, OperationsUnchanged>>
      /\ \/ recovery' = "exit" /\ UNCHANGED <<accountVars, recovered>>
         \/ /\ SetStatus(s, s = "SignedOut", s = "Reauthenticate")
            /\ recovered' = s
            /\ recovery' \in {"tell", "exit"}
    BY DEF RecoveryApply
<1>2. physical = {}
    BY <1>1 DEF IInv, ThreadsFit, RecoveryInFlight
<1>3. CASE recovery' = "exit" /\ UNCHANGED <<accountVars, recovered>>
    <2>1. AccountTypes' /\ OutsideTypes'
        BY <1>1, <1>3, AccountTypesFrame DEF IInv, TypeOK, OutsideTypes, brokerVars, shutdownVars
    <2>2. Beside
        BY <1>1, <1>2, <2>1, BesideKeeps
    <2>3. RecordsFit' /\ BrokerFenced' /\ GrantsFit'
        BY <1>1, <1>3, <2>2 DEF IInv, RecordsFit, BrokerFenced, SignOutKeepsBrokerFenced, GrantsFit,
            Beside, brokerVars, accountVars
    <2>4. StatusFits'
        BY <1>1, <1>3, <2>2 DEF IInv, StatusFits, Beside, accountVars
    <2> QED BY <2>2, <2>3, <2>4 DEF IInv, TypeOK, Beside
<1>4. ASSUME SetStatus(s, s = "SignedOut", s = "Reauthenticate"), recovered' = s,
             recovery' \in {"tell", "exit"}
      PROVE  IInv'
    <2>1. /\ status' = s /\ confirmedSignedOut' = (s = "SignedOut")
          /\ localQuarantine' = (s = "Reauthenticate")
        BY <1>4 DEF SetStatus
    <2>2. s \in States
        BY DEF IInv, TypeOK, OutsideTypes, States
    <2>3. /\ s = "SignedOut" => store = NoRecord
          /\ s = "Ready" => store.grant \notin {"none", "damaged"}
          /\ localQuarantine => s = "Reauthenticate" \/ store = NoRecord
        BY <1>1 DEF IInv, StatusFits
    <2> HIDE DEF s
    <2>4. AccountTypes'
        <3>1. confirmedSignedOut' \in BOOLEAN /\ localQuarantine' \in BOOLEAN
            BY <2>1
        <3> QED BY <1>1, <2>1, <2>2, <3>1 DEF IInv, TypeOK, AccountTypes, tableVars
    <2>5. OutsideTypes'
        BY <1>1, <1>4, <2>2 DEF IInv, TypeOK, OutsideTypes, brokerVars, shutdownVars
    <2>6. Beside
        BY <1>1, <1>2, <2>4, <2>5, BesideKeeps
    <2>7. RecordsFit' /\ BrokerFenced'
        BY <1>1, <2>6 DEF IInv, RecordsFit, BrokerFenced, SignOutKeepsBrokerFenced, Beside, brokerVars
    <2>8. GrantsFit'
        <3>1. UNCHANGED <<shutdown, store, connected, brokerQuarantined>>
            BY <1>1 DEF brokerVars
        <3>2. localQuarantine /\ store.grant \in Ops => localQuarantine'
            <4>1. store = NoRecord => store.grant \notin Ops
                BY OpsAssumption DEF NoRecord
            <4> QED BY <2>1, <2>3, <4>1
        <3> QED BY <2>6, <3>1, <3>2, OpsAssumption DEF IInv, GrantsFit, Beside, TypeOK, AccountTypes
    <2>9. StatusFits'
        <3>1. UNCHANGED store /\ physical' = {} /\ recovery' # "apply"
            BY <1>1, <1>2, <1>4, <2>6 DEF Beside
        <3>2. /\ status' = "Ready" => store.grant \notin {"none", "damaged"}
              /\ confirmedSignedOut' => store = NoRecord
            BY <2>1, <2>3
        <3> QED BY <2>6, <3>1, <3>2 DEF IInv, StatusFits, Beside
    <2> QED BY <2>6, <2>7, <2>8, <2>9 DEF IInv, TypeOK, Beside
<1> QED BY <1>1, <1>3, <1>4

LEMMA RecoveryEndKeeps ==
    ASSUME IInv, RecoveryTellsBroker \/ OnRecoveryPhysicalComplete
    PROVE  IInv'
<1> USE DEF RecoveryTellsBroker, OnRecoveryPhysicalComplete, OperationsUnchanged
<1>1. /\ brokerQuarantined => brokerQuarantined'
      /\ \/ brokerCommit' = NoRecord
         \/ brokerCommit' = brokerCommit /\ brokerQuarantined' = brokerQuarantined
      /\ UNCHANGED <<accountVars, connected, store>>
      /\ recovery' \in {"exit", "done"} /\ recovery \in {"tell", "exit"}
      /\ brokerQuarantined' \in BOOLEAN
      /\ recovered' \in States /\ recoveryEpoch' \in Nat /\ UNCHANGED shutdownVars
    <2>1. brokerQuarantined \in BOOLEAN /\ recovered \in States /\ recoveryEpoch \in Nat
        BY DEF IInv, TypeOK, OutsideTypes
    <2>2. CASE RecoveryTellsBroker
        BY <2>1, <2>2
    <2>3. CASE OnRecoveryPhysicalComplete
        BY <2>1, <2>3 DEF brokerVars, States
    <2> QED BY <2>2, <2>3
<1>2. AccountTypes' /\ OutsideTypes'
    <2>1. NoRecord \in Records
        BY DEF Records, NoRecord, Grants
    <2>2. OutsideTypes'
        BY <1>1, <2>1 DEF IInv, TypeOK, OutsideTypes, shutdownVars
    <2> QED BY <2>2, AccountTypesFrame DEF IInv, TypeOK
<1>3. Beside
    BY <1>1, <1>2, BesideKeeps DEF IInv, ThreadsFit, RecoveryInFlight
<1>4. RecordsFit'
    BY <1>1, <1>3 DEF IInv, RecordsFit, Beside, accountVars
<1>5. BrokerFenced' /\ GrantsFit'
    BY <1>1, <1>3 DEF IInv, BrokerFenced, SignOutKeepsBrokerFenced, GrantsFit, Beside, accountVars
<1>6. StatusFits'
    BY <1>1, <1>3 DEF IInv, StatusFits, Beside, accountVars
<1> QED BY <1>3, <1>4, <1>5, <1>6 DEF IInv, TypeOK, Beside

LEMMA BeginShutdownKeeps ==
    ASSUME IInv, BeginShutdown
    PROVE  IInv'
<1> USE DEF BeginShutdown, SetStatus
<1>1. AccountTypes' /\ OutsideTypes'
    <2>1. AccountTypes'
        <3>1. sessionEpoch' \in Nat /\ UNCHANGED localQuarantine
            BY DEF IInv, TypeOK, AccountTypes
        <3>2. shutdown' \in BOOLEAN /\ confirmedSignedOut' \in BOOLEAN /\ status' \in States
            BY DEF States
        <3> QED BY <3>1, <3>2 DEF IInv, TypeOK, AccountTypes, tableVars
    <2>2. OutsideTypes'
        BY DEF IInv, TypeOK, OutsideTypes, AccountTypes, brokerVars, recoveryVars
    <2> QED BY <2>1, <2>2
<1>2. Beside
    BY <1>1, BesideKeeps DEF IInv, ThreadsFit, RecoveryInFlight, recoveryVars
<1>3. RecordsFit'
    BY <1>2 DEF IInv, RecordsFit, Beside, brokerVars
<1>4. BrokerFenced' /\ GrantsFit'
    BY <1>2 DEF IInv, BrokerFenced, SignOutKeepsBrokerFenced, GrantsFit, Beside, brokerVars
<1>5. StatusFits'
    BY <1>2 DEF IInv, StatusFits, Beside, recoveryVars
<1> QED BY <1>2, <1>3, <1>4, <1>5 DEF IInv, TypeOK, Beside

LEMMA QuarantinesKeep ==
    ASSUME IInv, ShutdownQuarantines \/ BrokerQuarantines
    PROVE  IInv'
<1> USE DEF ShutdownQuarantines, BrokerQuarantines, OperationsUnchanged, QuarantineBroker
<1>1. /\ brokerQuarantined => brokerQuarantined'
      /\ brokerCommit' = NoRecord
      /\ UNCHANGED <<accountVars, connected, store, recovery, recovered>>
    BY DEF IInv, RecordsFit, recoveryVars
<1>2. AccountTypes' /\ OutsideTypes'
    <2>1. OutsideTypes'
        BY <1>1 DEF IInv, TypeOK, OutsideTypes, recoveryVars, shutdownVars, Records, NoRecord, Grants
    <2> QED BY <2>1, AccountTypesFrame DEF IInv, TypeOK
<1>3. Beside
    BY <1>1, <1>2, BesideKeeps DEF IInv, ThreadsFit, RecoveryInFlight
<1>4. RecordsFit'
    BY <1>1, <1>3 DEF IInv, RecordsFit
<1>5. BrokerFenced' /\ GrantsFit'
    BY <1>1, <1>3 DEF IInv, BrokerFenced, SignOutKeepsBrokerFenced, GrantsFit, Beside, accountVars
<1>6. StatusFits'
    BY <1>1, <1>3 DEF IInv, StatusFits, Beside, accountVars
<1> QED BY <1>3, <1>4, <1>5, <1>6 DEF IInv, TypeOK, Beside

LEMMA BrokerLoadsKeeps ==
    ASSUME IInv, BrokerLoads
    PROVE  IInv'
<1> USE DEF BrokerLoads, OperationsUnchanged, QuarantineBroker
<1>1. /\ brokerQuarantined => brokerQuarantined'
      /\ connected /\ UNCHANGED <<accountVars, connected, store, recovery, recovered>>
      /\ \/ brokerCommit' = NoRecord
         \/ brokerCommit' = store /\ store # NoRecord /\ ~brokerQuarantined'
    BY DEF recoveryVars
<1>2. AccountTypes' /\ OutsideTypes'
    <2>1. OutsideTypes'
        BY <1>1 DEF IInv, TypeOK, OutsideTypes, recoveryVars, shutdownVars, Records, NoRecord, Grants
    <2> QED BY <2>1, AccountTypesFrame DEF IInv, TypeOK
<1>3. Beside
    BY <1>1, <1>2, BesideKeeps DEF IInv, ThreadsFit, RecoveryInFlight
<1>4. RecordsFit'
    BY <1>1 DEF IInv, RecordsFit, TypeOK, OutsideTypes, Records
<1>5. BrokerFenced' /\ GrantsFit'
    BY <1>1, <1>3 DEF IInv, BrokerFenced, SignOutKeepsBrokerFenced, GrantsFit, Beside, accountVars
<1>6. StatusFits'
    BY <1>1, <1>3 DEF IInv, StatusFits, Beside, accountVars
<1> QED BY <1>3, <1>4, <1>5, <1>6 DEF IInv, TypeOK, Beside

LEMMA BrokerCommitsKeeps ==
    ASSUME IInv, BrokerCommits
    PROVE  IInv'
<1> USE DEF BrokerCommits, OperationsUnchanged
<1>1. store \in Records /\ brokerCommit \in Records
    BY DEF IInv, TypeOK, OutsideTypes
<1>2. \/ UNCHANGED store
      \/ /\ store' = [rev |-> store.rev + 1, grant |-> store.grant]
         /\ store.rev > 0 /\ store # NoRecord
    <2>1. CASE store.rev = brokerCommit.rev /\ store.rev < MaxRevision
        <3>1. brokerCommit.rev > 0 /\ brokerCommit.grant = store.grant
            BY <2>1 DEF IInv, RecordsFit
        <3>2. store.rev > 0 /\ store # NoRecord
            BY <2>1, <3>1 DEF NoRecord
        <3> QED BY <2>1, <3>1, <3>2
    <2> QED BY <2>1
<1>3. store'.grant = store.grant /\ store' \in Records /\ (store = NoRecord => store' = NoRecord)
    BY <1>1, <1>2 DEF Records
<1>4. AccountTypes' /\ OutsideTypes'
    <2>1. OutsideTypes'
        BY <1>3 DEF IInv, TypeOK, OutsideTypes, recoveryVars, shutdownVars, Records, NoRecord, Grants
    <2> QED BY <2>1, AccountTypesFrame DEF IInv, TypeOK
<1>5. Beside
    BY <1>4, BesideKeeps DEF IInv, ThreadsFit, RecoveryInFlight, recoveryVars
<1>6. RecordsFit'
    <2>1. store' # NoRecord => store # NoRecord /\ store'.rev > 0
        BY <1>1, <1>2, <1>3 DEF Records, IInv, RecordsFit
    <2> QED BY <1>3, <2>1 DEF IInv, RecordsFit
<1>7. BrokerFenced' /\ GrantsFit'
    BY <1>3, <1>5 DEF IInv, BrokerFenced, SignOutKeepsBrokerFenced, GrantsFit, Beside, accountVars
<1>8. StatusFits'
    BY <1>3, <1>5 DEF IInv, StatusFits, Beside, accountVars, recoveryVars
<1> QED BY <1>5, <1>6, <1>7, <1>8 DEF IInv, TypeOK, Beside

-----------------------------------------------------------------------------
(* The invariant holds of every step *)

LEMMA InitHolds == Init => IInv
<1> SUFFICES ASSUME Init PROVE IInv
    OBVIOUS
<1> USE DEF Init
<1>1. TypeOK
    <2>1. AccountTypes
        BY DEF AccountTypes, States
    <2>2. OutsideTypes
        <3>1. NoRecord \in Records
            BY DEF NoRecord, Records, Grants
        <3>2. [rev : {1}, grant : {"old", "damaged"}] \subseteq Records
            BY DEF Records, Grants
        <3>3. brokerCommit \in Records /\ store \in Records
            BY <3>1, <3>2
        <3> QED BY <3>3 DEF OutsideTypes, States
    <2>3. OperationTypes
        BY DEF OperationTypes, Kinds, CallerStates
    <2>4. EventTypes
        <3>1. <<>> \in Seq({"Interaction", "Terminal"})
            OBVIOUS
        <3> QED BY <3>1 DEF EventTypes, Terminals
    <2> QED BY <2>1, <2>2, <2>3, <2>4 DEF TypeOK
<1>2. ThreadsFit
    BY DEF ThreadsFit, RecoveryInFlight, Running, RunStates, SignInStates, SignOutStates
<1>3. \A o \in Ops : GuardFits(o)
    BY DEF GuardFits
<1>4. \A o \in Ops : EventsFit(o)
    <2> SUFFICES ASSUME NEW o \in Ops PROVE EventsFit(o)
        OBVIOUS
    <2>1. pending[o] = <<>> /\ delivered[o] = "none" /\ drainer[o] = "none"
        OBVIOUS
    <2> QED BY <2>1, QueuesDiffer DEF EventsFit
<1>5. store.grant \notin Ops /\ (store # NoRecord => store.rev > 0 /\ store.grant # "none")
    <2>1. CASE store = NoRecord
        BY <2>1, OpsAssumption DEF NoRecord
    <2>2. CASE store \in [rev : {1}, grant : {"old", "damaged"}]
        BY <2>2, OpsAssumption
    <2> QED BY <2>1, <2>2
<1>6. RecordsFit /\ BrokerFenced
    BY <1>5 DEF RecordsFit, BrokerFenced, SignOutKeepsBrokerFenced
<1>7. GrantsFit
    BY <1>5 DEF GrantsFit, Written
<1>8. StatusFits
    BY DEF StatusFits
<1> QED BY <1>1, <1>2, <1>3, <1>4, <1>6, <1>7, <1>8 DEF IInv

LEMMA StutterKeeps == IInv /\ UNCHANGED vars => IInv'
<1> SUFFICES ASSUME IInv, UNCHANGED vars PROVE IInv'
    OBVIOUS
<1>1. UNCHANGED <<accountVars, tableVars, brokerVars, store, recoveryVars, shutdownVars, requestVars>>
      /\ UNCHANGED <<runVars, signal, guardVars, eventVars>>
    BY DEF vars
<1> QED
    BY <1>1, SignalKeeps, OperationTypesFrame, OutsideTypesFrame DEF IInv, TypeOK

LEMMA NextKeeps == IInv /\ Next => IInv'
<1> SUFFICES ASSUME IInv, Next PROVE IInv'
    OBVIOUS
<1>1. CASE Recover
    BY <1>1, StartRecoveryKeeps, RecoveryLoadKeeps, RecoveryApplyKeeps, RecoveryEndKeeps DEF Recover
<1>2. CASE SetCredentialBroker \/ BeginShutdown \/ ShutdownQuarantines
    BY <1>2, SetCredentialBrokerKeeps, BeginShutdownKeeps, QuarantinesKeep
<1>3. CASE BrokerLoads \/ BrokerCommits \/ BrokerQuarantines
    BY <1>3, BrokerLoadsKeeps, BrokerCommitsKeeps, QuarantinesKeep
<1>4. ASSUME NEW o \in Ops,
             \/ Caller(o) \/ Run(o) \/ PublishInteraction(o) \/ Deliver(o)
             \/ Cancel(o) \/ Expire(o) \/ Monitor(o) \/ ShutdownCancels(o)
      PROVE  IInv'
    BY <1>4, CallerKeeps, RunKeeps, PublishInteractionKeeps, OnOperationTerminalKeeps,
        QueueTerminalKeeps, DrainKeeps, SignalsKeep, MonitorKeeps DEF Deliver
<1> QED BY <1>1, <1>2, <1>3, <1>4 DEF Next

\* IInv holds in every reachable state: it is inductive, which the properties below are not.
THEOREM DeviceAccountInvariant == Spec => []IInv
<1>1. IInv /\ [Next]_vars => IInv'
    BY NextKeeps, StutterKeeps
<1> QED BY InitHolds, <1>1, PTL DEF Spec

-----------------------------------------------------------------------------
(* What it says of the account *)

LEMMA InvariantTellsTruth == IInv => AccountIsTrue
<1> SUFFICES ASSUME IInv PROVE AccountIsTrue
    OBVIOUS
<1>1. TypeOK /\ ConfirmedSignOutIsEmpty
    BY DEF IInv, StatusFits, ConfirmedSignOutIsEmpty
<1>2. ReadyHasCredential
    BY DEF IInv, StatusFits, ReadyHasCredential, EffectiveStatus
<1>3. SignedInGrantIsStored
    BY DEF IInv, GrantsFit, SignedInGrantIsStored
<1> QED BY <1>1, <1>2, <1>3 DEF AccountIsTrue

LEMMA InvariantFencesGrants == IInv => GrantsAreFenced
<1> SUFFICES ASSUME IInv PROVE GrantsAreFenced
    OBVIOUS
<1>1. SignOutKeepsBrokerFenced
    BY DEF IInv, BrokerFenced
<1>2. UnclaimedGrantIsFenced
    <2> SUFFICES ASSUME newest # NoOp, ~shutdown, kind[newest] = "SignIn", pc[newest] = "done",
                        terminal[newest] # "Succeeded", store.grant = newest
                 PROVE  EffectiveStatus # "Ready" /\ localQuarantine /\ (connected => brokerQuarantined)
        BY DEF UnclaimedGrantIsFenced
    <2>1. localQuarantine /\ (connected => brokerQuarantined)
        BY DEF IInv, GrantsFit
    <2>2. EffectiveStatus # "Ready"
        BY <2>1 DEF EffectiveStatus, Transient
    <2> QED BY <2>1, <2>2
<1> QED BY <1>1, <1>2 DEF GrantsAreFenced

\* What the provider says of the account (GetStatus, bConfirmedSignedOut, a sign-in's
\* Succeeded) is true of the record in the store, whatever was cut off, failed or raced.
THEOREM AccountTold == Spec => []AccountIsTrue
BY DeviceAccountInvariant, InvariantTellsTruth, PTL

\* A grant no caller was told of is quarantined on both sides or gone, and no earlier
\* sign-in, however late its clean-up, lifts the fence a sign-out put up.
THEOREM GrantsFenced == Spec => []GrantsAreFenced
BY DeviceAccountInvariant, InvariantFencesGrants, PTL

-----------------------------------------------------------------------------
(* What its sinks hear *)

EventSteps(o) == PublishInteraction(o) \/ QueueTerminal(o) \/ DrainQueuedEvents(o)

LEMMA RunsLeaveEvents == \A o \in Ops : Run(o) => UNCHANGED eventVars
BY DEF Run, RunSignIn, RunSignOut, OnPhysicalOperationComplete, RunUnchanged, Move,
    LeaveStale, CallAuthorize, AuthorizeFails, AuthorizeSucceeds, RejectTokens, LoadExisting,
    FailLoad, CallStore, StoreGrant, StoreFails, StoreAmbiguous, CompensateStored, PinBroker,
    VerifyReplacement, ReplacementFails, LiftQuarantine, CompensateRejected, CompensateUnclaimed,
    ClaimSucceeded, PublishSignInFailure, BeginCleanUp, RereadFindsNothing, RereadFindsOwn,
    CleanUpQuarantines, DiscardGrant, SignOutLoad, SignOutDelete, SignOutDeleteFails, SignOutFailed,
    ConfirmSignedOut, PublishSignedOut

LEMMA OthersLeaveEvents ==
    ASSUME Next, ~\E o \in Ops : EventSteps(o)
    PROVE  UNCHANGED eventVars
<1>1. CASE \E o \in Ops : Caller(o)
    BY <1>1 DEF Caller, EvaluateSignIn, RefuseSignIn, AdmitSignIn, StartSignOut, BeginOperation,
        QuarantineForSignOut, Move, RunUnchanged
<1>2. CASE \E o \in Ops : Run(o)
    BY <1>2, RunsLeaveEvents
<1>3. CASE \E o \in Ops : OnOperationTerminal(o) \/ Cancel(o) \/ Expire(o) \/ Monitor(o) \/ ShutdownCancels(o)
    BY <1>3 DEF OnOperationTerminal, Cancel, Expire, Monitor, ShutdownCancels, NotEnding
<1>4. CASE Recover
    BY <1>4 DEF Recover, StartStoredSessionRecovery, RecoveryLoad, RecoveryApply, RecoveryTellsBroker,
        OnRecoveryPhysicalComplete, OperationsUnchanged
<1>5. CASE SetCredentialBroker \/ BeginShutdown \/ ShutdownQuarantines
    BY <1>5 DEF SetCredentialBroker, BeginShutdown, ShutdownQuarantines
<1>6. CASE BrokerLoads \/ BrokerCommits \/ BrokerQuarantines
    BY <1>6 DEF BrokerLoads, BrokerCommits, BrokerQuarantines, OperationsUnchanged
<1> QED BY <1>1, <1>2, <1>3, <1>4, <1>5, <1>6 DEF Next, Deliver, EventSteps

HeardInOrder(o) ==
    delivered'[o] # delivered[o] \/ Len(pending'[o]) < Len(pending[o])
    => delivered[o] # "Terminal" /\ (delivered'[o] = "Interaction" => delivered[o] = "none")

LEMMA AppendingHeard ==
    ASSUME IInv, NEW x \in Ops, PublishInteraction(x) \/ QueueTerminal(x), NEW o \in Ops
    PROVE  HeardInOrder(o)
<1>1. UNCHANGED delivered
    BY DEF PublishInteraction, QueueTerminal
<1>2. pending \in [Ops -> Seq({"Interaction", "Terminal"})]
    BY DEF IInv, TypeOK, EventTypes
<1>3. PICK e \in {"Interaction", "Terminal"} : pending' = [pending EXCEPT ![x] = Append(@, e)]
    BY DEF PublishInteraction, QueueTerminal
<1>4. Len(pending'[o]) >= Len(pending[o])
    <2>1. Len(pending[o]) \in Nat
        BY <1>2
    <2>2. CASE o = x
        BY <1>2, <1>3, <2>1, <2>2
    <2>3. CASE o # x
        BY <1>2, <1>3, <2>1, <2>3
    <2> QED BY <2>2, <2>3
<1>5. Len(pending[o]) \in Nat /\ Len(pending'[o]) \in Nat
    BY <1>2, <1>3
<1> QED BY <1>1, <1>4, <1>5 DEF HeardInOrder

LEMMA DrainHeard ==
    ASSUME IInv, NEW x \in Ops, DrainQueuedEvents(x), NEW o \in Ops
    PROVE  HeardInOrder(o)
<1>1. EventsFit(x) /\ EventTypes
    BY DEF IInv, TypeOK
<1>2. CASE o # x
    <2>1. pending'[o] = pending[o] /\ delivered'[o] = delivered[o]
        BY <1>1, <1>2 DEF DrainQueuedEvents, EventTypes
    <2>2. Len(pending[o]) \in Nat
        BY <1>1 DEF EventTypes
    <2> QED BY <2>1, <2>2 DEF HeardInOrder
<1>3. CASE o = x
    <2>1. drainer[x] # "none" /\ delivered'[x] = Head(pending[x])
        BY <1>1 DEF DrainQueuedEvents, EventTypes
    <2>2. pending[x] # <<>> /\ delivered[x] # "Terminal"
        BY <1>1, <2>1 DEF EventsFit
    <2>3. delivered[x] # "none" => pending[x] = <<"Terminal">>
        BY <1>1, <2>2 DEF EventsFit
    <2>4. delivered[x] # "none" => delivered'[x] = "Terminal"
        BY <2>1, <2>3, QueueHeads
    <2> QED BY <1>3, <2>2, <2>4 DEF HeardInOrder
<1> QED BY <1>2, <1>3

LEMMA StepHeard ==
    ASSUME IInv, [Next]_vars, NEW o \in Ops
    PROVE  HeardInOrder(o)
<1>1. CASE \E x \in Ops : PublishInteraction(x) \/ QueueTerminal(x)
    BY <1>1, AppendingHeard
<1>2. CASE \E x \in Ops : DrainQueuedEvents(x)
    BY <1>2, DrainHeard
<1>3. CASE UNCHANGED eventVars
    <2>1. pending' = pending /\ delivered' = delivered /\ Len(pending[o]) \in Nat
        BY <1>3 DEF eventVars, IInv, TypeOK, EventTypes
    <2> QED BY <2>1 DEF HeardInOrder
<1>4. UNCHANGED vars => UNCHANGED eventVars
    BY DEF vars
<1> QED BY <1>1, <1>2, <1>3, <1>4, OthersLeaveEvents DEF EventSteps

\* A sink hears the device instruction first, if at all, and one terminal last, whichever
\* of the run, monitor and cancelling threads queue and drain its events.
THEOREM EventsOrdered == Spec => EventsInOrder
<1>1. IInv /\ [Next]_vars => (\A o \in Ops : HeardInOrder(o))
    BY StepHeard
<1>2. (\A o \in Ops : HeardInOrder(o)) =>
      \A o \in Ops :
          delivered'[o] # delivered[o] \/ Len(pending'[o]) < Len(pending[o])
          => delivered[o] # "Terminal" /\ (delivered'[o] = "Interaction" => delivered[o] = "none")
    BY DEF HeardInOrder
<1> QED BY <1>1, <1>2, DeviceAccountInvariant, PTL DEF Spec, EventsInOrder
=============================================================================
