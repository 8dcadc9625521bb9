------------------------ MODULE NativeSseModelProvider ------------------------
(***************************************************************************)
(* FUnrealAINativeSseModelProvider: the admission of requests, and the     *)
(* operation each one runs.  An operation is entered by the thread that    *)
(* starts it, the transport's callback, the deadline ticker, a pool thread *)
(* that drains its queues, the caller's Cancel and the provider's          *)
(* shutdown.  A step is one critical section of EventMutex, HandleMutex or *)
(* the provider's Mutex, with the one-shot notifications it leads to.      *)
(***************************************************************************)
EXTENDS Naturals, Sequences, FiniteSets

CONSTANTS Starts,                    \* bound: the calls of StartRequest
          IdOf,                      \* their request identifiers
          Interrupted,               \* bound: those that are cancelled or overdue
          Continuing,                \* the calls whose history ends in a continuation
          MaximumActiveRequests,
          MaximumPhysical,           \* of the physical request budget
          MaximumPendingHttpEvents,
          MaxHttpEvents,             \* bound: events a transport sends before its last
          Events                     \* bound: the events it may send

Nobody == "nobody"

VARIABLES stage,         \* where each call of Start is
          op,            \* its operation
          wire,          \* its transport request
          interrupt,     \* its deadline and the caller's cancellation token
          received,      \* what its sink got
          todo,          \* calls an operation's threads make once out of the lock
          pending,       \* PendingRequestIds, by call
          logical,       \* LogicalOperations, by call
          all,           \* AllOperations
          permits,       \* permits of the budget
          shutdown,      \* bShutdown
          cancelling,    \* operations BeginShutdown has yet to cancel
          consumer       \* the call that consumed the continuation

provider == <<pending, logical, all, permits, shutdown, cancelling, consumer>>
vars == <<stage, op, wire, interrupt, received, todo, provider>>

NewOperation ==
    [terminal |-> "none", http |-> <<>>, model |-> <<>>, sending |-> <<>>, drain |-> "no",
     committed |-> FALSE, published |-> FALSE, aborted |-> FALSE, closed |-> FALSE,
     handle |-> FALSE, cancelRequested |-> FALSE, cancelAfter |-> FALSE,
     responded |-> FALSE, refused |-> FALSE, started |-> FALSE,
     logicalDone |-> FALSE, physicalDone |-> FALSE]

NoWire == [state |-> "none", cancelled |-> FALSE, sent |-> 0]

Init ==
    /\ stage = [s \in Starts |-> "none"]
    /\ op = [s \in Starts |-> NewOperation]
    /\ wire = [s \in Starts |-> NoWire]
    /\ interrupt = [s \in Starts |-> "none"]
    /\ received = [s \in Starts |-> <<>>]
    /\ todo = [s \in Starts |-> {}]
    /\ pending = {} /\ logical = {} /\ all = {} /\ permits = {}
    /\ shutdown = FALSE
    /\ cancelling = {}
    /\ consumer = Nobody

-----------------------------------------------------------------------------
(* Events of an operation, under EventMutex *)

\* Mutant: the guard is asked, and its answer is not.
EmitAgain(r, kind, cancelPhysical) ==
    [r EXCEPT !.terminal = kind, !.model = Append(@, kind), !.cancelAfter = @ \/ cancelPhysical]

\* EmitTerminalLocked; QueueStartedLocked puts Started before a failure.
Emit(r, kind, cancelPhysical) ==
    IF r.terminal # "none" THEN r
    ELSE [r EXCEPT !.terminal = kind,
                   !.model = @ \o IF kind = "Failed" /\ ~r.started
                                  THEN <<"Started", kind>> ELSE <<kind>>,
                   !.started = @ \/ kind = "Failed",
                   !.cancelAfter = @ \/ cancelPhysical]

\* Mutant: a stream that completes leaves its transport alone.
ForwardOnly(r, kinds) ==
    IF r.terminal # "none" THEN r
    ELSE [r EXCEPT !.model = @ \o kinds, !.started = TRUE,
                   !.terminal = IF kinds[Len(kinds)] = "Completed" THEN "Completed" ELSE @]

\* ForwardDecodedEventLocked, of the events one push of the decoder emits.
Forward(r, kinds) ==
    IF r.terminal # "none" THEN r
    ELSE [r EXCEPT !.model = @ \o kinds, !.started = TRUE,
                   !.terminal = IF kinds[Len(kinds)] = "Completed" THEN "Completed" ELSE @,
                   !.cancelAfter = @ \/ kinds[Len(kinds)] = "Completed"]

Opening(r) == IF r.started THEN <<>> ELSE <<"Started">>

\* ProcessHttpEventLocked.  invalid stands for an event of the wrong shape or
\* order, refusal for a status other than 200, garbage for a body the decoder
\* does not accept.
Process(r, event) ==
    CASE event = "invalid" -> Emit(r, "Failed", TRUE)
      [] event \in {"response", "refusal", "wrongType"} ->
            IF r.responded THEN Emit(r, "Failed", TRUE)
            ELSE LET seen == [r EXCEPT !.responded = TRUE, !.refused = event # "response"]
                 IN IF event = "wrongType" THEN Emit(seen, "Failed", TRUE) ELSE seen
      [] event \in {"text", "end", "garbage"} ->
            IF ~r.responded THEN Emit(r, "Failed", TRUE)
            ELSE IF r.refused THEN r
            ELSE IF event = "garbage" THEN Emit(r, "Failed", TRUE)
            ELSE Forward(r, Append(Opening(r), IF event = "end" THEN "Completed" ELSE "Text"))
      [] event = "Completed" -> Emit(r, "Failed", FALSE)
      [] OTHER -> Emit(r, event, FALSE)

WireEnds == {"Completed", "Cancelled", "TimedOut", "Failed"}

\* Mutant: the drain does not wait until the start is published.
ScheduledAtOnce(r, work) == IF r.drain = "no" /\ work THEN [r EXCEPT !.drain = "poll"] ELSE r

\* Whoever finds work and no drain running schedules one.
Scheduled(r, work) == IF r.published /\ r.drain = "no" /\ work THEN [r EXCEPT !.drain = "poll"] ELSE r

-----------------------------------------------------------------------------
(* One-shot notifications, and the tables they free *)

\* Mutant: the entry of an operation is freed with its logical end.
FreesAtOnce(r) == TRUE

FreesEntry(r) == r.physicalDone

NotifyLogicalTerminal(s) ==
    /\ logical' = logical \ {s}
    /\ IF op[s].logicalDone THEN UNCHANGED <<all, permits>>
       ELSE /\ all' = IF FreesEntry(op[s]) THEN all \ {s} ELSE all
            /\ permits' = IF op[s].physicalDone THEN permits \ {s} ELSE permits

NotifyPhysicalSettled(s) ==
    /\ all' = IF op[s].logicalDone THEN all \ {s} ELSE all
    /\ permits' = IF op[s].logicalDone THEN permits \ {s} ELSE permits
    /\ op' = [op EXCEPT ![s].physicalDone = TRUE]

\* The transport callback's NotifyPhysicalSettled.
Settle(s) ==
    /\ "settle" \in todo[s]
    /\ NotifyPhysicalSettled(s)
    /\ todo' = [todo EXCEPT ![s] = @ \ {"settle"}]
    /\ UNCHANGED <<stage, wire, interrupt, received, pending, logical, shutdown, cancelling, consumer>>

\* RequestPhysicalCancellation: once; a handle that is not there yet is
\* cancelled by the call that starts the request.
RequestPhysicalCancellation(s) ==
    LET first == ~op[s].cancelRequested
        acts == first /\ op[s].handle
    IN /\ op' = [op EXCEPT ![s].cancelRequested = TRUE,
                           ![s].logicalDone = @ \/ acts]
       /\ wire' = [wire EXCEPT ![s].cancelled = @ \/ acts]
       /\ IF acts THEN NotifyLogicalTerminal(s) ELSE UNCHANGED <<logical, all, permits>>

CancelPhysical(s) ==
    /\ "cancelPhysical" \in todo[s]
    /\ RequestPhysicalCancellation(s)
    /\ todo' = [todo EXCEPT ![s] = @ \ {"cancelPhysical"}]
    /\ UNCHANGED <<stage, interrupt, received, pending, shutdown, cancelling, consumer>>

\* Cancel and PollDeadline end the operation, then stop its transport.
EndOperation(s, kind) ==
    LET r == Emit(op[s], kind, FALSE)
    IN /\ op' = [op EXCEPT ![s] = Scheduled(r, r.model # <<>>)]
       /\ todo' = [todo EXCEPT ![s] = @ \union {"cancelPhysical"}]

Overdue(s) == interrupt[s] # "none" /\ ~op[s].logicalDone

PollDeadline(s) ==
    EndOperation(s, IF interrupt[s] = "cancelled" THEN "Cancelled" ELSE "TimedOut")

-----------------------------------------------------------------------------
(* FState::Start, on the caller's thread *)

Go(s, to) == stage' = [stage EXCEPT ![s] = to]

\* The shape, the projection and the connection are in order.
Admit(s) ==
    /\ stage[s] = "none"
    /\ interrupt[s] # "cancelled"
    /\ IF \/ shutdown
          \/ Cardinality(pending) + Cardinality(all) >= MaximumActiveRequests
          \/ \E t \in pending \union logical : IdOf[t] = IdOf[s]
       THEN Go(s, "rejected") /\ UNCHANGED pending
       ELSE Go(s, "admitted") /\ pending' = pending \union {s}
    /\ UNCHANGED <<op, wire, interrupt, received, todo, logical, all, permits,
                   shutdown, cancelling, consumer>>

Acquire(s) ==
    /\ stage[s] = "admitted"
    /\ IF Cardinality(permits) < MaximumPhysical
       THEN Go(s, "staging") /\ permits' = permits \union {s} /\ UNCHANGED pending
       ELSE Go(s, "rejected") /\ pending' = pending \ {s} /\ UNCHANGED permits
    /\ UNCHANGED <<op, wire, interrupt, received, todo, logical, all,
                   shutdown, cancelling, consumer>>

\* The protocol writes the body, and fails on a continuation that is used; a
\* rejected call drops its permit.
StageRequest(s) ==
    /\ stage[s] = "staging"
    /\ IF interrupt[s] = "expired" \/ (s \in Continuing /\ consumer # Nobody)
       THEN Go(s, "rejected") /\ pending' = pending \ {s} /\ permits' = permits \ {s}
       ELSE Go(s, "staged") /\ UNCHANGED <<pending, permits>>
    /\ UNCHANGED <<op, wire, interrupt, received, todo, logical, all,
                   shutdown, cancelling, consumer>>

Register(s) ==
    /\ stage[s] = "staged"
    /\ pending' = pending \ {s}
    /\ IF shutdown
       THEN Go(s, "rejected") /\ permits' = permits \ {s} /\ UNCHANGED <<logical, all>>
       ELSE /\ Go(s, "registered")
            /\ logical' = logical \union {s}
            /\ all' = all \union {s}
            /\ UNCHANGED permits
    /\ UNCHANGED <<op, wire, interrupt, received, todo, shutdown, cancelling, consumer>>

\* Transport->StartRequest begins a transport request, or does not.
Dispatch(s) ==
    /\ stage[s] = "registered"
    /\ \/ wire' = [wire EXCEPT ![s].state = "live"] /\ Go(s, "dispatched")
       \/ UNCHANGED wire /\ Go(s, "aborting")
    /\ UNCHANGED <<op, interrupt, received, todo, provider>>

\* It returns after the first events may have come: with the handle to keep,
\* or with an error or the handle of another request.
TransportReturns(s) ==
    /\ stage[s] = "dispatched"
    /\ \/ Go(s, "handled") /\ op' = [op EXCEPT ![s].handle = TRUE]
       \/ Go(s, "aborting") /\ UNCHANGED op
    /\ UNCHANGED <<wire, interrupt, received, todo, provider>>

\* A cancellation that found no handle is made up for here.
CommitHttpAdmission(s) ==
    LET commits == ~op[s].aborted /\ op[s].terminal = "none"
        acts == commits /\ op[s].cancelRequested
    IN /\ stage[s] = "handled"
       /\ Go(s, IF commits THEN "committing" ELSE "aborting")
       /\ op' = [op EXCEPT ![s].committed = commits, ![s].logicalDone = @ \/ acts]
       /\ wire' = [wire EXCEPT ![s].cancelled = @ \/ acts]
       /\ IF acts THEN NotifyLogicalTerminal(s) ELSE UNCHANGED <<logical, all, permits>>
       /\ UNCHANGED <<interrupt, received, todo, pending, shutdown, cancelling, consumer>>

TryCommit(s) ==
    /\ stage[s] = "committing"
    /\ IF s \notin Continuing
       THEN Go(s, "committed") /\ UNCHANGED consumer
       ELSE IF consumer = Nobody
       THEN Go(s, "committed") /\ consumer' = s
       ELSE Go(s, "aborting") /\ UNCHANGED consumer
    /\ UNCHANGED <<op, wire, interrupt, received, todo, pending, logical, all, permits,
                   shutdown, cancelling>>

\* Mutant: what came before StartRequest returns is left for a later event.
PublishesOnly(r) == r

Published(r) == Scheduled(r, r.http # <<>> \/ r.model # <<>>)

\* StartRequest returns true.
PublishHttpAdmission(s) ==
    /\ stage[s] = "committed"
    /\ Go(s, "started")
    /\ op' = [op EXCEPT ![s] = Published([@ EXCEPT !.published = TRUE])]
    /\ UNCHANGED <<wire, interrupt, received, todo, provider>>

Aborted(r) ==
    [r EXCEPT !.aborted = TRUE, !.http = <<>>, !.model = <<>>,
              !.terminal = IF @ = "none" THEN "Failed" ELSE @]

AbortHttpAdmission(s) ==
    /\ stage[s] = "aborting"
    /\ Go(s, "releasing")
    /\ op' = [op EXCEPT ![s] = Aborted(@)]
    /\ UNCHANGED <<wire, interrupt, received, todo, provider>>

\* Mutant: a request without a transport waits for its callback.
AlwaysDispatched(s) == FALSE

Undispatched(s) == wire[s].state = "none"

\* The rest of AbortHttpAdmission, ReleaseLogical and, when the transport has
\* no request, SettleRejectedAdmission; StartRequest returns false.
ReleaseRejected(s) ==
    LET silent == Undispatched(s)
    IN /\ stage[s] = "releasing"
       /\ Go(s, "rejected")
       /\ op' = [op EXCEPT ![s].logicalDone = TRUE, ![s].physicalDone = @ \/ silent]
       /\ wire' = [wire EXCEPT ![s].cancelled = ~silent]
       /\ IF silent
          THEN logical' = logical \ {s} /\ all' = all \ {s} /\ permits' = permits \ {s}
          ELSE NotifyLogicalTerminal(s)
       /\ UNCHANGED <<interrupt, received, todo, pending, shutdown, cancelling, consumer>>

-----------------------------------------------------------------------------
(* The transport's callback: EnqueueHttpEvent *)

Queued(r, event) ==
    IF r.aborted \/ r.terminal # "none" THEN r
    ELSE IF event = "foreign" THEN Emit(r, "Failed", TRUE)
    ELSE IF Len(r.http) >= MaximumPendingHttpEvents
    THEN Emit([r EXCEPT !.http = <<>>], "Failed", TRUE)
    ELSE [r EXCEPT !.http = Append(@, event)]

\* An event, or the last one; foreign is a last event of another request, and
\* one that is not the last is ignored.
EnqueueHttpEvent(s, event) ==
    LET last == event \in WireEnds \union {"foreign"}
        open == ~op[s].aborted /\ op[s].terminal = "none"
        queued == Queued(op[s], event)
        refusing == open /\ queued.terminal # "none"
        work == open /\ (queued.http # <<>> \/ queued.model # <<>>)
    IN /\ wire[s].state = "live"
       /\ last \/ wire[s].sent < MaxHttpEvents
       /\ wire' = [wire EXCEPT ![s].state = IF last THEN "ended" ELSE @,
                               ![s].sent = IF last THEN @ ELSE @ + 1]
       /\ op' = [op EXCEPT ![s] = Scheduled([queued EXCEPT !.closed = last], work)]
       /\ todo' = [todo EXCEPT ![s] = @ \union (IF last THEN {"settle"} ELSE {})
                                        \union (IF refusing THEN {"cancelPhysical"} ELSE {})]
       /\ UNCHANGED <<stage, interrupt, received, provider>>

-----------------------------------------------------------------------------
(* DrainHttpEvents, on a pool thread *)

DrainPoll(s) ==
    /\ op[s].drain = "poll"
    /\ IF Overdue(s)
       THEN LET r == Emit(op[s], IF interrupt[s] = "cancelled" THEN "Cancelled" ELSE "TimedOut", FALSE)
            IN /\ op' = [op EXCEPT ![s] = [r EXCEPT !.drain = "lock"]]
               /\ todo' = [todo EXCEPT ![s] = @ \union {"cancelPhysical"}]
       ELSE op' = [op EXCEPT ![s].drain = "lock"] /\ UNCHANGED todo
    /\ UNCHANGED <<stage, wire, interrupt, received, provider>>

\* Nothing to deliver: go on, or leave with the flag cleared.
Leaves(r) == r.terminal # "none" \/ r.http = <<>>

DrainLock(s) ==
    LET r == op[s]
        ready == r.model = <<>> /\ r.terminal = "none" /\ r.http # <<>>
        done == IF ready THEN Process([r EXCEPT !.http = Tail(@)], Head(r.http)) ELSE r
    IN /\ r.drain = "lock"
       /\ op' = [op EXCEPT ![s] =
             IF done.model # <<>>
             THEN [done EXCEPT !.sending = done.model, !.model = <<>>, !.drain = "send",
                               !.cancelAfter = FALSE]
             ELSE IF Leaves(done)
             THEN [done EXCEPT !.drain = "no", !.http = IF done.terminal # "none" THEN <<>> ELSE @]
             ELSE [done EXCEPT !.drain = "poll"]]
       /\ todo' = IF done.model # <<>> /\ done.cancelAfter
                  THEN [todo EXCEPT ![s] = @ \union {"cancelPhysical"}] ELSE todo
       /\ UNCHANGED <<stage, wire, interrupt, received, provider>>

Terminals == {"Completed", "Cancelled", "TimedOut", "Failed"}

\* The last event is announced before the sink gets it.
Deliver(s) ==
    LET event == Head(op[s].sending)
        last == event \in Terminals
    IN /\ op[s].drain = "send"
       /\ received' = [received EXCEPT ![s] = Append(@, event)]
       /\ op' = [op EXCEPT ![s].sending = Tail(@),
                           ![s].drain = IF Len(op[s].sending) = 1 THEN "poll" ELSE @,
                           ![s].logicalDone = @ \/ last]
       /\ IF last THEN NotifyLogicalTerminal(s) ELSE UNCHANGED <<logical, all, permits>>
       /\ UNCHANGED <<stage, wire, interrupt, todo, pending, shutdown, cancelling, consumer>>

-----------------------------------------------------------------------------
(* The ticker, the caller, and shutdown *)

Tick(s) ==
    /\ op[s].published
    /\ Overdue(s)
    /\ PollDeadline(s)
    /\ UNCHANGED <<stage, wire, interrupt, received, provider>>

\* The caller cancels through the handle it got.
Cancel(s) ==
    /\ stage[s] = "started"
    /\ EndOperation(s, "Cancelled")
    /\ UNCHANGED <<stage, wire, interrupt, received, provider>>

Interrupt(s, how) ==
    /\ s \in Interrupted
    /\ stage[s] # "rejected"
    /\ interrupt[s] = "none"
    /\ interrupt' = [interrupt EXCEPT ![s] = how]
    /\ UNCHANGED <<stage, op, wire, received, todo, provider>>

BeginShutdown ==
    /\ ~shutdown
    /\ shutdown' = TRUE
    /\ cancelling' = {s \in all : ~op[s].physicalDone}
    /\ UNCHANGED <<stage, op, wire, interrupt, received, todo, pending, logical, all,
                   permits, consumer>>

ShutdownCancels(s) ==
    /\ s \in cancelling
    /\ cancelling' = cancelling \ {s}
    /\ EndOperation(s, "Cancelled")
    /\ UNCHANGED <<stage, wire, interrupt, received, pending, logical, all, permits,
                   shutdown, consumer>>

-----------------------------------------------------------------------------
StartStep(s) ==
    \/ Admit(s) \/ Acquire(s) \/ StageRequest(s) \/ Register(s) \/ Dispatch(s)
    \/ TransportReturns(s) \/ CommitHttpAdmission(s) \/ TryCommit(s)
    \/ PublishHttpAdmission(s) \/ AbortHttpAdmission(s) \/ ReleaseRejected(s)

DrainStep(s) == DrainPoll(s) \/ DrainLock(s) \/ Deliver(s)

Next ==
    \/ \E s \in Starts :
          \/ StartStep(s) \/ DrainStep(s)
          \/ Settle(s) \/ CancelPhysical(s)
          \/ \E event \in Events : EnqueueHttpEvent(s, event)
          \/ Tick(s) \/ Cancel(s)
          \/ \E how \in {"cancelled", "expired"} : Interrupt(s, how)
          \/ ShutdownCancels(s)
    \/ BeginShutdown

Spec == Init /\ [][Next]_vars

\* Threads go on, deadlines pass and are polled, and a transport request that
\* is cancelled ends.
Fairness ==
    \A s \in Starts :
        /\ WF_vars(stage[s] # "none" /\ StartStep(s))
        /\ WF_vars(DrainStep(s))
        /\ WF_vars(Settle(s))
        /\ WF_vars(CancelPhysical(s))
        /\ WF_vars(Interrupt(s, "expired"))
        /\ WF_vars(Tick(s))
        /\ WF_vars(wire[s].cancelled /\ EnqueueHttpEvent(s, "Cancelled"))

FairSpec == Spec /\ Fairness

-----------------------------------------------------------------------------
(* Properties *)

\* A sink gets one stream: it starts before it carries text, completes or
\* fails, and it ends once, with nothing after the end, whichever of five
\* threads ended it.
SinksGetOneStream ==
    \A s \in Starts : \A k \in DOMAIN received[s] :
        /\ received[s][k] \in Terminals => k = Len(received[s])
        /\ received[s][k] = "Started" <=> (k = 1 /\ received[s][k] \notin {"Cancelled", "TimedOut"})

\* A call that answers false has no other effect: its sink hears nothing, now
\* or later, and the continuation it would have used is there for the retry.
RejectedStartsAreSilent ==
    \A s \in Starts : stage[s] = "rejected" => received[s] = <<>> /\ consumer # s

\* A request the transport still works on is counted: against the provider's
\* limit and the budget, whatever became of it logically.
PhysicalRequestsAreCounted ==
    /\ \A s \in Starts : wire[s].state = "live" => s \in all /\ s \in permits
    /\ Cardinality(all) <= MaximumActiveRequests

\* When the sink has its end and the operation rests, the transport has ended
\* too or has been told to.
EndsReachTheTransport ==
    \A s \in Starts :
        (op[s].terminal # "none" /\ op[s].drain = "no" /\ todo[s] = {} /\ stage[s] = "started")
            => wire[s].state = "ended" \/ wire[s].cancelled

\* Every request that was started ends at its sink.
Underway(s) == stage[s] = "started"
Over(s) == received[s] # <<>> /\ received[s][Len(received[s])] \in Terminals
StartedRequestsEnd == \A s \in Starts : Underway(s) ~> Over(s)

\* Every slot comes back.
HoldsSlot(s) == s \in all
Released(s) == s \notin all /\ s \notin permits
SlotsComeBack == \A s \in Starts : HoldsSlot(s) ~> Released(s)

=============================================================================
