------------------------- MODULE MacUrlSessionTransport -------------------------
(***************************************************************************)
(* The HTTPS transport over NSURLSession: FMacTransportState and its       *)
(* FMacRequestOperation.  The threads are the caller of StartRequest, the  *)
(* session's serial delegate queue, the operation's monitor, whoever pumps *)
(* deadlines or cancels, and the one that shuts down.  A step is a stretch *)
(* under one lock, or a native call.  Events are queued to the sink in the *)
(* order of their sequence numbers.                                        *)
(***************************************************************************)
EXTENDS Naturals, Sequences, FiniteSets

CONSTANTS Requests, IdOf,       \* calls of StartRequest, and their request ids
          MaxActiveRequests,
          MaxResponseBody,      \* bound: chunks in MaxResponseBodyBytes
          Cancellable,          \* those whose token or handle may be cancelled
          Unreliable            \* those whose session the system may close

VARIABLES op, native, table, events

vars == <<op, native, table, events>>

Terminals == {"Completed", "Failed", "Cancelled", "TimedOut"}

\* FMacRequestOperation, the place of the thread in its StartRequest, and what
\* the thread that ended it has yet to do.
NewOperation ==
    [at |-> "new", dispatched |-> FALSE, replay |-> FALSE, owes |-> "nothing",
     expired |-> FALSE, cancelled |-> "no",
     prepared |-> FALSE, abandoned |-> FALSE, committing |-> FALSE, activated |-> FALSE,
     invalidating |-> FALSE, settled |-> FALSE, monitor |-> "none", session |-> FALSE,
     sink |-> TRUE, response |-> FALSE, body |-> 0, terminal |-> "none", pending |-> "none"]

\* The session with its task, and the delegate's callback state.
NewSession == [state |-> "none", sent |-> FALSE, bound |-> FALSE, staged |-> FALSE, doing |-> "none"]

Init ==
    /\ op = [r \in Requests |-> NewOperation]
    /\ native = [r \in Requests |-> NewSession]
    /\ table = [reserved |-> {}, active |-> {}, committed |-> {}, down |-> FALSE,
                abandon |-> {}, cancel |-> {}]
    /\ events = [r \in Requests |-> <<>>]

Ids(rs) == {IdOf[r] : r \in rs}
At(r, place) == op[r].at = place
Goes(r, place) == op' = [op EXCEPT ![r].at = place]

-----------------------------------------------------------------------------
(* How an operation ends. *)

Interrupted(o) == o.cancelled # "no" \/ o.expired

\* Finish: the first terminal wins.  It closes the session, unless admission
\* has yet to activate it, which then does.  (An admitted operation has a
\* session: the code's fallback for one that has none is not reached.)
Finished(o, kind) ==
    IF o.terminal # "none" THEN o
    ELSE IF o.prepared /\ ~o.abandoned /\ ~o.activated /\ o.session
    THEN [o EXCEPT !.terminal = kind, !.pending = kind]
    ELSE [o EXCEPT !.terminal = kind, !.pending = kind, !.monitor = "none",
                   !.invalidating = TRUE,
                   !.owes = IF o.invalidating THEN @
                            ELSE IF kind = "Completed" THEN "finish" ELSE "cancel"]

\* PollCancellationAndDeadline
Polled(o) ==
    IF o.cancelled = "Requested" THEN Finished(o, "Cancelled")
    ELSE IF Interrupted(o) THEN Finished(o, "TimedOut")
    ELSE o

\* QueueEventLocked
Queue(r, o, event) ==
    events' = IF o.sink THEN [events EXCEPT ![r] = Append(@, event)] ELSE events

\* PublishTerminalAfterPhysicalSettlement, up to the removal from the owner.
Settles(r) ==
    LET o == op[r]
        kind == IF o.terminal = "none" THEN "Failed" ELSE o.pending
        closed == [o EXCEPT !.settled = TRUE, !.invalidating = TRUE, !.session = FALSE,
                            !.monitor = "none", !.pending = "none", !.sink = FALSE]
    IN IF o.settled THEN UNCHANGED <<op, events>>
       ELSE IF o.abandoned THEN op' = [op EXCEPT ![r] = closed] /\ UNCHANGED events
       ELSE /\ op' = [op EXCEPT ![r] = [closed EXCEPT
                         !.terminal = IF @ = "none" THEN "Failed" ELSE @, !.owes = "remove"]]
            /\ IF kind = "none" THEN UNCHANGED events ELSE Queue(r, o, kind)

\* What the winner of Finish, or of the settlement, does after its lock.
EndsSession(r) ==
    /\ op[r].owes \in {"finish", "cancel"}
    /\ op' = [op EXCEPT ![r].owes = "nothing"]
    /\ native' = [native EXCEPT ![r].state = IF @ = "closed" THEN @ ELSE "closing"]
    /\ UNCHANGED <<table, events>>

RemoveActiveRequest(r) ==
    /\ op[r].owes = "remove"
    /\ op' = [op EXCEPT ![r].owes = "nothing"]
    /\ table' = [table EXCEPT !.active = @ \ {r}, !.committed = @ \ {r}]
    /\ UNCHANGED <<native, events>>

\* InvalidateNativeObjectsBeforeAdmission
Abandoned(o) ==
    [o EXCEPT !.abandoned = TRUE, !.prepared = FALSE, !.invalidating = TRUE,
              !.monitor = "none", !.session = FALSE, !.sink = FALSE]

Released(r) ==
    IF op[r].session
    THEN [native EXCEPT ![r].bound = FALSE, ![r].state = IF @ = "closed" THEN @ ELSE "closing"]
    ELSE native

-----------------------------------------------------------------------------
(* StartRequest. *)

\* Mutant: reservations are not counted.
ActiveFull == Cardinality(table.active) >= MaxActiveRequests

Full == Cardinality(table.reserved) + Cardinality(table.active) >= MaxActiveRequests

\* Phase one: the identity and the capacity.
Reserve(r) ==
    /\ At(r, "new")
    /\ IF \/ op[r].cancelled # "no" \/ table.down
          \/ Full
          \/ IdOf[r] \in table.reserved \union Ids(table.active)
       THEN Goes(r, "rejected") /\ UNCHANGED table
       ELSE /\ Goes(r, "reserved")
            /\ table' = [table EXCEPT !.reserved = @ \union {IdOf[r]}]
    /\ UNCHANGED <<native, events>>

Attach(r) ==
    /\ At(r, "reserved")
    /\ IF ~table.down /\ IdOf[r] \in table.reserved /\ IdOf[r] \notin Ids(table.active)
       THEN /\ Goes(r, "attached")
            /\ table' = [table EXCEPT !.reserved = @ \ {IdOf[r]}, !.active = @ \union {r}]
       ELSE /\ Goes(r, "abandoning")
            /\ table' = [table EXCEPT !.reserved = @ \ {IdOf[r]}]
    /\ UNCHANGED <<native, events>>

MayDispatch(r) ==
    /\ At(r, "attached")
    /\ Goes(r, IF ~table.down /\ r \in table.active /\ op[r].cancelled = "no"
               THEN "dispatching" ELSE "committing")
    /\ UNCHANGED <<native, table, events>>

\* PrepareNativeRequest, within TryDispatch: the checks, and the session.
\* fits: the access context grants, and the credential and the request fit.
PrepareNativeRequest(r, fits) ==
    /\ At(r, "dispatching")
    /\ IF fits /\ ~op[r].abandoned /\ ~Interrupted(op[r])
       THEN /\ Goes(r, "staging")
            /\ native' = [native EXCEPT ![r].state = "idle"]
       ELSE Goes(r, "committing") /\ UNCHANGED native
    /\ UNCHANGED <<table, events>>

\* Its last lock: the objects are the operation's, its callback sources still
\* suspended.
StageNativeObjects(r) ==
    /\ At(r, "staging")
    /\ IF op[r].abandoned \/ Interrupted(op[r])
       THEN /\ Goes(r, "committing")
            /\ native' = [native EXCEPT ![r].state = IF @ = "closed" THEN @ ELSE "closing"]
       ELSE /\ op' = [op EXCEPT ![r].at = "staged", ![r].prepared = TRUE,
                                ![r].session = TRUE, ![r].monitor = "suspended"]
            /\ UNCHANGED native
    /\ UNCHANGED <<table, events>>

IsPrepared(r) ==
    /\ At(r, "staged")
    /\ op' = [op EXCEPT ![r].at = "committing",
                        ![r].dispatched = op[r].prepared /\ ~op[r].abandoned]
    /\ UNCHANGED <<native, table, events>>

\* Mutant: what became of the session during the preparation is not looked at.
BindAnyway(r) ==
    /\ op' = [op EXCEPT ![r].at = "completing", ![r].committing = TRUE]
    /\ native' = [native EXCEPT ![r].bound = TRUE]

\* TryBindOperation, and the terminal of a session already closed.
ReserveAdmissionCommit(r) ==
    IF native[r].staged
    THEN /\ op' = [op EXCEPT ![r].at = "completing", ![r].committing = TRUE,
                             ![r].terminal = "Failed", ![r].pending = "Failed",
                             ![r].invalidating = TRUE, ![r].activated = TRUE,
                             ![r].monitor = "none", ![r].replay = TRUE]
         /\ UNCHANGED native
    ELSE /\ op' = [op EXCEPT ![r].at = "completing", ![r].committing = TRUE]
         /\ native' = [native EXCEPT ![r].bound = TRUE]

\* Mutant: the owner is not asked again.
Dispatched(r) == op[r].dispatched /\ op[r].prepared /\ ~op[r].abandoned

Admissible(r) ==
    /\ op[r].dispatched /\ ~table.down /\ r \in table.active
    /\ op[r].prepared /\ ~op[r].abandoned

\* Phase two: a request is admitted, or is not the transport's any more.
Commit(r) ==
    /\ At(r, "committing")
    /\ IF Admissible(r)
       THEN /\ ReserveAdmissionCommit(r)
            /\ table' = [table EXCEPT !.committed = @ \union {r}]
       ELSE /\ Goes(r, "abandoning")
            /\ table' = [table EXCEPT !.active = @ \ {r}, !.committed = @ \ {r}]
            /\ UNCHANGED native
    /\ UNCHANGED events

AbandonBeforeAdmission(r) ==
    /\ At(r, "abandoning")
    /\ op' = [op EXCEPT ![r] = [Abandoned(@) EXCEPT !.at = "rejected"]]
    /\ native' = Released(r)
    /\ UNCHANGED <<table, events>>

\* CompleteAdmissionCommit of an operation whose session had closed.
Replays(r) ==
    /\ At(r, "completing") /\ op[r].replay
    /\ op' = [op EXCEPT ![r].at = "replaying"]
    /\ UNCHANGED <<native, table, events>>

ReplaySettles(r) ==
    /\ At(r, "replaying")
    /\ LET o == [op[r] EXCEPT !.at = "returned"]
       IN /\ op' = [op EXCEPT ![r] = [o EXCEPT
                       !.settled = TRUE, !.session = FALSE, !.pending = "none",
                       !.sink = FALSE, !.owes = "remove"]]
          /\ Queue(r, o, o.pending)
    /\ UNCHANGED <<native, table>>

\* Mutant: the task is started, whatever ended the operation.
ActivatedAnyway(o) ==
    IF ~o.prepared \/ o.settled \/ o.activated \/ ~o.session
    THEN [o EXCEPT !.at = "returned"]
    ELSE [o EXCEPT !.at = "polling", !.activated = TRUE, !.monitor = "active"]

\* The operation may have ended between the commit and here: then the session
\* has to be closed here.
Activated(o) ==
    IF ~o.prepared \/ o.settled \/ o.activated \/ ~o.session
    THEN [o EXCEPT !.at = "returned"]
    ELSE IF o.terminal = "none"
    THEN [o EXCEPT !.at = "polling", !.activated = TRUE, !.monitor = "active"]
    ELSE [o EXCEPT !.at = "returned", !.activated = TRUE, !.monitor = "none",
                   !.invalidating = TRUE,
                   !.owes = IF o.invalidating THEN @
                            ELSE IF o.pending = "Completed" THEN "finish" ELSE "cancel"]

CompleteAdmissionCommit(r) ==
    /\ At(r, "completing") /\ ~op[r].replay
    /\ op' = [op EXCEPT ![r] = Activated(@)]
    /\ UNCHANGED <<native, table, events>>

FirstPoll(r) ==
    /\ At(r, "polling")
    /\ op' = [op EXCEPT ![r] = [Polled(@) EXCEPT !.at = "resuming"]]
    /\ UNCHANGED <<native, table, events>>

\* The request is sent.
Resume(r) ==
    /\ At(r, "resuming")
    /\ Goes(r, "returned")
    /\ native' = IF op[r].terminal = "none" /\ native[r].state = "idle"
                 THEN [native EXCEPT ![r].state = "running", ![r].sent = TRUE]
                 ELSE native
    /\ UNCHANGED <<table, events>>

-----------------------------------------------------------------------------
(* The delegate queue.  A callback of an operation that has ended does       *)
(* nothing, and is left out.                                                 *)

Callbacks == {"response", "body", "complete", "timedOut", "failed", "refused"}

\* PinOperation and the first poll.
DelegateEnters(r, what) ==
    /\ native[r].sent /\ native[r].state # "closed"
    /\ native[r].bound /\ native[r].doing = "none"
    /\ op[r].terminal = "none"
    /\ native' = [native EXCEPT ![r].doing = what]
    /\ op' = [op EXCEPT ![r] = Polled(@)]
    /\ UNCHANGED <<table, events>>

Acts(r, what) ==
    /\ native[r].doing = what
    /\ native' = [native EXCEPT ![r].doing = "none"]
    /\ UNCHANGED table

OnResponseStarted(r) ==
    /\ Acts(r, "response")
    /\ IF op[r].terminal # "none" \/ op[r].response
       THEN UNCHANGED <<op, events>>
       ELSE /\ op' = [op EXCEPT ![r].response = TRUE]
            /\ Queue(r, op[r], "ResponseStarted")

\* A body before a response, or beyond the limit, fails the task.
OnBodyData(r) ==
    /\ Acts(r, "body")
    /\ IF op[r].terminal # "none" THEN UNCHANGED <<op, events>>
       ELSE IF ~op[r].response \/ op[r].body = MaxResponseBody
       THEN op' = [op EXCEPT ![r] = Finished(Polled(@), "Failed")] /\ UNCHANGED events
       ELSE /\ op' = [op EXCEPT ![r].body = @ + 1]
            /\ Queue(r, op[r], "BodyChunk")

OnTaskCompleted(r) ==
    \E what \in {"complete", "timedOut", "failed"} :
        /\ Acts(r, what)
        /\ op' = [op EXCEPT ![r] = Finished(@,
                     CASE what = "complete" -> IF op[r].response THEN "Completed" ELSE "Failed"
                       [] what = "timedOut" -> "TimedOut"
                       [] what = "failed"   -> "Failed")]
        /\ UNCHANGED events

\* OnRedirectRejected and OnAuthenticationChallengeRejected; and a response
\* that is not HTTP's or not well-formed.
OnRefused(r) ==
    /\ Acts(r, "refused")
    /\ op' = [op EXCEPT ![r] = Finished(@, "Failed")]
    /\ UNCHANGED events

\* didBecomeInvalidWithError, the last callback of a session: for the
\* operation that is bound, or kept for the one that will be.
OnSessionInvalidated(r) ==
    /\ native[r].state = "closing" /\ native[r].doing = "none"
    /\ native' = [native EXCEPT ![r].state = "closed", ![r].bound = FALSE,
                                ![r].staged = ~native[r].bound]
    /\ IF native[r].bound THEN Settles(r) ELSE UNCHANGED <<op, events>>
    /\ UNCHANGED table

-----------------------------------------------------------------------------
(* The other threads. *)

MonitorPolls(r) ==
    /\ op[r].monitor = "active"
    /\ op' = [op EXCEPT ![r] = Polled(@)]
    /\ UNCHANGED <<native, table, events>>

PumpDeadlines(r) ==
    /\ r \in table.committed \intersect table.active
    /\ op' = [op EXCEPT ![r] = Polled(@)]
    /\ UNCHANGED <<native, table, events>>

CancelByCaller(r) ==
    /\ r \in Cancellable /\ At(r, "returned")
    /\ op' = [op EXCEPT ![r] = Finished(@, "Cancelled")]
    /\ UNCHANGED <<native, table, events>>

BeginShutdown ==
    /\ ~table.down
    /\ table' = [table EXCEPT !.down = TRUE, !.reserved = {},
                              !.active = @ \intersect table.committed,
                              !.abandon = table.active \ table.committed,
                              !.cancel = table.active \intersect table.committed]
    /\ UNCHANGED <<op, native, events>>

AbandonProvisional(r) ==
    /\ r \in table.abandon
    /\ table' = [table EXCEPT !.abandon = @ \ {r}]
    /\ op' = [op EXCEPT ![r] = Abandoned(@)]
    /\ native' = Released(r)
    /\ UNCHANGED events

CancelForShutdown(r) ==
    /\ r \in table.cancel
    /\ table' = [table EXCEPT !.cancel = @ \ {r}]
    /\ op' = [op EXCEPT ![r] = Finished(@, "Cancelled")]
    /\ UNCHANGED <<native, events>>

\* The owner's token, the clock and the system.
CancelToken(r, reason) ==
    /\ r \in Cancellable /\ op[r].cancelled = "no" /\ op[r].terminal = "none"
    /\ op' = [op EXCEPT ![r].cancelled = reason]
    /\ UNCHANGED <<native, table, events>>

Expire(r) ==
    /\ ~op[r].expired /\ op[r].terminal = "none" /\ op[r].at # "new"
    /\ op' = [op EXCEPT ![r].expired = TRUE]
    /\ UNCHANGED <<native, table, events>>

SystemCloses(r) ==
    /\ r \in Unreliable /\ native[r].state \in {"idle", "running"}
    /\ native' = [native EXCEPT ![r].state = "closing"]
    /\ UNCHANGED <<op, table, events>>

-----------------------------------------------------------------------------
StartStep(r) ==
    \/ Reserve(r) \/ Attach(r) \/ MayDispatch(r)
    \/ \E fits \in BOOLEAN : PrepareNativeRequest(r, fits)
    \/ StageNativeObjects(r) \/ IsPrepared(r) \/ Commit(r) \/ AbandonBeforeAdmission(r)
    \/ Replays(r) \/ ReplaySettles(r)
    \/ CompleteAdmissionCommit(r) \/ FirstPoll(r) \/ Resume(r)

EndStep(r) == EndsSession(r) \/ RemoveActiveRequest(r)

DelegateActs(r) ==
    OnResponseStarted(r) \/ OnBodyData(r) \/ OnTaskCompleted(r) \/ OnRefused(r)

Next ==
    \/ BeginShutdown
    \/ \E r \in Requests :
          \/ StartStep(r) \/ EndStep(r)
          \/ \E what \in Callbacks : DelegateEnters(r, what)
          \/ DelegateActs(r) \/ OnSessionInvalidated(r)
          \/ MonitorPolls(r) \/ PumpDeadlines(r) \/ CancelByCaller(r)
          \/ AbandonProvisional(r) \/ CancelForShutdown(r)
          \/ \E reason \in {"Requested", "Timeout"} : CancelToken(r, reason)
          \/ Expire(r) \/ SystemCloses(r)

Spec == Init /\ [][Next]_vars

\* The threads run, a deadline passes, and NSURLSession guarantees the callback
\* of a session that was invalidated.
Fairness ==
    \A r \in Requests :
        /\ WF_vars(op[r].at # "new" /\ StartStep(r)) /\ WF_vars(EndStep(r))
        /\ WF_vars(DelegateActs(r)) /\ WF_vars(OnSessionInvalidated(r))
        /\ WF_vars(MonitorPolls(r)) /\ WF_vars(Expire(r))

FairSpec == Spec /\ Fairness

-----------------------------------------------------------------------------
(* Properties *)

\* A sink hears one response, body after it, and one terminal after them; the
\* terminal only when its session is closed and no callback can follow.
OneTerminalAfterSettlement ==
    \A r \in Requests : \A k \in DOMAIN events[r] :
        /\ events[r][k] = "ResponseStarted" => k = 1
        /\ events[r][k] = "BodyChunk" => k > 1
        /\ events[r][k] \in Terminals =>
              k = Len(events[r]) /\ op[r].settled /\ native[r].state = "closed"

\* A StartRequest that answers false sends nothing and its sink hears nothing,
\* whichever shutdown, deadline or cancellation it raced.
RejectedIsSilent ==
    \A r \in Requests : op[r].at = "rejected" => events[r] = <<>> /\ ~native[r].sent

\* What was sent and has not closed is in the table, within its limit.
SentIsCounted ==
    /\ \A r \in Requests :
          native[r].sent /\ native[r].state # "closed" =>
              r \in table.active \intersect table.committed
    /\ Cardinality(table.reserved) + Cardinality(table.active) <= MaxActiveRequests
    /\ \A r, q \in table.active : IdOf[r] = IdOf[q] => r = q

\* Once a shutdown has returned, every request left in the table has ended, and
\* none is sent.
ShutdownEndsAll ==
    table.down /\ table.abandon = {} /\ table.cancel = {} =>
        \A r \in table.active : op[r].terminal # "none"

\* Every request that was admitted is told its end, and leaves the table.
Underway(r) == op[r].at = "returned"
Over(r) ==
    /\ events[r] # <<>> /\ events[r][Len(events[r])] \in Terminals
    /\ r \notin table.active
AdmittedSettles == \A r \in Requests : Underway(r) ~> Over(r)

=============================================================================
