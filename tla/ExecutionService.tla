--------------------------- MODULE ExecutionService ---------------------------
(***************************************************************************)
(* FUnrealAIExecutionService: one-shot and streamed model requests with    *)
(* retries, deadlines, cancellation and shutdown.  The HTTP thread feeds   *)
(* each stream's queue under its mutex; everything else runs on the game   *)
(* thread, where a delegate may call the service again.  The game thread   *)
(* is therefore a stack of suspended calls: the top frame runs, and the    *)
(* application owns a "delegate" frame until it returns.                   *)
(*                                                                         *)
(* A provider stream is the events 1 .. StreamLength, the last of which    *)
(* is the terminal event of the protocol.                                  *)
(***************************************************************************)
EXTENDS Naturals, Sequences, FiniteSets, SequencesExt

CONSTANTS Requests,          \* calls that start a request, each used once
          StreamLength,      \* bound: events of a provider stream
          QueueCapacity,     \* FUnrealAIStreamChunkQueue's bound, in chunks
          MaxRetries,        \* the retry policy's MaxRetries
          Limits,            \* values of MaxConcurrentRequests
          MaxTickers,        \* bound: deadline ticker identities
          Modes,             \* bound: request modes an instance uses
          Calls              \* bound: control calls the application makes

ASSUME ServiceAssumption ==
    /\ StreamLength \in Nat \ {0}
    /\ QueueCapacity \in Nat
    /\ MaxRetries \in Nat
    /\ Limits \subseteq Nat \ {0}
    /\ MaxTickers \in Nat \ {0}
    /\ Modes \subseteq {"OneShot", "Stream"}
    /\ Calls \subseteq {"Cancel", "Shutdown", "SetLimits"}

VARIABLES
    req,       \* FUnrealAIRequestState of each request
    active,    \* ActiveRequests
    limit,     \* Limits.MaxConcurrentRequests
    tickers,   \* deadline tickers registered with the core ticker
    ticker,    \* DeadlineTicker: its identity, 0 when not valid
    wire,      \* the HTTP request of the latest attempt, transport side
    stack,     \* game thread: suspended calls, innermost first
    heard,     \* events delivered to the caller
    told       \* terminal callbacks delivered, "Closed" for a shutdown

vars == <<req, active, limit, tickers, ticker, wire, stack, heard, told>>

-----------------------------------------------------------------------------
(* State *)

Events == 1 .. StreamLength
Codes == {"none", "ok", "error"}
Chunks == [events : Seq(Events), open : BOOLEAN]

NewRequest ==
    [accepted |-> FALSE, mode |-> "OneShot", attempt |-> 0, attached |-> FALSE,
     waiting |-> FALSE, retryTicker |-> FALSE, retries |-> 0, expired |-> FALSE,
     saw |-> FALSE, terminal |-> FALSE, physical |-> 0,
     pending |-> <<>>, drainScheduled |-> FALSE, accept |-> FALSE,
     overflowed |-> FALSE, status |-> "none", held |-> <<>>, ended |-> FALSE,
     posting |-> FALSE, drains |-> 0]

NoWire == [open |-> FALSE, sent |-> 0, status |-> "none", cancelled |-> FALSE]

Init ==
    /\ req = [r \in Requests |-> NewRequest]
    /\ active = {}
    /\ limit \in Limits
    /\ tickers = {}
    /\ ticker = 0
    /\ wire = [r \in Requests |-> NoWire]
    /\ stack = <<>>
    /\ heard = [r \in Requests |-> <<>>]
    /\ told = [r \in Requests |-> <<>>]

\* FRequestLifetime::IsPhysicallySettled of every lifetime still listed.
Outstanding ==
    {r \in Requests : req[r].accepted /\ ~(req[r].terminal /\ req[r].physical = 0)}

-----------------------------------------------------------------------------
(* The game thread's stack *)

Delegate(r) == [kind |-> "delegate", r |-> r]
Frame(kind, r) == [kind |-> kind, r |-> r]
Idle == stack = <<>>
AppMayCall == ~Idle => Head(stack).kind = "delegate"
Running(kind) == ~Idle /\ Head(stack).kind = kind
Rest == Tail(stack)

-----------------------------------------------------------------------------
(* Operators on one request *)

ResetStreamAttempt(q, accept) ==
    [q EXCEPT !.pending = <<>>, !.drainScheduled = FALSE, !.accept = accept,
              !.overflowed = FALSE, !.status = "none", !.held = <<>>, !.ended = FALSE]

\* CompleteOneShotRequest and CompleteStreamRequest up to their delegate.
Completed(q) ==
    [q EXCEPT !.terminal = TRUE, !.retryTicker = FALSE, !.attached = FALSE,
              !.accept = FALSE, !.pending = <<>>, !.drainScheduled = FALSE]

\* Ends r: its terminal delegate runs on top of the frames in rest.
Complete(r, q, how, rest) ==
    /\ req' = [req EXCEPT ![r] = Completed(q)]
    /\ active' = active \ {r}
    /\ told' = [told EXCEPT ![r] = Append(@, how)]
    /\ stack' = <<Delegate(r)>> \o rest

\* Mutant: reads the HTTP request after completing, which has detached it.
AbortDetached(r, q) == IF Completed(q).attached THEN <<Frame("abort", r)>> ELSE <<>>

\* The HTTP request captured before completing is cancelled once the delegate
\* has returned.
Abort(r, q) == IF q.attached THEN <<Frame("abort", r)>> ELSE <<>>

\* A body that is too large, a backend without streaming and a ProcessRequest
\* that refuses all end the request inside the call; the HTTP request, if it
\* was created, is settled by then.  The attempt's number is not read again.
AttemptFails(r, q, rest) ==
    Complete(r, [q EXCEPT !.waiting = FALSE, !.retryTicker = FALSE], "Failed", rest)

AttemptStarts(r, q) ==
    LET s == [q EXCEPT !.retryTicker = FALSE, !.waiting = FALSE, !.attempt = @ + 1,
                       !.attached = TRUE, !.physical = @ + 1]
    IN /\ req' = [req EXCEPT ![r] =
                     IF q.mode = "Stream" THEN ResetStreamAttempt(s, TRUE) ELSE s]
       /\ wire' = [wire EXCEPT ![r] = [NoWire EXCEPT !.open = TRUE]]

-----------------------------------------------------------------------------
(* Starting requests *)

\* A ticker that is firing keeps its identity until it returns.
FreeTickers ==
    {t \in 1 .. MaxTickers :
        /\ t \notin tickers
        /\ \A i \in DOMAIN stack : stack[i].kind = "pump" => stack[i].ticker # t}

EnsureDeadlineTicker ==
    IF ticker # 0
    THEN UNCHANGED <<ticker, tickers>>
    ELSE \E t \in FreeTickers :
            /\ ticker' = t
            /\ tickers' = tickers \union {t}

\* Admission refused, or a preflight failure: the delegate runs in the call.
Reject(r) ==
    /\ told' = [told EXCEPT ![r] = Append(@, "Failed")]
    /\ stack' = <<Delegate(r)>> \o stack
    /\ UNCHANGED <<req, active, limit, tickers, ticker, wire, heard>>

\* Mutant: counts only the requests that still run.
HasActiveCapacity == Cardinality(active) < limit

HasCapacity == Cardinality(Outstanding) < limit

Admit(r, mode) ==
    /\ HasCapacity
    /\ EnsureDeadlineTicker
    /\ LET q == [req[r] EXCEPT !.accepted = TRUE, !.mode = mode]
       IN \/ /\ AttemptStarts(r, q)
             /\ active' = active \union {r}
             /\ UNCHANGED <<stack, told>>
          \/ /\ AttemptFails(r, q, stack)
             /\ UNCHANGED wire
    /\ UNCHANGED <<limit, heard>>

Start(r) ==
    /\ AppMayCall
    /\ ~req[r].accepted /\ told[r] = <<>>
    /\ \/ Reject(r)
       \/ \E mode \in Modes : Admit(r, mode)

-----------------------------------------------------------------------------
(* DrainStreamRequest *)

\* One chunk through the SSE parser: the event held from earlier chunks, then
\* the chunk's own; an unterminated last event is held back.
Parsed(q, chunk) ==
    LET all == q.held \o chunk.events
    IN IF chunk.open
       THEN [events |-> Front(all), held |-> <<Last(all)>>]
       ELSE [events |-> all, held |-> <<>>]

DrainFrame(r, chunks, events, code) ==
    [kind |-> "drain", r |-> r, chunks |-> chunks, events |-> events, code |-> code]

\* Mutant: takes the queue before it looks at the status.
DrainEarly(r, q, rest) ==
    LET drained == [q EXCEPT !.pending = <<>>, !.drainScheduled = FALSE]
    IN IF r \notin active \/ q.terminal \/ q.waiting
       THEN /\ req' = [req EXCEPT ![r] = q]
            /\ stack' = rest
            /\ UNCHANGED <<active, told>>
       ELSE IF q.overflowed THEN Complete(r, drained, "Failed", Abort(r, q) \o rest)
       ELSE /\ req' = [req EXCEPT ![r] = drained]
            /\ stack' = IF q.status = "none" THEN rest
                        ELSE <<DrainFrame(r, q.pending, <<>>, q.status)>> \o rest
            /\ UNCHANGED <<active, told>>

\* Drains r, whose state is q, and goes on with the frames in rest.
Drain(r, q, rest) ==
    LET drained == [q EXCEPT !.pending = <<>>, !.drainScheduled = FALSE]
    IN \/ /\ r \notin active \/ q.terminal \/ q.waiting
          /\ req' = [req EXCEPT ![r] = q]
          /\ stack' = rest
          /\ UNCHANGED <<active, told>>
       \/ /\ r \in active /\ ~q.terminal /\ ~q.waiting
          /\ \/ /\ q.status = "none" /\ ~q.overflowed
                /\ req' = [req EXCEPT ![r] = [q EXCEPT !.drainScheduled = FALSE]]
                /\ stack' = rest
                /\ UNCHANGED <<active, told>>
             \/ /\ q.overflowed
                /\ Complete(r, drained, "Failed", Abort(r, q) \o rest)
             \/ /\ q.status # "none" /\ ~q.overflowed
                /\ req' = [req EXCEPT ![r] = drained]
                /\ stack' = <<DrainFrame(r, q.pending, <<>>, q.status)>> \o rest
                /\ UNCHANGED <<active, told>>

DrainTask(r) ==
    /\ Idle
    /\ req[r].drains > 0
    /\ Drain(r, [req[r] EXCEPT !.drains = @ - 1], <<>>)
    /\ UNCHANGED <<limit, tickers, ticker, wire, heard>>

\* ProcessSseEvent on the first of f.events; the caller's event delegate runs
\* before the rest of the frame.
ProcessSseEvent(f) ==
    LET n == Head(f.events)
        q == [req[f.r] EXCEPT !.saw = TRUE, !.ended = @ \/ n = StreamLength]
    IN /\ req' = [req EXCEPT ![f.r] = q]
       /\ heard' = [heard EXCEPT ![f.r] = Append(@, n)]
       /\ stack' = <<Delegate(f.r), [f EXCEPT !.events = Tail(@)]>> \o Rest
       /\ UNCHANGED <<active, told>>

\* The event limit, an event the protocol refuses, an event that is too long.
StreamFails(f) ==
    /\ Complete(f.r, req[f.r], "Failed", Abort(f.r, req[f.r]) \o Rest)
    /\ UNCHANGED heard

\* An error response's chunks are kept as the error body, not parsed.
TakeChunk(f) ==
    LET p == IF f.code = "error"
             THEN [events |-> <<>>, held |-> req[f.r].held]
             ELSE Parsed(req[f.r], Head(f.chunks))
    IN /\ req' = [req EXCEPT ![f.r].held = p.held]
       /\ stack' = <<[f EXCEPT !.chunks = Tail(@), !.events = p.events]>> \o Rest
       /\ UNCHANGED <<active, heard, told>>

\* Mutant: does not look whether the delegate ended the request.
DrainStepOn ==
    /\ Running("drain")
    /\ LET f == Head(stack)
       IN \/ /\ f.events = <<>> /\ f.chunks = <<>>
             /\ stack' = Rest
             /\ UNCHANGED <<req, active, heard, told>>
          \/ f.events # <<>> /\ ProcessSseEvent(f)
          \/ f.events = <<>> /\ f.chunks # <<>> /\ TakeChunk(f)
    /\ UNCHANGED <<limit, tickers, ticker, wire>>

DrainStep ==
    /\ Running("drain")
    /\ LET f == Head(stack)
       IN \/ /\ f.r \notin active \/ (f.events = <<>> /\ f.chunks = <<>>)
             /\ stack' = Rest
             /\ UNCHANGED <<req, active, heard, told>>
          \/ /\ f.r \in active /\ f.events # <<>>
             /\ ProcessSseEvent(f) \/ StreamFails(f)
          \/ /\ f.r \in active /\ f.events = <<>> /\ f.chunks # <<>>
             /\ TakeChunk(f) \/ (f.code = "ok" /\ StreamFails(f))
    /\ UNCHANGED <<limit, tickers, ticker, wire>>

-----------------------------------------------------------------------------
(* The HTTP thread *)

\* Marks a drain wanted; the task is posted after the mutex is released.
ScheduleDrain(q) ==
    IF q.drainScheduled THEN q
    ELSE [q EXCEPT !.drainScheduled = TRUE, !.posting = TRUE]

\* The next one or two events; an open chunk stops before the last one's
\* terminator.
NextChunks(sent) ==
    {[events |-> es, open |-> o] :
        es \in {s \in {<<sent + 1>>, <<sent + 1, sent + 2>>} : Last(s) <= StreamLength},
        o \in BOOLEAN}

\* Mutant: the queue takes one chunk more than it may.
ReceiveChunkTooMany(r) ==
    /\ wire[r].open /\ req[r].mode = "Stream"
    /\ ~req[r].posting /\ req[r].accept
    /\ \E chunk \in NextChunks(wire[r].sent) :
        /\ wire' = [wire EXCEPT ![r].sent = Last(chunk.events)]
        /\ LET q == req[r]
           IN req' = [req EXCEPT ![r] = ScheduleDrain(
                         IF Len(q.pending) > QueueCapacity
                         THEN [q EXCEPT !.accept = FALSE, !.overflowed = TRUE]
                         ELSE [q EXCEPT !.pending = Append(@, chunk)])]
    /\ UNCHANGED <<active, limit, tickers, ticker, stack, heard, told>>

ReceiveChunk(r) ==
    /\ wire[r].open /\ req[r].mode = "Stream"
    /\ ~req[r].posting /\ req[r].accept
    /\ \E chunk \in NextChunks(wire[r].sent) :
        /\ wire' = [wire EXCEPT ![r].sent = Last(chunk.events)]
        /\ LET q == req[r]
           IN req' = [req EXCEPT ![r] = ScheduleDrain(
                         IF Len(q.pending) >= QueueCapacity
                         THEN [q EXCEPT !.accept = FALSE, !.overflowed = TRUE]
                         ELSE [q EXCEPT !.pending = Append(@, chunk)])]
    /\ UNCHANGED <<active, limit, tickers, ticker, stack, heard, told>>

\* Mutant: data that came before the status is not drained for it.
ReceiveStatusOnly(r) ==
    /\ wire[r].open /\ req[r].mode = "Stream"
    /\ ~req[r].posting /\ wire[r].status = "none" /\ req[r].attached
    /\ \E code \in {"ok", "error"} :
        /\ wire' = [wire EXCEPT ![r].status = code]
        /\ req' = [req EXCEPT ![r].status = code]
    /\ UNCHANGED <<active, limit, tickers, ticker, stack, heard, told>>

ReceiveStatus(r) ==
    /\ wire[r].open /\ req[r].mode = "Stream"
    /\ ~req[r].posting /\ wire[r].status = "none" /\ req[r].attached
    /\ \E code \in {"ok", "error"} :
        /\ wire' = [wire EXCEPT ![r].status = code]
        /\ LET q == [req[r] EXCEPT !.status = code]
           IN req' = [req EXCEPT ![r] =
                         IF q.pending # <<>> THEN ScheduleDrain(q) ELSE q]
    /\ UNCHANGED <<active, limit, tickers, ticker, stack, heard, told>>

PostDrain(r) ==
    /\ req[r].posting
    /\ req' = [req EXCEPT ![r].posting = FALSE, ![r].drains = @ + 1]
    /\ UNCHANGED <<active, limit, tickers, ticker, wire, stack, heard, told>>

-----------------------------------------------------------------------------
(* The end of an attempt *)

\* How the transport reports the end: no response at all, a response whose
\* body broke off, an error response, a whole response, one of another type.
Outcomes == {"lost", "broken", "error", "whole", "wrongType"}

CodeOf(outcome, known) ==
    CASE outcome = "lost" -> known
      [] outcome = "broken" -> IF known = "none" THEN "ok" ELSE known
      [] outcome = "error" -> "error"
      [] OTHER -> "ok"

Possible(r) ==
    {o \in Outcomes :
        /\ wire[r].status # "none" => CodeOf(o, wire[r].status) = wire[r].status
        /\ wire[r].cancelled => o = "lost"}

ResponseFrame(r, outcome) == [kind |-> "response", r |-> r, outcome |-> outcome]
Settle(r) == Frame("settle", r)

\* HandleStreamResponse up to the return of its drain.
HandleStreamResponse(r, outcome) ==
    /\ IF r \in active /\ ~req[r].terminal
       THEN Drain(r, [req[r] EXCEPT !.status = CodeOf(outcome, @)],
                  <<ResponseFrame(r, outcome), Settle(r)>>)
       ELSE /\ stack' = <<Settle(r)>>
            /\ UNCHANGED <<req, active, told>>

\* Mutant: retries although the caller has heard events.
RetryAfterEvents(r, q, rest) ==
    /\ q.retries < MaxRetries /\ ~q.expired
    /\ LET w == [q EXCEPT !.retries = @ + 1, !.waiting = TRUE]
       IN req' = [req EXCEPT ![r] =
                     IF q.mode = "Stream" THEN ResetStreamAttempt(w, FALSE) ELSE w]
    /\ stack' = <<Delegate(r), Frame("backoff", r)>> \o rest
    /\ UNCHANGED <<active, told>>

\* RetryDelegate runs before the backoff ticker is registered.
TryScheduleRetry(r, q, rest) ==
    /\ q.mode = "Stream" => ~q.saw
    /\ q.retries < MaxRetries /\ ~q.expired
    /\ LET w == [q EXCEPT !.retries = @ + 1, !.waiting = TRUE]
       IN req' = [req EXCEPT ![r] =
                     IF q.mode = "Stream" THEN ResetStreamAttempt(w, FALSE) ELSE w]
    /\ stack' = <<Delegate(r), Frame("backoff", r)>> \o rest
    /\ UNCHANGED <<active, told>>

\* A failure is retried only if the policy finds it retryable and the backoff
\* ends before the deadline, which the model leaves open.
RetryOrFail(r, q, rest) ==
    TryScheduleRetry(r, q, rest) \/ Complete(r, q, "Failed", rest)

\* HandleChatCompletionResponse; an unparsable or oversized answer fails.
HandleChatCompletionResponse(r, outcome) ==
    LET q == [req[r] EXCEPT !.attached = FALSE]
        rest == <<Settle(r)>>
    IN IF r \notin active \/ q.terminal
       THEN /\ stack' = rest
            /\ UNCHANGED <<req, active, told>>
       ELSE \/ RetryOrFail(r, q, rest)
            \/ outcome = "whole" /\ Complete(r, q, "Completed", rest)

TransportCompletes(r) ==
    /\ Idle
    /\ wire[r].open /\ ~req[r].posting
    /\ wire' = [wire EXCEPT ![r].open = FALSE]
    /\ \E outcome \in Possible(r) :
        IF req[r].mode = "Stream"
        THEN HandleStreamResponse(r, outcome)
        ELSE HandleChatCompletionResponse(r, outcome)
    /\ UNCHANGED <<limit, tickers, ticker, heard>>

\* HandleStreamResponse after its drain.
ResponseStep ==
    /\ Running("response")
    /\ LET f == Head(stack)
           q == [req[f.r] EXCEPT !.attached = FALSE]
       IN \/ /\ f.r \notin active
             /\ stack' = Rest
             /\ UNCHANGED <<req, active, told>>
          \/ /\ f.r \in active /\ f.outcome \in {"lost", "broken", "error"}
             /\ RetryOrFail(f.r, q, Rest)
          \/ /\ f.r \in active /\ f.outcome = "wrongType"
             /\ Complete(f.r, q, "Failed", Rest)
          \/ /\ f.r \in active /\ f.outcome = "whole"
             /\ req' = [req EXCEPT ![f.r] = [q EXCEPT !.held = <<>>]]
             /\ stack' = <<[kind |-> "finish", r |-> f.r, events |-> q.held]>> \o Rest
             /\ UNCHANGED <<active, told>>
    /\ UNCHANGED <<limit, tickers, ticker, wire, heard>>

\* The parser's last event, then the verdict on the whole stream.
FinishStep ==
    /\ Running("finish")
    /\ LET f == Head(stack)
       IN \/ /\ f.r \notin active
             /\ stack' = Rest
             /\ UNCHANGED <<req, active, heard, told>>
          \/ /\ f.r \in active /\ f.events # <<>>
             /\ ProcessSseEvent(f) \/ StreamFails(f)
          \/ /\ f.r \in active /\ f.events = <<>> /\ UNCHANGED heard
             /\ IF req[f.r].ended
                THEN Complete(f.r, req[f.r], "Completed", Rest)
                ELSE RetryOrFail(f.r, req[f.r], Rest)
    /\ UNCHANGED <<limit, tickers, ticker, wire>>

BackoffStep ==
    /\ Running("backoff")
    /\ LET r == Head(stack).r
       IN req' = [req EXCEPT ![r].retryTicker = r \in active]
    /\ stack' = Rest
    /\ UNCHANGED <<active, limit, tickers, ticker, wire, heard, told>>

\* Mutant: an attempt of a request that has ended is not settled.
SettleActive ==
    /\ Running("settle")
    /\ req' = [req EXCEPT ![Head(stack).r].physical = IF Head(stack).r \in active THEN @ - 1 ELSE @]
    /\ stack' = Rest
    /\ UNCHANGED <<active, limit, tickers, ticker, wire, heard, told>>

\* FPhysicalAttempt::Complete on leaving the completion callback.
SettleStep ==
    /\ Running("settle")
    /\ req' = [req EXCEPT ![Head(stack).r].physical = @ - 1]
    /\ stack' = Rest
    /\ UNCHANGED <<active, limit, tickers, ticker, wire, heard, told>>

ResumeRequestAfterBackoff(r) ==
    /\ Idle
    /\ req[r].retryTicker /\ r \in active
    /\ \/ AttemptStarts(r, req[r]) /\ UNCHANGED <<active, stack, told>>
       \/ AttemptFails(r, req[r], <<>>) /\ UNCHANGED wire
    /\ UNCHANGED <<limit, tickers, ticker, heard>>

-----------------------------------------------------------------------------
(* Cancellation, deadlines, shutdown *)

FinishCancel(r, q, rest) ==
    Complete(r, q, "Cancelled", Abort(r, q) \o rest)

CancelRequest(r) ==
    /\ "Cancel" \in Calls
    /\ AppMayCall /\ r \in active
    /\ IF req[r].mode = "Stream" /\ ~req[r].waiting
       THEN Drain(r, req[r], <<Frame("cancel", r)>> \o stack)
       ELSE FinishCancel(r, req[r], stack)
    /\ UNCHANGED <<limit, tickers, ticker, wire, heard>>

CancelStep ==
    /\ Running("cancel")
    /\ LET r == Head(stack).r
       IN IF r \in active
          THEN FinishCancel(r, req[r], Rest)
          ELSE stack' = Rest /\ UNCHANGED <<req, active, told>>
    /\ UNCHANGED <<limit, tickers, ticker, wire, heard>>

AbortStep ==
    /\ Running("abort")
    /\ wire' = [wire EXCEPT ![Head(stack).r].cancelled = TRUE]
    /\ stack' = Rest
    /\ UNCHANGED <<req, active, limit, tickers, ticker, heard, told>>

DeadlinePasses(r) ==
    /\ r \in active /\ ~req[r].expired
    /\ req' = [req EXCEPT ![r].expired = TRUE]
    /\ UNCHANGED <<active, limit, tickers, ticker, wire, stack, heard, told>>

Expired == {r \in active : req[r].expired}

PumpFrame(t, due) == [kind |-> "pump", ticker |-> t, due |-> due]

\* Mutant: the handle still looks valid after the ticker has gone.
TickerReturnsQuietly(t) ==
    /\ IF active = {} THEN tickers' = tickers \ {t} ELSE UNCHANGED tickers
    /\ UNCHANGED ticker

\* The ticker that finds nothing active removes itself and clears the handle.
TickerReturns(t) ==
    /\ IF active = {}
       THEN tickers' = tickers \ {t} /\ ticker' = 0
       ELSE UNCHANGED <<tickers, ticker>>

PumpDeadlines(t) ==
    /\ Idle /\ t \in tickers
    /\ IF Expired # {}
       THEN /\ stack' = <<PumpFrame(t, Expired)>>
            /\ UNCHANGED <<tickers, ticker>>
       ELSE TickerReturns(t) /\ UNCHANGED stack
    /\ UNCHANGED <<req, active, limit, wire, heard, told>>

PumpStep ==
    /\ Running("pump")
    /\ LET f == Head(stack)
       IN \/ /\ f.due = {}
             /\ TickerReturns(f.ticker)
             /\ stack' = Rest
             /\ UNCHANGED <<req, active, told>>
          \/ \E r \in f.due :
             LET after == <<[f EXCEPT !.due = @ \ {r}]>> \o Rest
             IN /\ IF req[r].terminal
                   THEN stack' = after /\ UNCHANGED <<req, active, told>>
                   ELSE Complete(r, req[r], "Failed", Abort(r, req[r]) \o after)
                /\ UNCHANGED <<tickers, ticker>>
    /\ UNCHANGED <<limit, wire, heard>>

\* CancelAllRequests unbinds the delegates: nothing is called back.
Closed(q) ==
    [q EXCEPT !.terminal = TRUE, !.retryTicker = FALSE, !.attached = FALSE,
              !.accept = FALSE, !.pending = <<>>]

Shutdown ==
    /\ "Shutdown" \in Calls
    /\ AppMayCall
    /\ tickers' = tickers \ {ticker}
    /\ ticker' = 0
    /\ active' = {}
    /\ req' = [r \in Requests |-> IF r \in active THEN Closed(req[r]) ELSE req[r]]
    /\ told' = [r \in Requests |->
                   IF r \in active THEN Append(told[r], "Closed") ELSE told[r]]
    /\ wire' = [r \in Requests |->
                   IF r \in active /\ req[r].attached
                   THEN [wire[r] EXCEPT !.cancelled = TRUE] ELSE wire[r]]
    /\ UNCHANGED <<limit, stack, heard>>

SetLimits(n) ==
    /\ "SetLimits" \in Calls
    /\ AppMayCall
    /\ active = {} /\ Outstanding = {}
    /\ limit' = n
    /\ UNCHANGED <<req, active, tickers, ticker, wire, stack, heard, told>>

DelegateReturns ==
    /\ Running("delegate")
    /\ stack' = Rest
    /\ UNCHANGED <<req, active, limit, tickers, ticker, wire, heard, told>>

-----------------------------------------------------------------------------

GameThread ==
    \/ DrainStep \/ ResponseStep \/ FinishStep \/ BackoffStep \/ SettleStep
    \/ CancelStep \/ AbortStep \/ PumpStep \/ DelegateReturns

Next ==
    \/ \E r \in Requests :
        \/ Start(r) \/ DrainTask(r) \/ TransportCompletes(r)
        \/ ResumeRequestAfterBackoff(r) \/ CancelRequest(r)
        \/ ReceiveChunk(r) \/ ReceiveStatus(r) \/ PostDrain(r) \/ DeadlinePasses(r)
    \/ GameThread
    \/ \E t \in tickers : PumpDeadlines(t)
    \/ \E n \in Limits : SetLimits(n)
    \/ Shutdown

Spec == Init /\ [][Next]_vars

\* The engine runs posted tasks and fires core tickers every frame, a transport
\* completes a request it was told to cancel, and application delegates return.
Fairness ==
    /\ WF_vars(GameThread)
    /\ \A r \in Requests :
        /\ WF_vars(DrainTask(r))
        /\ WF_vars(PostDrain(r))
        /\ WF_vars(DeadlinePasses(r))
        /\ WF_vars(wire[r].cancelled /\ TransportCompletes(r))
    /\ \A t \in 1 .. MaxTickers : WF_vars(PumpDeadlines(t))

FairSpec == Spec /\ Fairness

-----------------------------------------------------------------------------
(* Properties *)

RequestType ==
    [accepted : BOOLEAN, mode : {"OneShot", "Stream"}, attempt : 0 .. MaxRetries + 1,
     attached : BOOLEAN, waiting : BOOLEAN, retryTicker : BOOLEAN,
     retries : 0 .. MaxRetries, expired : BOOLEAN, saw : BOOLEAN,
     terminal : BOOLEAN, physical : 0 .. 1, pending : Seq(Chunks),
     drainScheduled : BOOLEAN, accept : BOOLEAN, overflowed : BOOLEAN,
     status : Codes, held : Seq(Events), ended : BOOLEAN,
     posting : BOOLEAN, drains : Nat]

\* Every variable has its type; the queue stays within its bound, an attempt
\* has one physical request, retries stay within the policy.
TypeOK ==
    /\ req \in [Requests -> RequestType]
    /\ \A r \in Requests : Len(req[r].pending) <= QueueCapacity /\ Len(req[r].held) <= 1
    /\ active \subseteq Requests
    /\ limit \in Limits
    /\ tickers \subseteq 1 .. MaxTickers
    /\ ticker \in 0 .. MaxTickers
    /\ wire \in [Requests -> [open : BOOLEAN, sent : 0 .. StreamLength,
                              status : Codes, cancelled : BOOLEAN]]
    /\ heard \in [Requests -> Seq(Events)]
    /\ told \in [Requests -> Seq({"Completed", "Failed", "Cancelled", "Closed"})]

\* Data that can be parsed, or an overflow, never waits in a running stream's
\* queue without a drain on its way: HTTP thread and game thread hand the
\* bDrainScheduled flag to each other without losing a wake-up.
QueuedDataIsDrained ==
    \A r \in active :
        \/ req[r].pending # <<>> /\ req[r].status # "none"
        \/ req[r].overflowed
        => req[r].posting \/ req[r].drains > 0

\* A stream reported Completed delivered each provider event once, in order:
\* nothing was lost between the queue, the parser and the delegates, and no
\* retry sent the request again once an event was delivered.
CompletedStreamsAreWhole ==
    \A r \in Requests :
        req[r].mode = "Stream" /\ told[r] = <<"Completed">>
        => heard[r] = [n \in Events |-> n]

\* The two together, of well-typed states: what keeps a stream complete.
StreamsAreWhole == TypeOK /\ QueuedDataIsDrained /\ CompletedStreamsAreWhole

\* The requests whose transport has not settled never exceed the limit, though
\* logical completion, retries and SetLimits come between.
PhysicalCapacity ==
    Cardinality({r \in Requests : req[r].physical > 0}) <= limit

\* Something will enforce the deadline of every running request: a shutdown or
\* a new request from within a delegate never leaves the handle valid and the
\* ticker gone.
DeadlinesAreWatched ==
    active # {} => tickers # {}

\* A request that ended while its transport was open has had the transport
\* cancelled, or the suspended call that will do so is on the stack.
AbandonedTransportsAreCancelled ==
    \A r \in Requests :
        req[r].terminal /\ wire[r].open
        => wire[r].cancelled \/ \E i \in DOMAIN stack : stack[i] = Frame("abort", r)

\* The capacity is that of the requests somebody will still end.
TransportsAreAccounted ==
    PhysicalCapacity /\ AbandonedTransportsAreCancelled /\ DeadlinesAreWatched

\* Every logically complete request is physically settled in the end, so its
\* slot is returned.
PhysicallySettles ==
    \A r \in Requests : req[r].terminal ~> req[r].physical = 0

\* The caller hears what the contract lets it hear.
Contract ==
    INSTANCE ExecutionContract WITH running <- active

RefinesContract == Contract!Spec

\* Documentation/README.md: "Stream callbacks are delivered in provider order
\* on the game thread."
DeliveredInOrder ==
    \A r \in Requests : heard[r] = [n \in 1 .. Len(heard[r]) |-> n]
=============================================================================
