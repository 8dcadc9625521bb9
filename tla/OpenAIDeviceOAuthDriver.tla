------------------------- MODULE OpenAIDeviceOAuthDriver -------------------------
(***************************************************************************)
(* FUnrealAIOpenAIDeviceOAuthDriver: one call of Authorize or Refresh, a   *)
(* thread that performs its exchanges one after another, over the OAuth    *)
(* transport.  Deadlines are flags that time sets; the transport and the   *)
(* driver use one for an exchange.  Bodies that cannot be made are left    *)
(* out.                                                                    *)
(***************************************************************************)
EXTENDS MacOAuthHttpTransport

CONSTANT MaxPollAttempts

VARIABLE driver

vars == <<http, table, cancelled, driver>>

NewDriver ==
    [mode |-> "none", at |-> "idle", kind |-> "none", request |-> "none", polls |-> 0,
     overdue |-> FALSE, declined |-> FALSE, error |-> "none", result |-> "none"]

Init == TransportInit /\ driver = NewDriver

At(place) == driver.at = place
Goes(place) == driver' = [driver EXCEPT !.at = place]
Returns(result) == driver' = [driver EXCEPT !.at = "returned", !.result = result]

\* MakeCancellationError
CancellationError == IF cancelled = "Timeout" THEN "timed out" ELSE "cancelled"

-----------------------------------------------------------------------------
(* Authorize and Refresh up to their first exchange. *)

Authorize ==
    /\ At("idle")
    /\ driver' = [driver EXCEPT !.mode = "authorize", !.at = "checking", !.kind = "device"]
    /\ UNCHANGED transportVars

Refresh ==
    /\ At("idle")
    /\ driver' = [driver EXCEPT !.mode = "refresh", !.at = "checking", !.kind = "refresh"]
    /\ UNCHANGED transportVars

-----------------------------------------------------------------------------
(* PerformOAuthExchange. *)

\* Its first checks, and the caller's look at its own deadline: an authorization
\* that is overdue before it exchanges its code makes no error for that, and
\* reports a failure.
CheckExchange ==
    /\ At("checking")
    /\ IF driver.overdue /\ driver.kind = "token" THEN Returns("failed")
       ELSE IF cancelled # "no" THEN Returns(CancellationError)
       ELSE IF driver.overdue /\ driver.kind = "device" THEN Returns("timed out")
       ELSE Goes("starting")
    /\ UNCHANGED transportVars

StartRequest(fits) ==
    /\ At("starting")
    /\ IF Admits(fits)
       THEN \E r \in Requests \ table.active :
               /\ Started(r)
               /\ driver' = [driver EXCEPT !.at = "waiting", !.request = r]
       ELSE Returns("failed") /\ UNCHANGED <<http, table>>
    /\ UNCHANGED cancelled

Current == http[driver.request]

\* CancelOnce, at a cancellation or at the deadline, whatever the sink holds.
GiveUp(error) ==
    /\ driver' = [driver EXCEPT !.at = "cancelling", !.error = error]
    /\ http' = [http EXCEPT ![driver.request] = Finished(@, "Cancelled", "caller")]
    /\ UNCHANGED <<table, cancelled>>

\* Mutant: a cancelled exchange is left to itself.
LeavesCancelled ==
    /\ At("waiting") /\ cancelled # "no"
    /\ driver' = [driver EXCEPT !.at = "cancelling", !.error = CancellationError]
    /\ UNCHANGED transportVars

WaitCancelled == At("waiting") /\ cancelled # "no" /\ GiveUp(CancellationError)

\* Mutant: only a cancellation ends the wait.
WaitsForever ==
    At("waiting") /\ Current.expired /\ cancelled # "no" /\ GiveUp("timed out")

WaitExpired == At("waiting") /\ Current.expired /\ GiveUp("timed out")

\* Handle->Cancel() returns when its Finish is done, or was another's.
CancelReturns ==
    /\ At("cancelling")
    /\ Current.by = "caller" => Current.owes = "nothing"
    /\ Returns(driver.error)
    /\ UNCHANGED transportVars

\* Mutant: a response is taken for the answer, however its transfer ended.
TakesAnyway(r) ==
    IF http[r].response # "none" THEN "answered"
    ELSE IF http[r].terminal = "Cancelled" THEN CancellationError
    ELSE IF http[r].terminal = "TimedOut" THEN "timed out"
    ELSE "failed"

\* What the exchange returns, by the terminal kind of its result.
Exchanged(r) ==
    CASE http[r].terminal = "Succeeded" -> "answered"
      [] http[r].terminal = "Cancelled" -> CancellationError
      [] http[r].terminal = "TimedOut"  -> "timed out"
      [] OTHER                          -> "failed"

\* A body that is read: strict JSON, with what its exchange needs.
Readable(r) == http[r].response = "ok" /\ http[r].body

\* How Authorize goes on with the answer of each of its exchanges, ...
DeviceAnswered(r) == IF Readable(r) THEN "publishing" ELSE "failed"

PollAnswered(r) ==
    IF Readable(r) THEN "approved"
    ELSE IF http[r].response = "pending" THEN "pausing" ELSE "failed"

\* ... of which the last brings the tokens, an expiry and an account in them, ...
TokenAnswered(r) == IF Readable(r) THEN "succeeded" ELSE "failed"

\* ... and Refresh with its own.
RefreshAnswered(r) ==
    IF http[r].response = "refused" THEN "not authorized" ELSE TokenAnswered(r)

Answered(kind, r) ==
    CASE kind = "device"  -> DeviceAnswered(r)
      [] kind = "poll"    -> PollAnswered(r)
      [] kind = "token"   -> TokenAnswered(r)
      [] kind = "refresh" -> RefreshAnswered(r)

TakeResult ==
    /\ At("waiting") /\ Current.sink = "stored"
    /\ http' = [http EXCEPT ![driver.request].sink = "taken"]
    /\ LET r == driver.request
           next == IF Exchanged(r) = "answered" THEN Answered(driver.kind, r) ELSE Exchanged(r)
       IN CASE next \in {"publishing", "pausing"} -> Goes(next)
            [] next = "approved" -> driver' = [driver EXCEPT !.at = "checking", !.kind = "token"]
            [] OTHER             -> Returns(next)
    /\ UNCHANGED <<table, cancelled>>

-----------------------------------------------------------------------------
(* The device code and its polls. *)

\* The publisher is the account provider; it refuses for an operation that ended.
PublishInteraction(accepted) ==
    /\ At("publishing")
    /\ IF accepted THEN Goes("polling")
       ELSE driver' = [driver EXCEPT !.at = "returned", !.result = "cancelled",
                                     !.declined = TRUE]
    /\ UNCHANGED transportVars

PollAttempt ==
    /\ At("polling")
    /\ IF driver.polls = MaxPollAttempts THEN Returns("timed out")
       ELSE IF cancelled # "no" THEN Returns(CancellationError)
       ELSE IF driver.overdue THEN Returns("timed out")
       ELSE driver' = [driver EXCEPT !.at = "checking", !.kind = "poll"]
    /\ UNCHANGED transportVars

WaitForPoll ==
    /\ At("pausing")
    /\ IF cancelled # "no" THEN Returns(CancellationError)
       ELSE IF driver.overdue THEN Returns("timed out")
       ELSE driver' = [driver EXCEPT !.at = "polling", !.polls = @ + 1]
    /\ UNCHANGED transportVars

-----------------------------------------------------------------------------
\* Time: the deadline of the exchange, and of the whole authorization.
ExchangeExpires ==
    /\ At("waiting") /\ Expire(driver.request)
    /\ UNCHANGED driver

AuthorizationExpires ==
    /\ driver.mode = "authorize" /\ ~At("returned") /\ ~driver.overdue
    /\ driver' = [driver EXCEPT !.overdue = TRUE]
    /\ UNCHANGED transportVars

DriverStep ==
    \/ CheckExchange \/ (\E fits \in BOOLEAN : StartRequest(fits))
    \/ WaitCancelled \/ WaitExpired \/ CancelReturns \/ TakeResult
    \/ (\E accepted \in BOOLEAN : PublishInteraction(accepted))
    \/ PollAttempt \/ WaitForPoll

\* The caller's token, until it has its answer.
CallerCancels(reason) == ~At("returned") /\ CancelToken(reason) /\ UNCHANGED driver

Next ==
    \/ \E reason \in {"Requested", "Timeout"} : CallerCancels(reason)
    \/ Authorize \/ Refresh \/ DriverStep \/ ExchangeExpires \/ AuthorizationExpires
    \/ TransportNext /\ UNCHANGED driver

Spec == Init /\ [][Next]_vars

\* The threads run and the deadline of an exchange passes; the issuer owes
\* nothing.
Fairness ==
    /\ WF_vars(DriverStep) /\ WF_vars(ExchangeExpires)
    /\ \A r \in Requests : WF_vars(FinishStep(r) /\ UNCHANGED driver)

FairSpec == Spec /\ Fairness

-----------------------------------------------------------------------------
(* Properties *)

\* A call reports what happened: success and a refusal are the issuer's own
\* answer to its last exchange, received whole; a cancellation and a timeout
\* have a cause.
OutcomeIsTrue ==
    LET last == IF driver.request = "none" THEN NewRequest ELSE http[driver.request] IN
    /\ driver.result = "succeeded" =>
          last.terminal = "Succeeded" /\ last.response = "ok" /\ last.body
    /\ driver.result = "not authorized" =>
          last.terminal = "Succeeded" /\ last.response = "refused"
    /\ driver.result = "cancelled" =>
          cancelled = "Requested" \/ table.down \/ driver.declined
    /\ driver.result = "timed out" =>
          \/ cancelled = "Timeout" \/ driver.overdue \/ driver.polls = MaxPollAttempts
          \/ last.expired \/ last.terminal = "TimedOut"

\* When a call returns, and before it starts another, its exchange has ended:
\* what the transport still does about it reaches nobody.
NothingOutlivesTheCall ==
    \A r \in table.active :
        http[r].terminal = "none" => At("waiting") /\ r = driver.request

\* A call returns, whatever the issuer does, and its requests leave the table.
Underway == ~At("idle")
Over == At("returned") /\ table.active = {}
CallReturns == Underway ~> Over

=============================================================================
