--------------------------- MODULE XAIDeviceOAuthDriver ---------------------------
(***************************************************************************)
(* FUnrealAIXAIDeviceOAuthDriver: one call of Authorize or Refresh, over   *)
(* the OAuth transport.  Every call first reads the issuer's discovery     *)
(* document, and a poll that succeeds brings the tokens.  The status of a  *)
(* response stands for what its whole answer says; body, for its being     *)
(* readable.  Deadlines are flags that time sets.                          *)
(***************************************************************************)
EXTENDS MacOAuthHttpTransport

VARIABLE driver

vars == <<http, table, cancelled, driver>>

\* lapsed: the deadline of the device code; overdue: that of the call.
NewDriver ==
    [mode |-> "none", at |-> "idle", kind |-> "none", request |-> "none",
     overdue |-> FALSE, lapsed |-> FALSE, published |-> FALSE, declined |-> FALSE,
     sent |-> FALSE, error |-> "none", result |-> "none"]

Init == TransportInit /\ driver = NewDriver

At(place) == driver.at = place
Goes(place) == driver' = [driver EXCEPT !.at = place]
Returns(result) == driver' = [driver EXCEPT !.at = "returned", !.result = result]
Exchanges(kind) == driver' = [driver EXCEPT !.at = "checking", !.kind = kind]

\* MakeCancellationError
CancellationError == IF cancelled = "Timeout" THEN "timed out" ELSE "cancelled"

\* Authorize and Refresh both begin with Discover.
Begin(mode) ==
    /\ At("idle")
    /\ driver' = [driver EXCEPT !.mode = mode, !.at = "checking", !.kind = "discovery"]
    /\ UNCHANGED transportVars

-----------------------------------------------------------------------------
(* PerformOAuthExchange. *)

\* Discover looks at the deadline of the call before the token is looked at; a
\* poll has looked at its own deadline already.
CheckExchange ==
    /\ At("checking")
    /\ IF driver.overdue /\ driver.kind = "discovery" THEN Returns("timed out")
       ELSE IF cancelled # "no" THEN Returns(CancellationError)
       ELSE IF driver.overdue /\ driver.kind # "poll" THEN Returns("timed out")
       ELSE Goes("starting")
    /\ UNCHANGED transportVars

StartRequest(fits) ==
    /\ At("starting")
    /\ IF Admits(fits)
       THEN \E r \in Requests \ table.active :
               /\ Started(r)
               /\ driver' = [driver EXCEPT !.at = "waiting", !.request = r, !.sent = FALSE]
       ELSE Returns("failed") /\ UNCHANGED <<http, table>>
    /\ UNCHANGED cancelled

Current == http[driver.request]

Cancel(error) ==
    /\ driver' = [driver EXCEPT !.at = "cancelling", !.error = error, !.sent = TRUE]
    /\ http' = [http EXCEPT ![driver.request] = Finished(@, "Cancelled", "caller")]
    /\ UNCHANGED <<table, cancelled>>

\* A cancellation is passed on once, and the result still waited for ...
WaitCancelled ==
    At("waiting") /\ cancelled # "no" /\ ~driver.sent /\ Cancel("none")

\* Mutant: the request is left to its own deadline.
LeavesExpired ==
    /\ At("waiting") /\ Current.expired
    /\ Returns("timed out")
    /\ UNCHANGED transportVars

\* ... until some time after the deadline of the request.
WaitExpired == At("waiting") /\ Current.expired /\ Cancel("timed out")

\* Handle->Cancel() returns when its Finish is done, or was another's.
CancelReturns ==
    /\ At("cancelling")
    /\ Current.by = "caller" => Current.owes = "nothing"
    /\ IF driver.error = "none" THEN Goes("waiting") ELSE Returns(driver.error)
    /\ UNCHANGED transportVars

\* What the exchange returns, by the terminal kind of its result.
Exchanged(r) ==
    CASE http[r].terminal = "Succeeded" -> "answered"
      [] http[r].terminal = "Cancelled" -> CancellationError
      [] http[r].terminal = "TimedOut"  -> "timed out"
      [] OTHER                          -> "failed"

Readable(r, status) == http[r].response = status /\ http[r].body

\* A token answer that can be used; one whose scopes are too few is "narrow".
GrantsTokens(r) == Readable(r, "ok")

\* How Discover and Authorize go on with an answer.
DiscoveryAnswered(r) ==
    IF ~Readable(r, "ok") THEN "failed"
    ELSE IF driver.mode = "refresh" THEN "refresh" ELSE "device"

DeviceAnswered(r) ==
    IF Readable(r, "ok") THEN "publishing"
    ELSE IF http[r].response \in {"refused", "forbidden"} THEN "not authorized" ELSE "failed"

\* A poll brings tokens, or an error code of the issuer: not yet (or slower),
\* denied (or a status that says so), expired.
PollAnswered(r) ==
    CASE GrantsTokens(r)              -> "succeeded"
      [] Readable(r, "narrow")        -> "not authorized"
      [] http[r].response = "refused" -> "not authorized"
      [] http[r].response = "forbidden" /\ ~http[r].body -> "not authorized"
      [] Readable(r, "expired")       -> "timed out"
      [] Readable(r, "pending")       -> "again"
      [] OTHER                        -> "failed"

\* Mutant: an answer that is no refusal is taken for tokens.
AnyAnswerRefreshes(r) ==
    IF http[r].response = "refused" THEN "not authorized" ELSE "succeeded"

\* Refresh takes tokens of fewer scopes for a failure, and a forbidden one (403)
\* for a policy that denies the account its use, not for a grant that is void.
RefreshAnswered(r) ==
    CASE GrantsTokens(r)                -> "succeeded"
      [] http[r].response = "forbidden" -> "policy denied"
      [] http[r].response = "refused"   -> "not authorized"
      [] OTHER                          -> "failed"

Answered(kind, r) ==
    CASE kind = "discovery" -> DiscoveryAnswered(r)
      [] kind = "device"    -> DeviceAnswered(r)
      [] kind = "poll"      -> PollAnswered(r)
      [] kind = "refresh"   -> RefreshAnswered(r)

TakeResult ==
    /\ At("waiting") /\ Current.sink = "stored"
    /\ http' = [http EXCEPT ![driver.request].sink = "taken"]
    /\ LET r == driver.request
           next == IF Exchanged(r) = "answered" THEN Answered(driver.kind, r) ELSE Exchanged(r)
       IN CASE next \in {"device", "refresh"} -> Exchanges(next)
            [] next = "publishing"            -> Goes("publishing")
            [] next = "again"                 -> Goes("pausing")
            [] OTHER                          -> Returns(next)
    /\ UNCHANGED <<table, cancelled>>

-----------------------------------------------------------------------------
(* The device code and its polls. *)

PublishInteraction(accepted) ==
    /\ At("publishing")
    /\ IF accepted THEN driver' = [driver EXCEPT !.at = "pausing", !.published = TRUE]
       ELSE driver' = [driver EXCEPT !.at = "returned", !.result = "cancelled",
                                     !.declined = TRUE]
    /\ UNCHANGED transportVars

\* The poll waiter, after its interval, and the checks around it.
WaitAndPoll ==
    /\ At("pausing")
    /\ IF cancelled # "no" THEN Returns(CancellationError)
       ELSE IF driver.overdue \/ driver.lapsed THEN Returns("timed out")
       ELSE Exchanges("poll")
    /\ UNCHANGED transportVars

-----------------------------------------------------------------------------
\* Time: the deadline of the exchange, of the device code, and of the call.
ExchangeExpires ==
    /\ At("waiting") /\ Expire(driver.request)
    /\ UNCHANGED driver

DeviceCodeExpires ==
    /\ driver.published /\ ~At("returned") /\ ~driver.lapsed
    /\ driver' = [driver EXCEPT !.lapsed = TRUE]
    /\ UNCHANGED transportVars

CallExpires ==
    /\ driver.mode # "none" /\ ~At("returned") /\ ~driver.overdue
    /\ driver' = [driver EXCEPT !.overdue = TRUE]
    /\ UNCHANGED transportVars

\* The caller's token, until it has its answer.
CallerCancels(reason) == ~At("returned") /\ CancelToken(reason) /\ UNCHANGED driver

Next ==
    \/ \E reason \in {"Requested", "Timeout"} : CallerCancels(reason)
    \/ \E mode \in {"authorize", "refresh"} : Begin(mode)
    \/ CheckExchange \/ (\E fits \in BOOLEAN : StartRequest(fits))
    \/ WaitCancelled \/ WaitExpired \/ CancelReturns \/ TakeResult
    \/ (\E accepted \in BOOLEAN : PublishInteraction(accepted)) \/ WaitAndPoll
    \/ ExchangeExpires \/ DeviceCodeExpires \/ CallExpires
    \/ TransportNext /\ UNCHANGED driver

Spec == Init /\ [][Next]_vars

-----------------------------------------------------------------------------
(* Properties *)

\* A call reports what happened: success is the issuer's readable answer to the
\* exchange that grants tokens, after the user was shown the code of a sign-in;
\* a refusal is the issuer's; a cancellation and a timeout have a cause.
OutcomeIsTrue ==
    LET last == IF driver.request = "none" THEN NewRequest ELSE http[driver.request] IN
    /\ driver.result = "succeeded" =>
          /\ last.terminal = "Succeeded" /\ last.response = "ok" /\ last.body
          /\ driver.kind = IF driver.mode = "refresh" THEN "refresh" ELSE "poll"
          /\ driver.mode = "authorize" => driver.published
    /\ driver.result = "not authorized" =>
          /\ last.terminal = "Succeeded"
          /\ \/ last.response = "refused"
             \/ driver.mode = "authorize" /\ last.response = "forbidden"
             \/ driver.kind = "poll" /\ last.response = "narrow"
    /\ driver.result = "policy denied" =>
          last.terminal = "Succeeded" /\ last.response = "forbidden" /\ driver.mode = "refresh"
    /\ driver.result = "cancelled" =>
          cancelled = "Requested" \/ table.down \/ driver.declined
    /\ driver.result = "timed out" =>
          \/ cancelled = "Timeout" \/ driver.overdue \/ driver.lapsed
          \/ last.expired \/ last.terminal = "TimedOut"
          \/ last.terminal = "Succeeded" /\ last.response = "expired"

\* When a call returns, and before it starts another, its exchange has ended:
\* what the transport still does about it reaches nobody.
NothingOutlivesTheCall ==
    \A r \in table.active :
        http[r].terminal = "none" => At("waiting") /\ r = driver.request

=============================================================================
