-------------------------- MODULE MacOAuthHttpTransport --------------------------
(***************************************************************************)
(* The OAuth HTTPS transport over NSURLSession: FMacOAuthHttpTransportState *)
(* and its FMacOAuthHttpRequestOperation, for requests of one caller with  *)
(* one cancellation token.  Finish is four steps, as in the code: win the  *)
(* guard, queue the completion, close the session, leave the table; the    *)
(* completion may be delivered after the second.                           *)
(***************************************************************************)
EXTENDS Naturals, FiniteSets

CONSTANTS Requests,             \* places for requests, each free again once its
                                \* request is destroyed: identifiers are fresh
          MaxActiveRequests,
          Statuses              \* what a response may say

VARIABLES http, table, cancelled

transportVars == <<http, table, cancelled>>

\* A request; owes and by are what its Finish has yet to do, and whether the
\* caller's thread does it.
NewRequest ==
    [session |-> FALSE, monitor |-> FALSE, expired |-> FALSE,
     response |-> "none", body |-> FALSE, terminal |-> "none", owes |-> "nothing",
     by |-> "nobody", queued |-> FALSE, sink |-> "waiting"]

TransportInit ==
    /\ http = [r \in Requests |-> NewRequest]
    /\ table = [active |-> {}, down |-> FALSE, cancel |-> {}]
    /\ cancelled = "no"

-----------------------------------------------------------------------------
\* StartRequest, under the transport's lock; fits: the native objects are made
\* and the deadline has not passed.
Admits(fits) ==
    /\ cancelled = "no" /\ ~table.down /\ fits
    /\ Cardinality(table.active) < MaxActiveRequests

Started(r) ==
    /\ http' = [http EXCEPT ![r] = [NewRequest EXCEPT !.session = TRUE, !.monitor = TRUE]]
    /\ table' = [table EXCEPT !.active = @ \union {r}]

-----------------------------------------------------------------------------
(* The end of a request. *)

\* Mutant: the last terminal wins.
FinishedAgain(o, kind, thread) ==
    [o EXCEPT !.terminal = kind, !.monitor = FALSE, !.owes = "complete", !.by = thread,
              !.body = @ /\ kind = "Succeeded"]

\* Finish: the first terminal wins, and wipes the body unless it is the response's.
Finished(o, kind, thread) ==
    IF o.terminal # "none" THEN o
    ELSE [o EXCEPT !.terminal = kind, !.monitor = FALSE, !.owes = "complete", !.by = thread,
                   !.body = @ /\ kind = "Succeeded"]

\* PollCancellationAndDeadline
Polled(o) ==
    IF cancelled = "Requested" THEN Finished(o, "Cancelled", "other")
    ELSE IF cancelled = "Timeout" \/ o.expired THEN Finished(o, "TimedOut", "other")
    ELSE o

QueueCompletion(r) ==
    /\ http[r].owes = "complete"
    /\ http' = [http EXCEPT ![r].owes = "close", ![r].queued = TRUE]
    /\ UNCHANGED <<table, cancelled>>

\* Mutant: the session is left alone.
NativeObjectsStay(r) ==
    /\ http[r].owes = "close"
    /\ http' = [http EXCEPT ![r].owes = "remove"]
    /\ UNCHANGED <<table, cancelled>>

InvalidateNativeObjects(r) ==
    /\ http[r].owes = "close"
    /\ http' = [http EXCEPT ![r].owes = "remove", ![r].session = FALSE]
    /\ UNCHANGED <<table, cancelled>>

RemoveActiveRequest(r) ==
    /\ http[r].owes = "remove"
    /\ http' = [http EXCEPT ![r].owes = "nothing", ![r].by = "nobody"]
    /\ table' = [table EXCEPT !.active = @ \ {r}]
    /\ UNCHANGED cancelled

FinishStep(r) == QueueCompletion(r) \/ InvalidateNativeObjects(r) \/ RemoveActiveRequest(r)

-----------------------------------------------------------------------------
(* The session's delegate queue.  A callback of a request that has ended     *)
(* changes nothing and is left out.                                          *)

Listens(r) == http[r].session /\ http[r].terminal = "none"

OnResponseStarted(r, status) ==
    /\ Listens(r) /\ http[r].response = "none"
    /\ http' = [http EXCEPT ![r].response = status]
    /\ UNCHANGED <<table, cancelled>>

\* A body before its response, or beyond the limit, fails the request.
OnBodyData(r, fits) ==
    /\ Listens(r)
    /\ http' = [http EXCEPT ![r] =
                   IF http[r].response = "none" \/ ~fits THEN Finished(@, "Failed", "other")
                   ELSE [@ EXCEPT !.body = TRUE]]
    /\ UNCHANGED <<table, cancelled>>

OnTaskCompleted(r, outcome) ==
    /\ Listens(r)
    /\ http' = [http EXCEPT ![r] = Finished(@,
                   CASE outcome = "complete" ->
                           IF http[r].response # "none" THEN "Succeeded" ELSE "Failed"
                     [] outcome = "timedOut" -> "TimedOut"
                     [] outcome = "failed"   -> "Failed", "other")]
    /\ UNCHANGED <<table, cancelled>>

\* OnRedirectRejected, OnAuthenticationChallengeRejected, OnInvalidResponse
OnRefused(r) ==
    /\ Listens(r)
    /\ http' = [http EXCEPT ![r] = Finished(@, "Failed", "other")]
    /\ UNCHANGED <<table, cancelled>>

-----------------------------------------------------------------------------
(* The other threads. *)

MonitorPolls(r) ==
    /\ http[r].monitor /\ (cancelled # "no" \/ http[r].expired)
    /\ http' = [http EXCEPT ![r] = Polled(@)]
    /\ UNCHANGED <<table, cancelled>>

\* The serial completion queue calls the request's sink, which keeps the first
\* result and triggers its event.
CompleteOAuthHttpRequest(r) ==
    /\ http[r].queued
    /\ http' = [http EXCEPT ![r].queued = FALSE,
                            ![r].sink = IF @ = "waiting" THEN "stored" ELSE @]
    /\ UNCHANGED <<table, cancelled>>

BeginShutdown ==
    /\ ~table.down
    /\ table' = [table EXCEPT !.down = TRUE, !.cancel = table.active]
    /\ UNCHANGED <<http, cancelled>>

CancelForShutdown(r) ==
    /\ r \in table.cancel
    /\ table' = [table EXCEPT !.cancel = @ \ {r}]
    /\ http' = [http EXCEPT ![r] = Finished(@, "Cancelled", "other")]
    /\ UNCHANGED cancelled

\* The caller's token, and the clock.
CancelToken(reason) ==
    /\ cancelled = "no"
    /\ cancelled' = reason
    /\ UNCHANGED <<http, table>>

Expire(r) ==
    /\ ~http[r].expired
    /\ http' = [http EXCEPT ![r].expired = TRUE]
    /\ UNCHANGED <<table, cancelled>>

TransportNext ==
    \/ BeginShutdown
    \/ \E r \in Requests :
          \/ FinishStep(r) \/ MonitorPolls(r) \/ CompleteOAuthHttpRequest(r)
          \/ CancelForShutdown(r) \/ OnRefused(r)
          \/ \E status \in Statuses : OnResponseStarted(r, status)
          \/ \E fits \in BOOLEAN : OnBodyData(r, fits)
          \/ \E outcome \in {"complete", "timedOut", "failed"} : OnTaskCompleted(r, outcome)

-----------------------------------------------------------------------------
(* Properties *)

\* What runs is in the table, within its limit, and after a shutdown nothing
\* runs that has not been ended.
RunningIsCounted ==
    /\ \A r \in Requests : http[r].session => r \in table.active
    /\ Cardinality(table.active) <= MaxActiveRequests
    /\ table.down /\ table.cancel = {} =>
          \A r \in table.active : http[r].terminal # "none"

=============================================================================
