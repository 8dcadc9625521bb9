----------------------------- MODULE RuntimeUnitsMC -----------------------------
(***************************************************************************)
(* The execution service and components of the runtime layers that share   *)
(* no state with it, one per behaviour: unit names the one that runs, of   *)
(* those in Units.  The others rest where they start.                      *)
(***************************************************************************)
EXTENDS ExecutionServiceMC

CONSTANT Units

VARIABLES
    unit,
    entries, count, next, permits, now, changes,             \* ProviderReliability
    state, madeUnder, query,                                 \* Cancellation
    stage, op, transport, interrupt, received, todo, pending, logical, all,
    budget, shutdown, cancelling, consumer,                  \* NativeSseModelProvider
    sessions, serving, physical, bShutdown, reason, expired, terminal, at,
    delivered,                                               \* OAuthAuthorizationCoordinator
    auth, port, tabs, consumed,                              \* OAuthBrowserAuthorization
    request, native, table, events,                          \* MacUrlSessionTransport
    driver, exchange, exchanges, token                       \* OpenAIDeviceOAuthDriver

circuitVars == <<entries, count, next, permits, now, changes>>
cancelVars == <<state, madeUnder, query>>
streamVars == <<stage, op, transport, interrupt, received, todo, pending, logical, all,
                budget, shutdown, cancelling, consumer>>
sessionVars == <<sessions, serving, physical, bShutdown, reason, expired, terminal, at,
                 delivered>>
browserVars == <<auth, port, tabs, consumed>>
networkVars == <<request, native, table, events>>
driverVars == <<driver, exchange, exchanges, token>>

unitsVars == <<unit, vars, circuitVars, cancelVars, streamVars, sessionVars,
               browserVars, networkVars, driverVars>>

\* A circuit that opens at its first failure and probes twice, and one that
\* opens at its second and probes once.
Circuits == INSTANCE ProviderReliability WITH
    Keys <- {"k"}, Permits <- {1, 2}, MaximumEntries <- 1, MaxIdentity <- 2, MaxTime <- 3,
    Policies <- {[threshold |-> 1, probes |-> 2, duration |-> 1],
                 [threshold |-> 2, probes |-> 1, duration |-> 2]}

Tokens == INSTANCE Cancellation WITH
    States <- {"a", "b", "c"}, Observers <- {"o"}, Reasons <- {"Requested"}, MaxParentDepth <- 1

\* One stream, with what its transport may send.
Stream == INSTANCE NativeSseModelProvider WITH
    Starts <- {"o"}, IdOf <- [s \in {"o"} |-> "i"], Interrupted <- {"o"}, Continuing <- {"o"},
    MaximumActiveRequests <- 1, MaximumPhysical <- 1, MaximumPendingHttpEvents <- 1,
    MaxHttpEvents <- 2,
    Events <- {"invalid", "response", "refusal", "wrongType", "text", "end", "garbage",
               "Completed", "Cancelled", "foreign"},
    wire <- transport, permits <- budget

\* Two streams that compete for slots and a continuation; and two calls with
\* one request identifier, of which one is interrupted.
TwoStreams == INSTANCE NativeSseModelProvider WITH
    Starts <- {"o", "p"}, IdOf <- [s \in {"o", "p"} |-> s], Interrupted <- {},
    Continuing <- {"o", "p"},
    MaximumActiveRequests <- 2, MaximumPhysical <- 2, MaximumPendingHttpEvents <- 1,
    MaxHttpEvents <- 0, Events <- {"Completed"}, wire <- transport, permits <- budget

SameStream == INSTANCE NativeSseModelProvider WITH
    Starts <- {"o", "p"}, IdOf <- [s \in {"o", "p"} |-> "i"], Interrupted <- {"o"},
    Continuing <- {"o", "p"},
    MaximumActiveRequests <- 2, MaximumPhysical <- 2, MaximumPendingHttpEvents <- 1,
    MaxHttpEvents <- 0, Events <- {"Completed"}, wire <- transport, permits <- budget

\* Two authorizations under two identifiers, under one, and one of them alone.
Sessions == INSTANCE OAuthAuthorizationCoordinator WITH
    Operations <- {"o", "p"}, IdOf <- [o \in {"o", "p"} |-> o], Interrupted <- {},
    Results <- {"Succeeded"}, MaxActiveOperations <- 1,
    stage <- sessions, active <- serving

SameSession == INSTANCE OAuthAuthorizationCoordinator WITH
    Operations <- {"o", "p"}, IdOf <- [o \in {"o", "p"} |-> "i"], Interrupted <- {"o"},
    Results <- {"Succeeded"}, MaxActiveOperations <- 1,
    stage <- sessions, active <- serving

Session == INSTANCE OAuthAuthorizationCoordinator WITH
    Operations <- {"o"}, IdOf <- [o \in {"o"} |-> o], Interrupted <- {"o"},
    Results <- {"Succeeded", "Failed"}, MaxActiveOperations <- 1,
    stage <- sessions, active <- serving

\* Two sign-ins whose random states may be the same.
Browser == INSTANCE OAuthBrowserAuthorization WITH
    Authorizations <- {"a", "b"}, States <- {"s", "t"}, MaxAcceptedConnections <- 2,
    MaxReplayDigests <- 1

\* A request that may be cancelled, and lose its session.
Network == INSTANCE MacUrlSessionTransport WITH
    Requests <- {"a"}, IdOf <- [r \in {"a"} |-> r], MaxActiveRequests <- 1,
    MaxResponseBody <- 1, Cancellable <- {"a"}, Unreliable <- {"a"}, op <- request

\* A device sign-in or a refresh, at a transport with one slot.
Driver == INSTANCE OpenAIDeviceOAuthDriver WITH
    Requests <- {"e"}, MaxActiveRequests <- 1, MaxPollAttempts <- 1,
    Statuses <- {"ok", "pending", "refused", "other"},
    http <- exchange, table <- exchanges, cancelled <- token

UnitsInit ==
    /\ unit \in Units
    /\ Init /\ (unit # "execution" => \A n \in Limits : n <= limit)
    /\ Circuits!Init /\ Tokens!Init /\ Browser!Init /\ Network!Init /\ Driver!Init
    /\ CASE unit = "streams"     -> TwoStreams!Init
         [] unit = "same stream" -> SameStream!Init
         [] OTHER                -> Stream!Init
    /\ CASE unit = "sessions"     -> Sessions!Init
         [] unit = "same session" -> SameSession!Init
         [] OTHER                 -> Session!Init

StreamNext ==
    \/ unit = "stream" /\ Stream!Next
    \/ unit = "streams" /\ TwoStreams!Next
    \/ unit = "same stream" /\ SameStream!Next

SessionNext ==
    \/ unit = "session" /\ Session!Next
    \/ unit = "sessions" /\ Sessions!Next
    \/ unit = "same session" /\ SameSession!Next

UnitsNext ==
    /\ UNCHANGED unit
    /\ \/ /\ unit = "execution" /\ Next
          /\ UNCHANGED <<circuitVars, cancelVars, streamVars, sessionVars, browserVars, networkVars, driverVars>>
       \/ /\ unit = "circuit" /\ Circuits!Next
          /\ UNCHANGED <<vars, cancelVars, streamVars, sessionVars, browserVars, networkVars, driverVars>>
       \/ /\ unit = "tokens" /\ Tokens!Next
          /\ UNCHANGED <<vars, circuitVars, streamVars, sessionVars, browserVars, networkVars, driverVars>>
       \/ /\ StreamNext
          /\ UNCHANGED <<vars, circuitVars, cancelVars, sessionVars, browserVars, networkVars, driverVars>>
       \/ /\ SessionNext
          /\ UNCHANGED <<vars, circuitVars, cancelVars, streamVars, browserVars, networkVars, driverVars>>
       \/ /\ unit = "browser" /\ Browser!Next
          /\ UNCHANGED <<vars, circuitVars, cancelVars, streamVars, sessionVars, networkVars, driverVars>>
       \/ /\ unit = "network" /\ Network!Next
          /\ UNCHANGED <<vars, circuitVars, cancelVars, streamVars, sessionVars,
                        browserVars, driverVars>>
       \/ /\ unit = "driver" /\ Driver!Next
          /\ UNCHANGED <<vars, circuitVars, cancelVars, streamVars, sessionVars,
                        browserVars, networkVars>>

UnitsSpec == UnitsInit /\ [][UnitsNext]_unitsVars

\* A unit's fairness, when it runs.
UnitsFairness ==
    /\ WF_vars(unit = "execution" /\ GameThread)
    /\ \A r \in Requests :
        /\ WF_vars(unit = "execution" /\ DrainTask(r))
        /\ WF_vars(unit = "execution" /\ PostDrain(r))
        /\ WF_vars(unit = "execution" /\ DeadlinePasses(r))
        /\ WF_vars(unit = "execution" /\ wire[r].cancelled /\ TransportCompletes(r))
    /\ \A t \in 1 .. MaxTickers : WF_vars(unit = "execution" /\ PumpDeadlines(t))
    /\ WF_streamVars(unit = "stream" /\ stage["o"] # "none" /\ Stream!StartStep("o"))
    /\ WF_streamVars(unit = "stream" /\ Stream!DrainStep("o"))
    /\ WF_streamVars(unit = "stream" /\ Stream!Settle("o"))
    /\ WF_streamVars(unit = "stream" /\ Stream!CancelPhysical("o"))
    /\ WF_streamVars(unit = "stream" /\ Stream!Interrupt("o", "expired"))
    /\ WF_streamVars(unit = "stream" /\ Stream!Tick("o"))
    /\ WF_streamVars(unit = "stream" /\ transport["o"].cancelled
                                     /\ Stream!EnqueueHttpEvent("o", "Cancelled"))
    /\ WF_sessionVars(unit = "session" /\ Session!Expire("o"))
    /\ WF_sessionVars(unit = "session" /\ Session!MonitorObserves("o"))
    /\ \A w \in Session!Workers : WF_sessionVars(unit = "session" /\ Session!Publish("o", w))
    /\ \A a \in {"a", "b"} :
        /\ WF_browserVars(unit = "browser" /\ Browser!Step(a))
        /\ WF_browserVars(unit = "browser" /\ Browser!Expire(a))
    /\ WF_networkVars(unit = "network" /\ request["a"].at # "new" /\ Network!StartStep("a"))
    /\ WF_networkVars(unit = "network" /\ Network!EndStep("a"))
    /\ WF_networkVars(unit = "network" /\ Network!DelegateActs("a"))
    /\ WF_networkVars(unit = "network" /\ Network!OnSessionInvalidated("a"))
    /\ WF_networkVars(unit = "network" /\ Network!MonitorPolls("a"))
    /\ WF_networkVars(unit = "network" /\ Network!Expire("a"))
    /\ WF_driverVars(unit = "driver" /\ Driver!DriverStep)
    /\ WF_driverVars(unit = "driver" /\ Driver!ExchangeExpires)
    /\ WF_driverVars(unit = "driver" /\ Driver!FinishStep("e") /\ UNCHANGED driver)

FairUnitsSpec == UnitsSpec /\ UnitsFairness

-----------------------------------------------------------------------------
(* Properties: each is stated in the module of its component. *)

\* No request strands a circuit with its probes, or moves one it was not
\* admitted by.
ProbesAreOutstanding == Circuits!ProbesAreOutstanding
JudgedByItsOwnRequests == Circuits!JudgedByItsOwnRequests

\* A query begun after a cancellation above its token sees it.
CancellationReachesEveryToken == Tokens!CancellationReachesEveryToken

\* A sink gets one stream and its end, and its transport is told.
SinksGetOneStream ==
    unit = "stream" => Stream!SinksGetOneStream /\ Stream!EndsReachTheTransport

\* A start that answers false did nothing; what the transport works on is
\* counted.
StartsAreCounted ==
    /\ unit = "streams" =>
          TwoStreams!RejectedStartsAreSilent /\ TwoStreams!PhysicalRequestsAreCounted
    /\ unit = "same stream" =>
          SameStream!RejectedStartsAreSilent /\ SameStream!PhysicalRequestsAreCounted

\* An authorization is completed once, can be reached until it is, and its
\* executor's thread counts until it returns.
AuthorizationsAreAccounted ==
    /\ unit = "sessions" =>
          /\ Sessions!OneCompletion
          /\ Sessions!UnfinishedIsReachable
          /\ Sessions!ExecutorThreadsAreBounded
    /\ unit = "same session" =>
          /\ SameSession!OneCompletion
          /\ SameSession!UnfinishedIsReachable
          /\ SameSession!ExecutorThreadsAreBounded

\* A sign-in acts on the answers to its own requests: a browser believes no old
\* tab and no state that was just used, and a device sign-in reports what its issuer and its
\* clock said, leaving no request behind.
AnswersAreGenuine ==
    /\ unit = "browser" => Browser!OtherTabsAreTurnedAway /\ Browser!NoStateIsReplayed
    /\ unit = "driver" =>
          /\ Driver!OutcomeIsTrue /\ Driver!NothingOutlivesTheCall
          /\ Driver!RunningIsCounted

\* What a unit promises to end, in at most two parts: TLC's work grows with the
\* number of formulas, and only one unit runs.
FirstUnderway ==
    CASE unit = "stream"  -> Stream!Underway("o")
      [] unit = "session" -> Session!Underway("o")
      [] unit = "browser" -> Browser!Underway("a")
      [] unit = "network" -> Network!Underway("a")
      [] unit = "driver"  -> Driver!Underway
      [] OTHER            -> FALSE

FirstOver ==
    CASE unit = "stream"  -> Stream!Over("o")
      [] unit = "session" -> Session!Over("o")
      [] unit = "browser" -> Browser!Over("a")
      [] unit = "network" -> Network!Over("a")
      [] unit = "driver"  -> Driver!Over
      [] OTHER            -> TRUE

SecondUnderway ==
    \/ unit = "stream" /\ Stream!HoldsSlot("o")
    \/ unit = "browser" /\ Browser!Underway("b")

SecondOver ==
    /\ unit = "stream" => Stream!Released("o")
    /\ unit = "browser" => Browser!Over("b")

\* What was started ends: a stream at its sink, and its slot comes back; an
\* authorization, whatever its executor does; a browser sign-in, whoever
\* connects to its port; a network request, whatever becomes of its session.
WorkEnds ==
    /\ FirstUnderway ~> FirstOver
    /\ SecondUnderway ~> SecondOver

=============================================================================
