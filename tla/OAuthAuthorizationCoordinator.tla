--------------------- MODULE OAuthAuthorizationCoordinator ---------------------
(***************************************************************************)
(* Browser authorization and revocation operations.  Each has a run thread *)
(* inside a blocking executor and a monitor thread that polls cancellation *)
(* and deadline; Cancel, shutdown and PumpDeadlines come from any other    *)
(* thread.  Whoever wins the terminal takes the operation out of the       *)
(* active table and calls its sink; its id stays reserved until the        *)
(* executor has returned.                                                  *)
(***************************************************************************)
EXTENDS Naturals, FiniteSets

CONSTANTS Operations,           \* operations some caller starts
          IdOf,                 \* the request id each of them carries
          Interrupted,          \* those their caller may cancel
          Results,              \* what an executor may answer
          MaxActiveOperations

VARIABLES stage,        \* operation -> "new", "admitted" or "rejected"
          active,       \* id -> operation in the active table, or None
          physical,     \* ids whose executor has not returned
          bShutdown,
          reason,       \* operation -> first cancellation reason, or None
          expired,      \* operations whose deadline has passed
          terminal,     \* operation -> kind the guard holds, or None
          at,           \* operation -> worker -> where it is
          delivered     \* operation -> completions its sink received

vars == <<stage, active, physical, bShutdown, reason, expired, terminal, at,
          delivered>>

None == "none"
Ids == {IdOf[o] : o \in Operations}
Workers == {"run", "monitor", "cancel", "sweep", "pump"}
Kinds == {"Succeeded", "Failed", "Cancelled", "TimedOut"}

\* A worker is idle, inside its call, about to try the terminal with a kind,
\* or - having won - about to leave the active table or to call the sink.
Places == {"idle", "working", "removing", "completing", "done"} \cup Kinds

TypeOK ==
    /\ stage \in [Operations -> {"new", "admitted", "rejected"}]
    /\ active \in [Ids -> Operations \cup {None}]
    /\ physical \subseteq Ids
    /\ bShutdown \in BOOLEAN
    /\ reason \in [Operations -> {None, "Requested", "Shutdown", "Timeout"}]
    /\ expired \subseteq Operations
    /\ terminal \in [Operations -> Kinds \cup {None}]
    /\ at \in [Operations -> [Workers -> Places]]
    /\ delivered \in [Operations -> Nat]

Init ==
    /\ stage = [o \in Operations |-> "new"]
    /\ active = [i \in Ids |-> None]
    /\ physical = {}
    /\ bShutdown = FALSE
    /\ reason = [o \in Operations |-> None]
    /\ expired = {}
    /\ terminal = [o \in Operations |-> None]
    /\ at = [o \in Operations |-> [w \in Workers |-> "idle"]]
    /\ delivered = [o \in Operations |-> 0]

Moves(o, w, place) == at' = [at EXCEPT ![o][w] = place]

\* A cancellation source keeps the first reason it is given.
Cancelled(o, r) ==
    reason' = IF reason[o] = None THEN [reason EXCEPT ![o] = r] ELSE reason

-----------------------------------------------------------------------------

\* For a mutant: the reserved id is taken for the whole check.
PhysicalOnly(o) ==
    /\ ~bShutdown
    /\ IdOf[o] \notin physical
    /\ Cardinality(physical) < MaxActiveOperations

Admissible(o) ==
    /\ ~bShutdown
    /\ active[IdOf[o]] = None
    /\ IdOf[o] \notin physical
    /\ Cardinality(physical) < MaxActiveOperations

\* The caller's token was cancelled before the call: nothing is started.
Refuse(o) ==
    /\ stage[o] = "new"
    /\ reason[o] # None \/ ~Admissible(o)
    /\ stage' = [stage EXCEPT ![o] = "rejected"]
    /\ UNCHANGED <<active, physical, bShutdown, reason, expired, terminal, at,
                   delivered>>

AdmitAndStart(o) ==
    /\ stage[o] = "new" /\ reason[o] = None
    /\ Admissible(o)
    /\ stage' = [stage EXCEPT ![o] = "admitted"]
    /\ active' = [active EXCEPT ![IdOf[o]] = o]
    /\ physical' = physical \cup {IdOf[o]}
    /\ at' = [at EXCEPT ![o] = [@ EXCEPT !["run"] = "working",
                                         !["monitor"] = "working"]]
    /\ UNCHANGED <<bShutdown, reason, expired, terminal, delivered>>

\* The caller's token, the clock: outside the coordinator.
CancelParent(o, r) ==
    /\ o \in Interrupted
    /\ reason[o] = None /\ terminal[o] = None /\ stage[o] # "rejected"
    /\ Cancelled(o, r)
    /\ UNCHANGED <<stage, active, physical, bShutdown, expired, terminal, at,
                   delivered>>

Expire(o) ==
    /\ stage[o] = "admitted" /\ o \notin expired /\ terminal[o] = None
    /\ expired' = expired \cup {o}
    /\ UNCHANGED <<stage, active, physical, bShutdown, reason, terminal, at,
                   delivered>>

-----------------------------------------------------------------------------

\* For a mutant: the deadline is only read by the thread in the executor.
CancellationOnly(o) ==
    IF terminal[o] # None THEN None
    ELSE IF reason[o] = "Timeout" THEN "TimedOut"
    ELSE IF reason[o] # None THEN "Cancelled"
    ELSE None

\* What TryObserveLogicalTerminal would publish for the operation, or None.
Observed(o) ==
    IF terminal[o] # None THEN None
    ELSE IF reason[o] = "Timeout" THEN "TimedOut"
    ELSE IF reason[o] # None THEN "Cancelled"
    ELSE IF o \in expired THEN "TimedOut"
    ELSE None

CancelledIfExpired(o) ==
    IF reason[o] = None /\ o \in expired THEN Cancelled(o, "Timeout")
    ELSE UNCHANGED reason

\* The executor returns, on its own or because its token was cancelled, and
\* the run thread looks at the token and the deadline before its result.
ExecutorReturns(o, result) ==
    /\ at[o]["run"] = "working"
    /\ LET seen == Observed(o) IN
       /\ Moves(o, "run", IF seen # None THEN seen ELSE result)
       /\ IF seen # None THEN CancelledIfExpired(o) ELSE UNCHANGED reason
    /\ UNCHANGED <<stage, active, physical, bShutdown, expired, terminal,
                   delivered>>

\* Monitor sleeps while there is nothing to report.
MonitorObserves(o) ==
    /\ at[o]["monitor"] = "working"
    /\ Observed(o) # None
    /\ Moves(o, "monitor", Observed(o))
    /\ CancelledIfExpired(o)
    /\ UNCHANGED <<stage, active, physical, bShutdown, expired, terminal,
                   delivered>>

MonitorEnds(o) ==
    /\ at[o]["monitor"] = "working" /\ terminal[o] # None
    /\ Moves(o, "monitor", "done")
    /\ UNCHANGED <<stage, active, physical, bShutdown, reason, expired, terminal,
                   delivered>>

\* The handle's Cancel: the token first, the terminal after it.
Cancel(o) ==
    /\ o \in Interrupted
    /\ stage[o] = "admitted" /\ at[o]["cancel"] = "idle"
    /\ Cancelled(o, "Requested")
    /\ Moves(o, "cancel", "Cancelled")
    /\ UNCHANGED <<stage, active, physical, bShutdown, expired, terminal,
                   delivered>>

\* BeginShutdown and PumpDeadlines copy the active table under the lock and
\* go through the copy without it.
BeginShutdown ==
    /\ ~bShutdown
    /\ bShutdown' = TRUE
    /\ at' = [o \in Operations |->
                 IF active[IdOf[o]] = o
                 THEN [at[o] EXCEPT !["sweep"] = "working"] ELSE at[o]]
    /\ UNCHANGED <<stage, active, physical, reason, expired, terminal, delivered>>

CancelForShutdown(o) ==
    /\ bShutdown /\ at[o]["sweep"] = "working"
    /\ Cancelled(o, "Shutdown")
    /\ Moves(o, "sweep", "Cancelled")
    /\ UNCHANGED <<stage, active, physical, bShutdown, expired, terminal,
                   delivered>>

\* Also during a shutdown and after it.
PumpDeadlines(o) ==
    /\ active[IdOf[o]] = o /\ at[o]["pump"] = "idle"
    /\ Observed(o) # None
    /\ Moves(o, "pump", Observed(o))
    /\ CancelledIfExpired(o)
    /\ UNCHANGED <<stage, active, physical, bShutdown, expired, terminal,
                   delivered>>

-----------------------------------------------------------------------------
(* PublishSuccess and PublishFailure. *)

\* Where a worker goes on when it has nothing more to publish.
After(w) == IF w = "run" THEN "done" ELSE IF w = "monitor" THEN "working"
            ELSE IF w = "pump" THEN "idle" ELSE "done"

\* For a mutant: the terminal is looked at where it should be claimed.
WinsUnlessDelivered(o) == delivered[o] = 0

Wins(o) == terminal[o] = None

\* For a mutant: the id is released with the terminal.
ReleasesAtTerminal(o, w) == physical' = physical \ {IdOf[o]}

\* The thread in the executor reserves the id until it is through.
Releases(o, w) ==
    physical' = IF w = "run" THEN physical \ {IdOf[o]} ELSE physical

TryTerminal(o, w) ==
    /\ at[o][w] \in Kinds
    /\ IF Wins(o)
       THEN /\ terminal' = [terminal EXCEPT ![o] = at[o][w]]
            /\ Moves(o, w, "removing")
            /\ UNCHANGED physical
       ELSE /\ Moves(o, w, After(w))
            /\ Releases(o, w)
            /\ UNCHANGED terminal
    /\ UNCHANGED <<stage, active, bShutdown, reason, expired, delivered>>

OnTerminal(o, w) ==
    /\ at[o][w] = "removing"
    /\ active' = [active EXCEPT ![IdOf[o]] = None]
    /\ Moves(o, w, "completing")
    /\ UNCHANGED <<stage, physical, bShutdown, reason, expired, terminal,
                   delivered>>

Complete(o, w) ==
    /\ at[o][w] = "completing"
    /\ delivered' = [delivered EXCEPT ![o] = @ + 1]
    /\ Moves(o, w, After(w))
    /\ Releases(o, w)
    /\ UNCHANGED <<stage, active, bShutdown, reason, expired, terminal>>

-----------------------------------------------------------------------------

Publish(o, w) == TryTerminal(o, w) \/ OnTerminal(o, w) \/ Complete(o, w)

Settled ==
    /\ \A o \in Operations : stage[o] # "new"
    /\ \A o \in Operations, w \in Workers : at[o][w] \in {"idle", "done"}
    /\ UNCHANGED vars

Next ==
    \/ \E o \in Operations :
          \/ Refuse(o) \/ AdmitAndStart(o) \/ Expire(o) \/ Cancel(o)
          \/ MonitorObserves(o) \/ MonitorEnds(o)
          \/ CancelForShutdown(o) \/ PumpDeadlines(o)
          \/ \E r \in {"Requested", "Timeout"} : CancelParent(o, r)
          \/ \E result \in Results : ExecutorReturns(o, result)
          \/ \E w \in Workers : Publish(o, w)
    \/ BeginShutdown
    \/ Settled

\* Time passes and every thread runs, except that an executor may stay inside
\* its call for ever.
Fairness ==
    \A o \in Operations :
       /\ WF_vars(Expire(o))
       /\ WF_vars(MonitorObserves(o))
       /\ \A w \in Workers : WF_vars(Publish(o, w))

Spec == Init /\ [][Next]_vars

FairSpec == Spec /\ Fairness

-----------------------------------------------------------------------------
(* Properties. *)

Unfinished(o) == stage[o] = "admitted" /\ terminal[o] = None

\* "Exactly one terminal result for every admitted operation": five threads
\* may end an operation, its sink hears of it once.
OneCompletion == \A o \in Operations : delivered[o] <= 1

\* Until its terminal is claimed an operation is in the active table, where
\* BeginShutdown and PumpDeadlines find it: an older operation with its id has
\* left the table for good when it is admitted.
UnfinishedIsReachable ==
    \A o \in Operations : Unfinished(o) => active[IdOf[o]] = o

\* Threads inside the executor never exceed MaxActiveOperations, however many
\* operations were cancelled meanwhile and have already been completed.
ExecutorThreadsAreBounded ==
    Cardinality({o \in Operations : at[o]["run"] = "working"})
        <= MaxActiveOperations

\* Every admitted operation is completed, also one whose executor hangs.
Underway(o) == stage[o] = "admitted"
Over(o) == delivered[o] = 1
AdmittedIsCompleted == \A o \in Operations : Underway(o) ~> Over(o)

=============================================================================
