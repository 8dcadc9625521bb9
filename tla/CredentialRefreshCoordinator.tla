--------------------- MODULE CredentialRefreshCoordinator ---------------------
(***************************************************************************)
(* FUnrealAICredentialRefreshCoordinator: one refresh flight per account,  *)
(* joined by any number of callers up to a limit, fenced by a generation.  *)
(* Every method holds the coordinator's mutex from its first read to its   *)
(* last write, so each is one action.  The callers are the environment:    *)
(* each holds at most the last ticket it was given.                        *)
(***************************************************************************)
EXTENDS Naturals, FiniteSets

CONSTANTS Callers,      \* threads that call the coordinator
          Keys,         \* (auth profile, account) pairs
          MaxJoiners,   \* MaxJoinersPerFlight, 1024 in the code
          MaxTracked,   \* MaxTrackedAccounts, 256 in the code
          MaxWord       \* TNumericLimits<uint64>::Max()

ASSUME LimitsAssumption ==
    /\ Keys # {}
    /\ MaxJoiners \in Nat \ {0}
    /\ MaxTracked \in Nat
    /\ MaxWord \in Nat \ {0}

VARIABLES generation,    \* AccountGenerations; 0 when the key is not tracked
          flight,        \* ActiveFlights; id 0 when the key has no flight
          nextFlightId,  \* NextFlightId, a machine word
          shutdown,      \* bShutdown
          ticket,        \* the last ticket each caller received
          retired        \* history: callers whose ticket's flight has ended

vars == <<generation, flight, nextFlightId, shutdown, ticket, retired>>

Word     == 0 .. MaxWord
NoFlight == [id |-> 0, gen |-> 0, joiners |-> 0]
NoTicket == [role |-> "None", key |-> CHOOSE k \in Keys : TRUE, id |-> 0, gen |-> 0]

Flights == [id : Word, gen : Word, joiners : 0 .. MaxJoiners]
Tickets == [role : {"None", "Leader", "Follower"}, key : Keys, id : Word, gen : Word]

Tracked   == {k \in Keys : generation[k] # 0}
HasFlight(k) == flight[k].id # 0

IsCurrent(t) ==
    /\ t.role # "None"
    /\ ~shutdown
    /\ HasFlight(t.key)
    /\ flight[t.key].id = t.id
    /\ flight[t.key].gen = t.gen

TypeOK ==
    /\ generation \in [Keys -> Word]
    /\ flight \in [Keys -> Flights]
    /\ nextFlightId \in Word
    /\ shutdown \in BOOLEAN
    /\ ticket \in [Callers -> Tickets]
    /\ retired \subseteq Callers

Init ==
    /\ generation = [k \in Keys |-> 0]
    /\ flight = [k \in Keys |-> NoFlight]
    /\ nextFlightId = 1
    /\ shutdown = FALSE
    /\ ticket = [c \in Callers |-> NoTicket]
    /\ retired = {}

-----------------------------------------------------------------------------
CanTrack(k) == k \in Tracked \/ Cardinality(Tracked) < MaxTracked

Receive(c, t) ==
    /\ ticket' = [ticket EXCEPT ![c] = t]
    /\ retired' = retired \ {c}

(* BeginOrJoin's refusals: shut down, the flight is full, or no room to track the key. *)
RejectBegin(c, k) ==
    /\ \/ shutdown
       \/ HasFlight(k) /\ flight[k].joiners >= MaxJoiners
       \/ ~HasFlight(k) /\ ~CanTrack(k)
    /\ Receive(c, NoTicket)
    /\ UNCHANGED <<generation, flight, nextFlightId, shutdown>>

(* A mutated join hands out a second leadership. *)
JoinAsLeader(c, k) ==
    /\ ~shutdown
    /\ HasFlight(k)
    /\ flight[k].joiners < MaxJoiners
    /\ flight' = [flight EXCEPT ![k].joiners = @ + 1]
    /\ Receive(c, [role |-> "Leader", key |-> k, id |-> flight[k].id, gen |-> flight[k].gen])
    /\ UNCHANGED <<generation, nextFlightId, shutdown>>

Join(c, k) ==
    /\ ~shutdown
    /\ HasFlight(k)
    /\ flight[k].joiners < MaxJoiners
    /\ flight' = [flight EXCEPT ![k].joiners = @ + 1]
    /\ Receive(c, [role |-> "Follower", key |-> k, id |-> flight[k].id, gen |-> flight[k].gen])
    /\ UNCHANGED <<generation, nextFlightId, shutdown>>

TrackedGeneration(k) == IF k \in Tracked THEN generation[k] ELSE 1

NextWordUnwrapped(n) == n + 1  \* mutated: counts past the word

NextWord(n) == (n + 1) % (MaxWord + 1)

Lead(c, k) ==
    /\ ~shutdown
    /\ ~HasFlight(k)
    /\ CanTrack(k)
    /\ nextFlightId # 0
    /\ generation' = [generation EXCEPT ![k] = TrackedGeneration(k)]
    /\ flight' = [flight EXCEPT ![k] =
                    [id |-> nextFlightId, gen |-> TrackedGeneration(k), joiners |-> 1]]
    /\ nextFlightId' = NextWord(nextFlightId)
    /\ Receive(c, [role |-> "Leader", key |-> k,
                   id |-> nextFlightId, gen |-> TrackedGeneration(k)])
    /\ UNCHANGED shutdown

(* Flight identifiers are exhausted: the coordinator closes rather than reuse one. *)
ExhaustFlightIds(c, k) ==
    /\ ~shutdown
    /\ ~HasFlight(k)
    /\ CanTrack(k)
    /\ nextFlightId = 0
    /\ generation' = [generation EXCEPT ![k] = TrackedGeneration(k)]
    /\ flight' = [j \in Keys |-> NoFlight]
    /\ shutdown' = TRUE
    /\ ticket' = [ticket EXCEPT ![c] = NoTicket]
    /\ retired' = Callers
    /\ UNCHANGED nextFlightId

BeginOrJoin(c, k) ==
    \/ RejectBegin(c, k)
    \/ Join(c, k)
    \/ Lead(c, k)
    \/ ExhaustFlightIds(c, k)

Complete(c) ==
    LET t == ticket[c] IN
    /\ t.role = "Leader"
    /\ IsCurrent(t)
    /\ flight' = [flight EXCEPT ![t.key] = NoFlight]
    /\ retired' = retired \cup {d \in Callers : ticket[d].key = t.key /\ ticket[d].id = t.id}
    /\ UNCHANGED <<generation, nextFlightId, shutdown, ticket>>

(* Mutated: relies on the new generation and leaves the old flight in place. *)
InvalidateKeepsFlight(k) ==
    /\ ~shutdown
    /\ k \in Tracked
    /\ generation[k] < MaxWord
    /\ generation' = [generation EXCEPT ![k] = @ + 1]
    /\ retired' = retired \cup {d \in Callers : ticket[d].key = k}
    /\ UNCHANGED <<flight, nextFlightId, shutdown, ticket>>

Invalidate(k) ==
    /\ ~shutdown
    /\ k \in Tracked
    /\ generation[k] < MaxWord
    /\ flight' = [flight EXCEPT ![k] = NoFlight]
    /\ generation' = [generation EXCEPT ![k] = @ + 1]
    /\ retired' = retired \cup {d \in Callers : ticket[d].key = k}
    /\ UNCHANGED <<nextFlightId, shutdown, ticket>>

Close ==
    /\ shutdown' = TRUE
    /\ flight' = [j \in Keys |-> NoFlight]
    /\ retired' = Callers
    /\ UNCHANGED <<generation, nextFlightId, ticket>>

(* The last generation of an account cannot be bumped: Invalidate closes the coordinator. *)
ExhaustGeneration(k) ==
    /\ ~shutdown
    /\ k \in Tracked
    /\ generation[k] = MaxWord
    /\ Close

BeginShutdown == Close

Next ==
    \/ \E c \in Callers, k \in Keys : BeginOrJoin(c, k)
    \/ \E c \in Callers : Complete(c)
    \/ \E k \in Keys : Invalidate(k)
    \/ \E k \in Keys : ExhaustGeneration(k)
    \/ BeginShutdown

Spec == Init /\ [][Next]_vars

-----------------------------------------------------------------------------
(* A ticket whose flight was completed, invalidated or shut down never passes  *)
(* IsCurrent (or Complete, which tests the same) again, whatever flights the   *)
(* same account starts afterwards and however the counters end: "Invalidation/ *)
(* shutdown makes every outstanding ticket stale before a late provider result *)
(* can settle" (UnrealAICredentialRefreshCoordinator.h:50).                    *)
StaleTicketNeverCurrent == \A c \in retired : ~IsCurrent(ticket[c])

(* Two callers that both believe they lead a live refresh of the same account  *)
(* are the same caller: the provider is asked once per flight.                 *)
OneLiveLeader ==
    \A c, d \in Callers :
        /\ IsCurrent(ticket[c]) /\ ticket[c].role = "Leader"
        /\ IsCurrent(ticket[d]) /\ ticket[d].role = "Leader"
        /\ ticket[c].key = ticket[d].key
        => c = d

=============================================================================
