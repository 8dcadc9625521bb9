----------------- MODULE CredentialRefreshCoordinatorProofs -----------------
(* For every set of callers and accounts and every limit: the type invariant, *)
(* and that a ticket whose flight has ended can never settle anything.         *)
EXTENDS CredentialRefreshCoordinator, TLAPS

(* Identifiers already handed out: all of the word once the counter wrapped to 0. *)
IdBound == IF nextFlightId = 0 THEN MaxWord + 1 ELSE nextFlightId

IdsBelowNext ==
    /\ \A k \in Keys : flight[k].id < IdBound
    /\ \A c \in Callers : ticket[c].id < IdBound

ClosedHasNoFlight == shutdown => \A k \in Keys : flight[k].id = 0

RetiredHasNoFlight ==
    \A c \in retired : ticket[c].id # 0 => flight[ticket[c].key].id # ticket[c].id

ValidTicketsHaveIds == \A c \in Callers : ticket[c].role # "None" => ticket[c].id # 0

OneLeaderPerId ==
    \A c, d \in Callers :
        /\ ticket[c].role = "Leader"
        /\ ticket[d].role = "Leader"
        /\ ticket[c].id = ticket[d].id
        => c = d

IInv ==
    /\ TypeOK
    /\ IdsBelowNext
    /\ ClosedHasNoFlight
    /\ RetiredHasNoFlight
    /\ ValidTicketsHaveIds
    /\ OneLeaderPerId

LEMMA NoTicketType == NoTicket \in Tickets
BY LimitsAssumption DEF NoTicket, Tickets, Word

LEMMA NoFlightType == NoFlight \in Flights
BY LimitsAssumption DEF NoFlight, Flights, Word

LEMMA NextWordType == \A n \in Word : NextWord(n) \in Word /\ (n < MaxWord => NextWord(n) = n + 1)
                                      /\ (n = MaxWord => NextWord(n) = 0)
BY LimitsAssumption DEF NextWord, Word

(* A fresh flight identifier: the bound moves past it. *)
LEMMA FreshId ==
    ASSUME TypeOK, nextFlightId # 0, nextFlightId' = NextWord(nextFlightId)
    PROVE  /\ IdBound = nextFlightId
           /\ IdBound' = nextFlightId + 1
BY LimitsAssumption, NextWordType DEF IdBound, TypeOK, Word

LEMMA InitInv == Init => IInv
<1> SUFFICES ASSUME Init PROVE IInv
    OBVIOUS
<1>1. TypeOK
  <2>1. 0 \in Word /\ 1 \in Word
      BY LimitsAssumption DEF Word
  <2> QED BY <2>1, NoTicketType, NoFlightType DEF Init, TypeOK
<1>2. IdsBelowNext
    BY DEF Init, IdsBelowNext, IdBound, NoFlight, NoTicket
<1>3. ClosedHasNoFlight /\ RetiredHasNoFlight /\ ValidTicketsHaveIds /\ OneLeaderPerId
    BY DEF Init, ClosedHasNoFlight, RetiredHasNoFlight, ValidTicketsHaveIds, OneLeaderPerId, NoTicket
<1> QED BY <1>1, <1>2, <1>3 DEF IInv

LEMMA RejectBeginInv ==
    ASSUME IInv, NEW c \in Callers, NEW k \in Keys, RejectBegin(c, k)
    PROVE  IInv'
<1>1. TypeOK'
    BY NoTicketType DEF IInv, TypeOK, RejectBegin, Receive
<1>2. IdsBelowNext'
    BY LimitsAssumption DEF IInv, TypeOK, IdsBelowNext, IdBound, RejectBegin, Receive, NoTicket, Word
<1>3. ClosedHasNoFlight' /\ RetiredHasNoFlight' /\ ValidTicketsHaveIds' /\ OneLeaderPerId'
    BY DEF IInv, TypeOK, ClosedHasNoFlight, RetiredHasNoFlight, ValidTicketsHaveIds,
           OneLeaderPerId, RejectBegin, Receive, NoTicket
<1> QED BY <1>1, <1>2, <1>3 DEF IInv

LEMMA JoinInv ==
    ASSUME IInv, NEW c \in Callers, NEW k \in Keys, Join(c, k)
    PROVE  IInv'
<1> DEFINE t == [role |-> "Follower", key |-> k, id |-> flight[k].id, gen |-> flight[k].gen]
<1>1. t \in Tickets
    BY DEF IInv, TypeOK, Tickets, Flights
<1>2. [flight[k] EXCEPT !.joiners = @ + 1] \in Flights
    BY LimitsAssumption DEF IInv, TypeOK, Flights, Join
<1>3. TypeOK'
    BY <1>1, <1>2 DEF IInv, TypeOK, Join, Receive
<1>4. \A j \in Keys : flight'[j].id = flight[j].id
    BY DEF IInv, TypeOK, Flights, Join
<1>5. IdsBelowNext'
    BY <1>4 DEF IInv, TypeOK, IdsBelowNext, IdBound, Join, Receive
<1>6. ClosedHasNoFlight' /\ RetiredHasNoFlight' /\ ValidTicketsHaveIds' /\ OneLeaderPerId'
    BY <1>4, <1>3 DEF IInv, TypeOK, Tickets, ClosedHasNoFlight, RetiredHasNoFlight, ValidTicketsHaveIds,
           OneLeaderPerId, Join, Receive, HasFlight
<1> QED BY <1>3, <1>5, <1>6 DEF IInv

LEMMA LeadInv ==
    ASSUME IInv, NEW c \in Callers, NEW k \in Keys, Lead(c, k)
    PROVE  IInv'
<1> DEFINE f == [id |-> nextFlightId, gen |-> TrackedGeneration(k), joiners |-> 1]
<1> DEFINE t == [role |-> "Leader", key |-> k, id |-> nextFlightId, gen |-> TrackedGeneration(k)]
<1>1. TrackedGeneration(k) \in Word
    BY LimitsAssumption DEF IInv, TypeOK, TrackedGeneration, Word
<1>2. t \in Tickets /\ f \in Flights
    BY <1>1, LimitsAssumption DEF IInv, TypeOK, Tickets, Flights
<1>3. TypeOK'
    BY <1>1, <1>2, NextWordType DEF IInv, TypeOK, Lead, Receive
<1>4. IdBound = nextFlightId /\ IdBound' = nextFlightId + 1
    BY FreshId DEF IInv, Lead
<1>5. /\ flight' = [flight EXCEPT ![k] = f]
      /\ ticket' = [ticket EXCEPT ![c] = t]
      /\ retired' = retired \ {c}
      /\ shutdown' = shutdown /\ ~shutdown /\ nextFlightId # 0
    BY DEF Lead, Receive
<1>6. /\ \A j \in Keys : flight[j].id < nextFlightId /\ flight[j].id \in Nat
      /\ \A d \in Callers : ticket[d].id < nextFlightId /\ ticket[d].id \in Nat
      /\ nextFlightId \in Nat
    BY <1>4, LimitsAssumption DEF IInv, TypeOK, IdsBelowNext, Flights, Tickets, Word
<1>7. IdsBelowNext'
    BY <1>3, <1>4, <1>5, <1>6 DEF IdsBelowNext, IInv, TypeOK
<1>8. ClosedHasNoFlight' /\ ValidTicketsHaveIds'
    BY <1>5 DEF IInv, TypeOK, ClosedHasNoFlight, ValidTicketsHaveIds
<1>9. RetiredHasNoFlight'
    BY <1>5, <1>6 DEF IInv, TypeOK, Tickets, RetiredHasNoFlight
<1>10. OneLeaderPerId'
    BY <1>5, <1>6 DEF IInv, TypeOK, OneLeaderPerId
<1> QED BY <1>3, <1>7, <1>8, <1>9, <1>10 DEF IInv

(* Closing the coordinator by any of its three ways. *)
LEMMA CloseInv ==
    ASSUME IInv,
           shutdown' = TRUE,
           flight' = [j \in Keys |-> NoFlight],
           nextFlightId' = nextFlightId,
           generation' \in [Keys -> Word],
           retired' = Callers,
           \/ ticket' = ticket
           \/ \E c \in Callers : ticket' = [ticket EXCEPT ![c] = NoTicket]
    PROVE  IInv'
<1>1. TypeOK'
    BY NoTicketType, NoFlightType DEF IInv, TypeOK
<1>2. \A d \in Callers : ticket'[d] = ticket[d] \/ ticket'[d] = NoTicket
    BY DEF IInv, TypeOK
<1>3. IdsBelowNext'
    BY <1>2, LimitsAssumption DEF IInv, TypeOK, IdsBelowNext, IdBound, NoFlight, NoTicket, Word
<1>4. ClosedHasNoFlight'
    BY DEF ClosedHasNoFlight, NoFlight
<1>5. RetiredHasNoFlight'
    BY <1>1 DEF RetiredHasNoFlight, NoFlight, TypeOK, Tickets
<1>6. ValidTicketsHaveIds' /\ OneLeaderPerId'
  <2>1. NoTicket.role = "None"
      BY DEF NoTicket
  <2> QED BY <1>2, <2>1 DEF IInv, ValidTicketsHaveIds, OneLeaderPerId
<1> QED BY <1>1, <1>3, <1>4, <1>5, <1>6 DEF IInv

LEMMA ExhaustFlightIdsInv ==
    ASSUME IInv, NEW c \in Callers, NEW k \in Keys, ExhaustFlightIds(c, k)
    PROVE  IInv'
<1>1. generation' \in [Keys -> Word]
    BY LimitsAssumption DEF IInv, TypeOK, ExhaustFlightIds, TrackedGeneration, Word
<1> QED BY <1>1, CloseInv DEF ExhaustFlightIds

(* A flight removed without closing: the tickets of that flight are all retired. *)
LEMMA CompleteInv ==
    ASSUME IInv, NEW c \in Callers, Complete(c)
    PROVE  IInv'
<1> DEFINE t == ticket[c]
<1>1. /\ flight' = [flight EXCEPT ![t.key] = NoFlight]
      /\ ticket' = ticket /\ shutdown' = shutdown /\ nextFlightId' = nextFlightId
      /\ generation' = generation
      /\ retired' \subseteq Callers
      /\ \A d \in retired' : d \in retired \/ (ticket[d].key = t.key /\ ticket[d].id = t.id)
    BY DEF Complete, IInv, TypeOK
<1>2. t.key \in Keys
    BY DEF IInv, TypeOK, Tickets
<1>3. TypeOK'
    BY <1>1, <1>2, NoFlightType DEF IInv, TypeOK
<1>4. \A j \in Keys : flight'[j] = IF j = t.key THEN NoFlight ELSE flight[j]
    BY <1>1, <1>2 DEF IInv, TypeOK
<1>5. IdsBelowNext'
    BY <1>1, <1>4, LimitsAssumption DEF IInv, TypeOK, IdsBelowNext, IdBound, NoFlight, Word
<1>6. ClosedHasNoFlight' /\ ValidTicketsHaveIds' /\ OneLeaderPerId'
    BY <1>1, <1>4 DEF IInv, ClosedHasNoFlight, ValidTicketsHaveIds, OneLeaderPerId, NoFlight
<1>7. RetiredHasNoFlight'
    BY <1>1, <1>3, <1>4 DEF IInv, TypeOK, Tickets, RetiredHasNoFlight, NoFlight
<1> QED BY <1>3, <1>5, <1>6, <1>7 DEF IInv

LEMMA InvalidateInv ==
    ASSUME IInv, NEW k \in Keys, Invalidate(k)
    PROVE  IInv'
<1>1. TypeOK'
    BY LimitsAssumption, NoFlightType DEF IInv, TypeOK, Invalidate, Word
<1>2. \A j \in Keys : flight'[j] = IF j = k THEN NoFlight ELSE flight[j]
    BY DEF IInv, TypeOK, Invalidate
<1>3. IdsBelowNext'
    BY <1>2, LimitsAssumption DEF IInv, TypeOK, Invalidate, IdsBelowNext, IdBound, NoFlight, Word
<1>4. ClosedHasNoFlight' /\ ValidTicketsHaveIds' /\ OneLeaderPerId'
    BY <1>2 DEF IInv, Invalidate, ClosedHasNoFlight, ValidTicketsHaveIds, OneLeaderPerId, NoFlight
<1>5. RetiredHasNoFlight'
    BY <1>1, <1>2 DEF IInv, TypeOK, Tickets, Invalidate, RetiredHasNoFlight, NoFlight
<1> QED BY <1>1, <1>3, <1>4, <1>5 DEF IInv

LEMMA NextInv == IInv /\ [Next]_vars => IInv'
<1> SUFFICES ASSUME IInv, [Next]_vars PROVE IInv'
    OBVIOUS
<1>1. ASSUME NEW c \in Callers, NEW k \in Keys, BeginOrJoin(c, k) PROVE IInv'
    BY <1>1, RejectBeginInv, JoinInv, LeadInv, ExhaustFlightIdsInv DEF BeginOrJoin
<1>2. ASSUME NEW c \in Callers, Complete(c) PROVE IInv'
    BY <1>2, CompleteInv
<1>3. ASSUME NEW k \in Keys, Invalidate(k) PROVE IInv'
    BY <1>3, InvalidateInv
<1>4. ASSUME Close PROVE IInv'
    BY <1>4, CloseInv DEF Close, IInv, TypeOK
<1>5. CASE UNCHANGED vars
    BY <1>5 DEF vars, IInv, TypeOK, IdsBelowNext, IdBound, ClosedHasNoFlight,
               RetiredHasNoFlight, ValidTicketsHaveIds, OneLeaderPerId
<1> QED BY <1>1, <1>2, <1>3, <1>4, <1>5 DEF Next, ExhaustGeneration, BeginShutdown

LEMMA SpecInv == Spec => []IInv
BY InitInv, NextInv, PTL DEF Spec

(* Every reachable state of the coordinator is well typed: in particular the   *)
(* flight counter and the generations stay within the 64-bit word.             *)
THEOREM TypeCorrect == Spec => []TypeOK
<1>1. IInv => TypeOK
    BY DEF IInv
<1> QED BY <1>1, SpecInv, PTL

(* A ticket whose flight ended never becomes current again, for any number of  *)
(* callers, accounts and flights, including after the counters are exhausted.  *)
THEOREM StaleTicketsStayStale == Spec => []StaleTicketNeverCurrent
<1>1. IInv => StaleTicketNeverCurrent
    BY DEF IInv, TypeOK, StaleTicketNeverCurrent, RetiredHasNoFlight, ValidTicketsHaveIds, IsCurrent
<1> QED BY <1>1, SpecInv, PTL

(* At most one caller leads the live refresh of an account.                    *)
THEOREM SingleLeader == Spec => []OneLiveLeader
<1>1. IInv => OneLiveLeader
    BY DEF IInv, OneLiveLeader, OneLeaderPerId, IsCurrent
<1> QED BY <1>1, SpecInv, PTL
=============================================================================
