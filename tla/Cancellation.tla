------------------------------ MODULE Cancellation ------------------------------
(***************************************************************************)
(* FUnrealAICancellationSource and its tokens: a tree of one-shot reasons, *)
(* each an atomic, which a token reads from its own state up to the root,  *)
(* one load at a time and without a lock.                                  *)
(***************************************************************************)
EXTENDS Naturals, FiniteSets

CONSTANTS States,         \* bound: the cancellation states ever made
          Observers,      \* threads that query tokens
          Reasons,        \* the known reasons
          MaxParentDepth

None == "none"
NoState == "nil"
Root == [parent |-> NoState, depth |-> 0, reason |-> None]

VARIABLES state,      \* FCancellationState, by identity; of the states made
          madeUnder,  \* the state whose token a source was made from
          query       \* Query of each observer

vars == <<state, madeUnder, query>>

Idle == [at |-> NoState, of |-> NoState, due |-> FALSE, answer |-> None]

Init ==
    /\ state = [s \in {} |-> Root]
    /\ madeUnder = [s \in {} |-> NoState]
    /\ query = [o \in Observers |-> Idle]

Made == DOMAIN state

\* Mutant: a source that would be too deep is cut off from its parent.
CutOff(parent) == [Root EXCEPT !.depth = MaxParentDepth]

\* The constructor fails closed when the chain is too long.
NewState(parent) ==
    IF parent = NoState THEN Root
    ELSE IF state[parent].depth >= MaxParentDepth
    THEN [Root EXCEPT !.depth = MaxParentDepth, !.reason = "Requested"]
    ELSE [parent |-> parent, depth |-> state[parent].depth + 1, reason |-> None]

Extended(f, s, value) == [x \in DOMAIN f \union {s} |-> IF x = s THEN value ELSE f[x]]

MakeSource(s, parent) ==
    /\ s \notin Made
    /\ parent \in Made \union {NoState}
    /\ state' = Extended(state, s, NewState(parent))
    /\ madeUnder' = Extended(madeUnder, s, parent)
    /\ UNCHANGED query

\* compare_exchange: the first reason stays.
Cancel(s, reason) ==
    /\ s \in Made
    /\ state[s].reason = None
    /\ state' = [state EXCEPT ![s].reason = reason]
    /\ UNCHANGED <<madeUnder, query>>

-----------------------------------------------------------------------------
\* The sources a source was made under, itself included.
Ancestors(s) ==
    {a \in Made : LET up[n \in 0..Cardinality(Made)] ==
                          IF n = 0 THEN s
                          ELSE IF up[n - 1] = NoState THEN NoState ELSE madeUnder[up[n - 1]]
                  IN \E n \in 0..Cardinality(Made) : up[n] = a}

Cancelled(s) == \E a \in Ancestors(s) : state[a].reason # None

StartQuery(o, s) ==
    /\ query[o].of = NoState
    /\ s \in Made
    /\ query' = [query EXCEPT ![o] =
                    [at |-> s, of |-> s, due |-> Cancelled(s), answer |-> None]]
    /\ UNCHANGED <<state, madeUnder>>

\* One load of Query: the reason here, or on to the parent.
StepQuery(o) ==
    LET q == query[o]
    IN /\ q.at # NoState
       /\ query' = [query EXCEPT ![o] =
              IF state[q.at].reason # None
              THEN [q EXCEPT !.at = NoState, !.answer = state[q.at].reason]
              ELSE [q EXCEPT !.at = state[q.at].parent]]
       /\ UNCHANGED <<state, madeUnder>>

EndQuery(o) ==
    /\ query[o].of # NoState
    /\ query[o].at = NoState
    /\ query' = [query EXCEPT ![o] = Idle]
    /\ UNCHANGED <<state, madeUnder>>

Next ==
    \/ \E s \in States : \E parent \in States \union {NoState} : MakeSource(s, parent)
    \/ \E s \in States, reason \in Reasons : Cancel(s, reason)
    \/ \E o \in Observers :
          \/ \E s \in States : StartQuery(o, s)
          \/ StepQuery(o) \/ EndQuery(o)

Spec == Init /\ [][Next]_vars

-----------------------------------------------------------------------------
(* Properties *)

\* A query that began after a source above its token was cancelled answers
\* cancelled, at any depth and whatever is cancelled while it walks: work
\* started under a cancelled owner never believes it may go on.
CancellationReachesEveryToken ==
    \A o \in Observers :
        query[o].of # NoState /\ query[o].at = NoState /\ query[o].due
            => query[o].answer # None

=============================================================================
