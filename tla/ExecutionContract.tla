-------------------------- MODULE ExecutionContract --------------------------
(***************************************************************************)
(* What FUnrealAIExecutionService promises of every call that starts a     *)
(* request: the caller hears events only while the request runs, then one  *)
(* terminal callback, then nothing; a shutdown ends delivery without one.  *)
(* A call that cannot run is told so at once.  Every request ends.         *)
(***************************************************************************)
EXTENDS Naturals, Sequences, SequencesExt

CONSTANTS Requests, Events

VARIABLES
    running,   \* requests that may still call back
    heard,     \* [Requests -> Seq(Events)]: stream events delivered
    told       \* [Requests -> Seq(Ends)]: how the request ended, if it has

vars == <<running, heard, told>>

Ends == {"Completed", "Failed", "Cancelled", "Closed"}

Init ==
    /\ running = {}
    /\ heard = [r \in Requests |-> <<>>]
    /\ told = [r \in Requests |-> <<>>]

Unused(r) == r \notin running /\ told[r] = <<>>

Begin(r) ==
    /\ Unused(r)
    /\ running' = running \union {r}
    /\ UNCHANGED <<heard, told>>

Refuse(r) ==
    /\ Unused(r)
    /\ told' = [told EXCEPT ![r] = <<"Failed">>]
    /\ UNCHANGED <<running, heard>>

Hear(r, n) ==
    /\ r \in running
    /\ heard' = [heard EXCEPT ![r] = Append(@, n)]
    /\ UNCHANGED <<running, told>>

End(r, how) ==
    /\ r \in running
    /\ running' = running \ {r}
    /\ told' = [told EXCEPT ![r] = <<how>>]
    /\ UNCHANGED heard

Close ==
    /\ running # {}
    /\ running' = {}
    /\ told' = [r \in Requests |->
                   IF r \in running THEN <<"Closed">> ELSE told[r]]
    /\ UNCHANGED heard

Next ==
    \/ \E r \in Requests :
        \/ Begin(r)
        \/ Refuse(r)
        \/ \E n \in Events : Hear(r, n)
        \/ \E how \in Ends \ {"Closed"} : End(r, how)
    \/ Close

Spec ==
    /\ Init /\ [][Next]_vars
    /\ \A r \in Requests :
        WF_vars(\/ \E how \in Ends \ {"Closed"} : End(r, how)
                \/ r \in running /\ Close)
=============================================================================
