-------------------------------- MODULE UnitsMC --------------------------------
(***************************************************************************)
(* Components of the access and provider layers that share no state, one   *)
(* per behaviour: unit names the one that runs.  The others keep the value *)
(* they have when they are not there.                                      *)
(***************************************************************************)
EXTENDS CredentialRefreshCoordinator, TLC

VARIABLES unit,
          which, decoder, wired, chat,                          \* ProtocolsMC
          source, context, thread, applied, revoked, quiet,     \* CredentialAccess
          phase, conversation, answer, heard, frames, turn      \* ResponseStream

protocolVars == <<which, decoder, wired, chat>>
accessVars == <<source, context, thread, applied, revoked, quiet>>
responseVars == <<phase, conversation, answer, heard, frames, turn>>

unitVars == <<unit, vars, protocolVars, accessVars, responseVars>>

Protocols == INSTANCE ProtocolsMC WITH MaxWire <- 4

NoProtocols ==
    which = "none" /\ decoder = [events |-> <<>>] /\ wired = 0 /\ chat = 0

\* The last invalidation and shutdown race: a thread does both.
Access == INSTANCE CredentialAccess WITH
    Credentialed <- {"lease"}, Anonymous <- {"route"},
    Dispatchers <- {"t1", "t2"}, Administrators <- {"t2", "t3"},
    MaxGeneration <- 3

\* Two requests of one conversation, in each dialect; a dialect that says more
\* per frame has fewer of them.
Responses == INSTANCE ResponseStream WITH
    Dialects <- {"native", "anthropic", "chat", "gemini"}, Texts <- {<<"x">>, <<"w">>},
    CallIds <- {"c", "d"}, Stores <- BOOLEAN, MaxItems <- 2, MaxArguments <- 2,
    MaxFrames <- [native |-> 3, chat |-> 4, anthropic |-> 5, gemini |-> 5], MaxTurns <- 2,
    context <- conversation, state <- answer

UnitsInit ==
    /\ Init
    /\ Access!Init
    /\ Responses!Init
    /\ \/ unit \in {"coordinator", "access", "responses"} /\ NoProtocols
       \/ unit = "protocols" /\ Protocols!Init
    /\ unit # "responses" => conversation.api = "native" /\ ~conversation.store

UnitsNext ==
    /\ UNCHANGED unit
    /\ \/ unit = "coordinator" /\ Next /\ UNCHANGED <<protocolVars, accessVars, responseVars>>
       \/ unit = "protocols" /\ Protocols!Next /\ UNCHANGED <<vars, accessVars, responseVars>>
       \/ unit = "access" /\ Access!Next /\ UNCHANGED <<vars, protocolVars, responseVars>>
       \/ unit = "responses" /\ Responses!Next /\ UNCHANGED <<vars, protocolVars, accessVars>>

UnitsSpec == UnitsInit /\ [][UnitsNext]_unitVars

\* No caller of the coordinator is distinguished.  (A ticket's key is.)
CallerSymmetry == Permutations(Callers)

-----------------------------------------------------------------------------
(* Properties: each is stated in the module of its component. *)

\* A decoder's events are those of one model event stream.
RefinesStream == Protocols!RefinesStream

\* An answer's text is what was streamed, in each protocol, and a Chat stream
\* its decoder accepts is never lost in the bridge to Responses.
AnswersAreWhole ==
    /\ Protocols!CompletedTextWasStreamed
    /\ Protocols!AnthropicText
    /\ Protocols!AcceptedStreamCompletes

\* What the next request replays holds the calls, or steps, that were announced,
\* in each protocol that keeps a continuation.
ContinuationsHoldTheCalls ==
    /\ Protocols!ContinuationHoldsTheCalls
    /\ Protocols!AnthropicContinuation
    /\ Protocols!GeminiContinuation

\* A caller of the Response API hears the output and nothing else, and may
\* continue with what a provider accepts.
ResponsesAreWhole == unit = "responses" => Responses!ResponseStreamIsTrue

\* Revocation: no older context is granted after it.
RevokedIsNeverGranted == Access!RevokedIsNeverGranted

\* After a true answer no older context is in use; none is ever dispatched twice.
CredentialUseIsBounded == Access!QuietAfterInvalidate /\ Access!OneDispatch

=============================================================================
