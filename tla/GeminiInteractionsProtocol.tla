---------------------- MODULE GeminiInteractionsProtocol ----------------------
(***************************************************************************)
(* FUnrealAIGeminiInteractionsStreamDecoder: the typed events of one       *)
(* interaction become the model events of one request.  An event of the    *)
(* wrong shape or past a byte bound is ProcessProviderError's Fail.  Text  *)
(* and arguments are sequences of pieces.                                  *)
(***************************************************************************)
EXTENDS Integers, FiniteSets, SequencesExt

CONSTANTS Indices,     \* index of a step
          Starts,      \* bound: steps the provider starts
          Deltas,      \* bound: deltas the provider sends
          ToolNames,   \* invocation names of the request's tools
          Objects,     \* argument texts that are JSON objects
          MaxSteps,
          MaxWire      \* bound: wire events of a stream

VARIABLES decoder,   \* FImpl
          wired      \* wire events received

vars == <<decoder, wired>>

Stream == INSTANCE ModelEventStream WITH events <- decoder.events
Event(kind, tool, data) == Stream!Event(kind, tool, data)
Plain(kind) == Stream!Plain(kind)

Init ==
    /\ decoder = [started |-> FALSE, terminal |-> FALSE, usable |-> FALSE,
                  steps |-> [x \in {} |-> 0], tools |-> 0, events |-> <<>>,
                  retained |-> <<>>]
    /\ wired = 0

-----------------------------------------------------------------------------
Emit(d, e) == [d EXCEPT !.events = Append(@, e)]

EmitStarted(d) ==
    IF d.started THEN d ELSE Emit([d EXCEPT !.started = TRUE], Plain("Started"))

Fail(d) == Emit([EmitStarted(d) EXCEPT !.terminal = TRUE], Plain("Failed"))

\* ToolCallIds
Calls(d) == {i \in DOMAIN d.steps : d.steps[i].kind = "function_call"}

InteractionCreated(d, model) ==
    IF d.started THEN Fail(d)
    ELSE IF model THEN Emit(EmitStarted(d), Plain("Metadata")) ELSE EmitStarted(d)

\* The text or the arguments a step starts with are its first delta.
Opening(d, kind, tool, data) ==
    IF data = <<>> THEN d ELSE Emit(d, Event(kind, tool, data))

\* A step of an unknown type spoils the continuation.
StepStart(d, index, start) ==
    LET step == [kind |-> start.kind, call |-> start.call, data |-> start.data,
                 tool |-> d.tools, stopped |-> FALSE, safe |-> start.kind # "unknown"]
        e == [d EXCEPT !.steps = (index :> step) @@ @]
        refused == start.kind = "function_call" /\ (\/ start.name \notin ToolNames
                                                   \/ \E i \in Calls(d) : d.steps[i].call = start.call)
    IN IF ~d.started \/ index \in DOMAIN d.steps \/ Cardinality(DOMAIN d.steps) >= MaxSteps \/ refused
       THEN Fail(d)
       ELSE CASE start.kind = "function_call" ->
                    Opening(Emit([e EXCEPT !.tools = @ + 1], Event("ToolStarted", d.tools, <<>>)),
                            "ToolDelta", d.tools, start.data)
              [] start.kind = "model_output" -> Opening(e, "TextDelta", 0, start.data)
              [] OTHER -> e

\* A delta that is not understood spoils the continuation, not the stream.
Spoiled(d, index) == [d EXCEPT !.steps[index].safe = FALSE]

StepDelta(d, index, delta) ==
    IF index \notin DOMAIN d.steps \/ (index \in DOMAIN d.steps => d.steps[index].stopped)
    THEN Fail(d)
    ELSE LET step == d.steps[index]
             e == [d EXCEPT !.steps[index].data = @ \o delta.data]
         IN CASE step.kind = "model_output" /\ delta.kind = "text" ->
                    Emit(e, Event("TextDelta", 0, delta.data))
              [] step.kind = "function_call" /\ delta.kind = "arguments_delta" ->
                    Emit(e, Event("ToolDelta", step.tool, delta.data))
              [] step.kind = "thought" /\ delta.kind = "thought_signature" ->
                    [d EXCEPT !.steps[index].data = delta.data]
              [] step.kind = "thought" /\ delta.kind = "thought_summary" -> d
              [] OTHER -> Spoiled(d, index)

\* A thought needs its signature, an output its text, a call its arguments;
\* no arguments at all are the empty object.
StepStop(d, index) ==
    IF index \notin DOMAIN d.steps \/ (index \in DOMAIN d.steps => d.steps[index].stopped)
    THEN Fail(d)
    ELSE LET step == d.steps[index]
             args == IF step.data = <<>> THEN <<"{}">> ELSE step.data
             e == [d EXCEPT !.steps[index].stopped = TRUE]
         IN CASE step.kind = "unknown" -> e
              [] step.kind = "thought" -> IF step.data = <<>> THEN Fail(e) ELSE e
              [] step.kind = "model_output" ->
                    IF step.data = <<>> THEN Fail(e)
                    ELSE Emit([e EXCEPT !.usable = TRUE], Event("TextCompleted", 0, step.data))
              [] step.kind = "function_call" ->
                    IF args \notin Objects \union {<<"{}">>} THEN Fail(e)
                    ELSE Emit([e EXCEPT !.usable = TRUE, !.steps[index].data = args],
                              Event("ToolCompleted", step.tool, args))

StepsStopped(d) == \A i \in DOMAIN d.steps : d.steps[i].stopped

\* Mutant: a call need not wait for its answer.
AnyStatus(d, status) == d.usable

StatusFits(d, status) ==
    /\ d.usable
    /\ IF Calls(d) = {} THEN status \in {"completed", "incomplete"}
       ELSE status = "requires_action"

\* SerializeRetainedSteps: every step, in the order of the indices.
Retained(d) ==
    LET indices == SetToSortSeq(DOMAIN d.steps, <)
    IN [k \in DOMAIN indices |-> d.steps[indices[k]]]

\* fault: the usage, the error of a failed interaction or the retained body
\* is malformed or too large.
InteractionCompleted(d, status, usage, fault) ==
    LET failure == status \in {"failed", "cancelled", "timed_out"}
        e == Emit(d, Plain("Metadata"))
        u == IF usage THEN Emit(e, Plain("Usage")) ELSE e
        Terminal(kind) == Emit([u EXCEPT !.terminal = TRUE], Plain(kind))
        unfit == ~failure /\ (~usage \/ ~StepsStopped(d) \/ ~StatusFits(d, status))
        lost == \/ failure /\ fault = "error"
                \/ /\ status = "requires_action"
                   /\ fault = "continuation" \/ \E i \in DOMAIN d.steps : ~d.steps[i].safe
    IN IF ~d.started \/ unfit THEN Fail(d)
       ELSE IF fault = "usage" /\ usage THEN Fail(e)
       ELSE IF lost THEN Fail(u)
       ELSE CASE status = "failed" -> Terminal("Failed")
              [] status = "cancelled" -> Terminal("Cancelled")
              [] status = "timed_out" -> Terminal("TimedOut")
              [] status = "requires_action" ->
                   Emit([u EXCEPT !.terminal = TRUE, !.retained = Retained(d)], Plain("Completed"))
              [] OTHER -> Terminal("Completed")

-----------------------------------------------------------------------------
(* One event, as ProcessTypedEvent dispatches it *)

Process(d) ==
    /\ ~decoder.terminal
    /\ wired < MaxWire
    /\ wired' = wired + 1
    /\ decoder' = d

ProcessInteractionCreated == \E model \in BOOLEAN : Process(InteractionCreated(decoder, model))
ProcessStepStart ==
    \E index \in Indices, start \in Starts : Process(StepStart(decoder, index, start))
ProcessStepDelta ==
    \E index \in Indices, delta \in Deltas : Process(StepDelta(decoder, index, delta))
ProcessStepStop == \E index \in Indices : Process(StepStop(decoder, index))
ProcessInteractionCompleted ==
    \E status \in {"completed", "requires_action", "incomplete", "failed", "cancelled", "timed_out"},
       usage \in BOOLEAN, fault \in {"none", "usage", "error", "continuation"} :
        Process(InteractionCompleted(decoder, status, usage, fault))

\* An error event, every malformed event and an early [DONE].  A status update
\* of this interaction and an event of an unknown type change nothing.
ProcessProviderError == Process(Fail(decoder))

\* An end of the body without interaction.completed.
Finish == Process(Fail(decoder))

Cancel ==
    /\ ~decoder.terminal
    /\ decoder' = Emit([decoder EXCEPT !.terminal = TRUE], Plain("Cancelled"))
    /\ UNCHANGED wired

Next ==
    \/ ProcessInteractionCreated
    \/ ProcessStepStart
    \/ ProcessStepDelta
    \/ ProcessStepStop
    \/ ProcessInteractionCompleted
    \/ ProcessProviderError
    \/ Finish
    \/ Cancel

Spec == Init /\ [][Next]_vars

-----------------------------------------------------------------------------
(* Properties *)

Completed == decoder.terminal /\ Last(decoder.events).kind = "Completed"

\* An interaction that completes with calls leaves a continuation that holds
\* everything the provider streamed: each call with the arguments the
\* application was told, every shown text, every thought with a signature,
\* and no step part of which was dropped.  One that completes without calls
\* leaves none.
ContinuationHoldsTheSteps ==
    Completed =>
        LET kept == decoder.retained
            told == SelectSeq(decoder.events, LAMBDA e : e.kind = "ToolCompleted")
            calls == SelectSeq(kept, LAMBDA s : s.kind = "function_call")
        IN IF told = <<>> THEN kept = <<>>
           ELSE /\ Len(calls) = Len(told)
                /\ \A i \in DOMAIN told : \E k \in DOMAIN calls :
                      calls[k].tool = told[i].tool /\ calls[k].data = told[i].data
                /\ \A k \in DOMAIN kept : kept[k].safe /\ kept[k].data # <<>>

=============================================================================
