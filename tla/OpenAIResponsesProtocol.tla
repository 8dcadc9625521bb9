----------------------- MODULE OpenAIResponsesProtocol -----------------------
(***************************************************************************)
(* FUnrealAIOpenAIResponsesStreamDecoder: the events of one Responses API  *)
(* stream become the model events of one request.  A wire event that is    *)
(* not a bounded object of the expected shape, repeats a sequence number   *)
(* or exceeds a byte budget is "Malformed": the code fails the stream on   *)
(* each of them alike.  Text and arguments are sequences of pieces.        *)
(*                                                                         *)
(* The decoder runs a handler to its end or to the first failure, so each  *)
(* handler is an operator on the decoder that stops at a terminal one.     *)
(***************************************************************************)
EXTENDS Integers, FiniteSets, SequencesExt

CONSTANTS ResponseIds, Texts, Deltas, PartKeys, Indices, ItemIds,
          Tools,             \* names of the request's tool map
          NullTools,         \* tools whose optional members are sent as null
          FunctionItems,     \* bound: function_call items of the wire
          MessageItems,      \* bound: message items of the wire
          Objects,           \* argument texts that are JSON objects
          MaxParts,          \* MaxRetainedTextParts
          MaxItems,          \* MaxRetainedOutputItems
          MaxCalls,          \* MaxNormalizedToolCalls
          Outputs,           \* bound: output arrays of a completed response
          MaxWire            \* bound: wire events of a stream

VARIABLES decoder,   \* FImpl
          wired      \* wire events received

vars == <<decoder, wired>>

Stream == INSTANCE ModelEventStream WITH events <- decoder.events
Event(kind, tool, data) == Stream!Event(kind, tool, data)
Plain(kind) == Stream!Plain(kind)

Items == FunctionItems \union MessageItems \union {[type |-> "other"]}
NoFunction == [x \in {} |-> 0]
Put(f, k, v) == (k :> v) @@ f

Init ==
    /\ decoder = [started |-> FALSE, terminal |-> FALSE, failed |-> FALSE,
                  id |-> "", text |-> <<>>, parts |-> NoFunction,
                  calls |-> NoFunction, last |-> -1, items |-> NoFunction,
                  events |-> <<>>, retained |-> <<>>]
    /\ wired = 0

-----------------------------------------------------------------------------
(* Emitting and failing *)

Emit(d, e) == [d EXCEPT !.events = Append(@, e)]

EmitStarted(d) ==
    IF d.started \/ d.terminal THEN d
    ELSE Emit([d EXCEPT !.started = TRUE], Plain("Started"))

ProtocolFailure(d) ==
    IF d.terminal THEN d
    ELSE Emit([EmitStarted(d) EXCEPT !.terminal = TRUE, !.failed = TRUE],
              Plain("Failed"))

\* The rest of a handler, which a failure has ended.
Then(d, Rest(_)) == IF d.terminal THEN d ELSE Rest(d)

CaptureResponseId(d, id) ==
    IF d.id \in {"", id} THEN [d EXCEPT !.id = id] ELSE ProtocolFailure(d)

-----------------------------------------------------------------------------
(* Text parts *)

DoneParts(d) == {k \in DOMAIN d.parts : d.parts[k].done}

MessageParts(d) ==
    LET messages == {i \in DOMAIN d.items : d.items[i].type = "message"}
    IN MapThenSumSet(LAMBDA i : Len(d.items[i].content), messages)

PartFits(d, key) ==
    key \notin DOMAIN d.parts =>
        Cardinality(DOMAIN d.parts) + MessageParts(d) < MaxParts

TextDelta(d, key, id, text) ==
    IF /\ PartFits(d, key)
       /\ key \in DOMAIN d.parts => d.parts[key].id = id /\ ~d.parts[key].done
    THEN LET old == IF key \in DOMAIN d.parts THEN d.parts[key].text ELSE <<>>
             part == [id |-> id, text |-> old \o text, done |-> FALSE]
         IN Emit([EmitStarted(d) EXCEPT !.parts = Put(@, key, part), !.text = @ \o text],
                 Event("TextDelta", 0, text))
    ELSE ProtocolFailure(d)

TextDone(d, key, id, text) ==
    IF /\ PartFits(d, key)
       /\ key \in DOMAIN d.parts =>
             /\ d.parts[key].id = id
             /\ ~d.parts[key].done
             /\ d.parts[key].text \in {<<>>, text}
    THEN [d EXCEPT !.parts = Put(@, key, [id |-> id, text |-> text, done |-> TRUE])]
    ELSE ProtocolFailure(d)

\* The completed parts in the order of their keys.
DoneText(d) ==
    LET Before(a, b) == a[1] < b[1] \/ (a[1] = b[1] /\ a[2] < b[2])
        keys == SetToSortSeq(DoneParts(d), Before)
    IN FlattenSeq([i \in DOMAIN keys |-> d.parts[keys[i]].text])

-----------------------------------------------------------------------------
(* Tool calls *)

CompletedCalls(d) == {i \in DOMAIN d.calls : d.calls[i].done}

\* Mutant: the provider's output index is published as the tool's ordinal.
OrdinalIsIndex(d, index) == index

\* Tool calls are numbered as they start.
NextOrdinal(d, index) == Cardinality(DOMAIN d.calls)

\* The start emits Started even when it is then refused.
StartToolCall(d, index, item) ==
    IF \/ index < d.last
       \/ index \in DOMAIN d.calls
       \/ \E i \in DOMAIN d.calls : d.calls[i].id = item.id \/ d.calls[i].call = item.call
       \/ Cardinality(DOMAIN d.calls) >= MaxCalls
    THEN ProtocolFailure(EmitStarted(d))
    ELSE LET call == [id |-> item.id, call |-> item.call, tool |-> item.tool,
                      ordinal |-> NextOrdinal(d, index), args |-> <<>>,
                      final |-> <<>>, done |-> FALSE]
         IN Emit([EmitStarted(d) EXCEPT !.calls = Put(@, index, call), !.last = index],
                 Event("ToolStarted", call.ordinal, <<>>))

\* NormalizeToolArguments drops the optional members sent as null.
Normalized(tool, args) ==
    IF tool \in NullTools THEN SelectSeq(args, LAMBDA m : m # "null") ELSE args

CompleteToolCall(d, index, args) ==
    LET call == d.calls[index]
    IN IF args \in Objects /\ call.done /\ call.final = args
       THEN d
       ELSE IF args \in Objects /\ ~call.done /\ call.args \in {<<>>, args}
       THEN Emit([d EXCEPT !.calls[index].done = TRUE, !.calls[index].final = args],
                 Event("ToolCompleted", call.ordinal, Normalized(call.tool, args)))
       ELSE ProtocolFailure(d)

StartToolCallFromItem(d, index, item) ==
    IF item.tool \in Tools /\ item.args = <<>>
    THEN StartToolCall(d, index, item)
    ELSE ProtocolFailure(d)

ReconcileFunctionCall(d, index, item) ==
    LET Open(e) == IF index \in DOMAIN e.calls THEN e ELSE StartToolCall(e, index, item)
        Close(e) ==
            IF /\ e.calls[index].id = item.id
               /\ e.calls[index].call = item.call
               /\ e.calls[index].tool = item.tool
            THEN CompleteToolCall(e, index, item.args)
            ELSE ProtocolFailure(e)
    IN IF item.tool \in Tools THEN Then(Open(d), Close) ELSE ProtocolFailure(d)

\* Synthetic nulls make a delta unfit to publish: such a call only completes.
AppendToolArgumentsDelta(d, index, id, delta) ==
    IF index \in DOMAIN d.calls /\ d.calls[index].id = id /\ ~d.calls[index].done
    THEN LET e == [d EXCEPT !.calls[index].args = @ \o delta]
         IN IF d.calls[index].tool \in NullTools THEN e
            ELSE Emit(e, Event("ToolDelta", d.calls[index].ordinal, delta))
    ELSE ProtocolFailure(d)

CompleteToolArguments(d, index, id, args) ==
    IF index \in DOMAIN d.calls /\ d.calls[index].id = id
    THEN CompleteToolCall(d, index, args)
    ELSE ProtocolFailure(d)

-----------------------------------------------------------------------------
(* Output items *)

ItemAdded(d, index, item) ==
    IF item.type # "function_call" THEN d
    ELSE IF item.args # <<>> THEN ReconcileFunctionCall(d, index, item)
    ELSE StartToolCallFromItem(d, index, item)

ItemDone(d, index, item) ==
    IF \/ index \in DOMAIN d.items
       \/ Cardinality(DOMAIN d.items) >= MaxItems
       \/ /\ item.type = "message"
          /\ Len(item.content) > MaxParts - Cardinality(DOMAIN d.parts) - MessageParts(d)
    THEN ProtocolFailure(d)
    ELSE LET e == [d EXCEPT !.items = Put(@, index, item)]
         IN IF item.type = "function_call" THEN ReconcileFunctionCall(e, index, item) ELSE e

-----------------------------------------------------------------------------
(* response.completed *)

\* bAllowEmptyTerminalOutput, a constant of the stream, is read here alone.
UsesRetained(d, response) ==
    \/ ~response.hasOutput
    \/ response.allowEmpty /\ response.output = <<>> /\ DOMAIN d.items # {}

\* The items of the response with their output indices, in order.
Listed(d, response) ==
    LET indices == SetToSortSeq(DOMAIN d.items, <)
    IN IF UsesRetained(d, response)
       THEN [k \in DOMAIN indices |-> [index |-> indices[k], item |-> d.items[indices[k]]]]
       ELSE [k \in DOMAIN response.output |->
                [index |-> k - 1, item |-> response.output[k]]]

MessagesReconcile(d, response) ==
    \A i \in DOMAIN d.items :
        ~UsesRetained(d, response) /\ d.items[i].type = "message" =>
            i < Len(response.output) /\ response.output[i + 1] = d.items[i]

ListedText(listed) ==
    FlattenSeq([k \in DOMAIN listed |->
        IF listed[k].item.type = "message" THEN FlattenSeq(listed[k].item.content) ELSE <<>>])

VisitItem(d, entry) ==
    IF d.terminal \/ entry.item.type # "function_call" THEN d
    ELSE ReconcileFunctionCall(d, entry.index, entry.item)

\* Mutant: a call that was streamed to its end need not be in the output.
CallsCompleted(d, listed) == CompletedCalls(d) = DOMAIN d.calls

CallsReconcile(d, listed) ==
    \A i \in DOMAIN d.calls :
        /\ d.calls[i].done
        /\ \E k \in DOMAIN listed :
              listed[k].index = i /\ listed[k].item.type = "function_call"

\* Mutant: the final text is not compared with the fragments.
TextNotCompared(d, final) ==
    /\ DoneParts(d) # {} => final = DoneText(d)
    /\ final = <<>> => CompletedCalls(d) # {}

TextReconciles(d, final) ==
    /\ d.text # <<>> => final = d.text
    /\ DoneParts(d) # {} => final = DoneText(d)
    /\ final = <<>> => CompletedCalls(d) # {}

\* What follows reconciliation, up to the first fault of the response: an
\* output that is no JSON object, a continuation that cannot be retained,
\* bad metadata, bad usage.
Conclude(d, final, listed, response) ==
    LET Faulty(e, fault) == IF response.fault = fault THEN ProtocolFailure(e) ELSE e
        Text(e) == IF final = <<>> THEN e
                   ELSE Then(Faulty(e, "structure"),
                             LAMBDA x : Emit(x, Event("TextCompleted", 0, final)))
        Continuation(e) == IF CompletedCalls(e) = {} THEN e
                           ELSE Then(Faulty(e, "continuation"),
                                     LAMBDA x : [x EXCEPT !.retained =
                                         [k \in DOMAIN listed |-> listed[k].item]])
        Metadata(e) == Then(Faulty(e, "metadata"), LAMBDA x : Emit(x, Plain("Metadata")))
        Usage(e) == Then(Faulty(e, "usage"), LAMBDA x : Emit(x, Plain("Usage")))
        Done(e) == Emit([e EXCEPT !.terminal = TRUE], Plain("Completed"))
    IN Then(Then(Then(Then(Text(d), Continuation), Metadata), Usage), Done)

Complete(d, response) ==
    LET listed == Listed(d, response)
        text == ListedText(listed)
        Fits(e) == IF Len(listed) <= MaxItems /\ MessagesReconcile(e, response)
                   THEN EmitStarted(e)
                   ELSE ProtocolFailure(e)
        Visit(e) == FoldLeft(VisitItem, e, listed)
        Reconcile(e) ==
            LET final == IF text = <<>> THEN e.text ELSE text
            IN IF CallsReconcile(e, listed) /\ TextReconciles(e, final)
               THEN Conclude(e, final, listed, response)
               ELSE ProtocolFailure(e)
    IN Then(Then(Then(CaptureResponseId(d, response.id), Fits), Visit), Reconcile)

-----------------------------------------------------------------------------
(* One wire event, as Push and ProcessEvent dispatch it *)

Process(d) ==
    /\ ~decoder.terminal
    /\ wired < MaxWire
    /\ wired' = wired + 1
    /\ decoder' = d

ResponseLifecycle ==
    \E id \in ResponseIds :
        Process(Then(CaptureResponseId(decoder, id), EmitStarted))

OutputTextDelta ==
    \E key \in PartKeys, id \in ItemIds, text \in Deltas :
        Process(TextDelta(decoder, key, id, text))

OutputTextDone ==
    \E key \in PartKeys, id \in ItemIds, text \in Texts :
        Process(TextDone(decoder, key, id, text))

OutputItemAdded ==
    \E index \in Indices, item \in Items : Process(ItemAdded(decoder, index, item))

ArgumentsDelta ==
    \E index \in Indices, item \in FunctionItems :
        /\ item.args # <<>>
        /\ \E n \in 1 .. Len(item.args) :
              Process(AppendToolArgumentsDelta(decoder, index, item.id, <<item.args[n]>>))

ArgumentsDone ==
    \E index \in Indices, item \in FunctionItems :
        Process(CompleteToolArguments(decoder, index, item.id, item.args))

OutputItemDone ==
    \E index \in Indices, item \in Items : Process(ItemDone(decoder, index, item))

\* The terminal responses: with an output or without one.
Responses ==
    LET Faults == {"none", "structure", "continuation", "metadata", "usage"}
        Response(output, has, allow, faults) ==
            [id : ResponseIds, hasOutput : {has}, output : output, allowEmpty : {allow},
             fault : faults]
    IN Response(Outputs, TRUE, FALSE, Faults)
       \union Response({<<>>}, TRUE, TRUE, {"none"})
       \union Response({<<>>}, FALSE, FALSE, {"none"})

ResponseCompleted == \E response \in Responses : Process(Complete(decoder, response))

\* response.failed and response.incomplete carry a response, error may not.
ResponseFailed ==
    \/ Process(ProtocolFailure(decoder))
    \/ \E id \in ResponseIds :
          Process(Then(CaptureResponseId(decoder, id), ProtocolFailure))

\* An event whose header, type or sequence number is refused.  An event of an
\* unknown type changes nothing.
Malformed == Process(ProtocolFailure(decoder))

\* Finish without a terminal event.
Truncated == Process(ProtocolFailure(decoder))

Cancel ==
    /\ ~decoder.terminal
    /\ decoder' = Emit([decoder EXCEPT !.terminal = TRUE], Plain("Cancelled"))
    /\ UNCHANGED wired

Next ==
    \/ ResponseLifecycle
    \/ OutputTextDelta
    \/ OutputTextDone
    \/ OutputItemAdded
    \/ ArgumentsDelta
    \/ ArgumentsDone
    \/ OutputItemDone
    \/ ResponseCompleted
    \/ ResponseFailed
    \/ Malformed
    \/ Truncated
    \/ Cancel

Spec == Init /\ [][Next]_vars

-----------------------------------------------------------------------------
(* Properties *)

\* The events of a Responses stream obey the contract of a model event
\* stream whatever the provider sends: terminal last, tools in order, and
\* arguments whole.
RefinesStream == Stream!Spec

\* The text a response completes with is what the application was shown,
\* piece by piece, and what the provider declared its parts to be; no event
\* of the provider, in any order, makes the two differ.
CompletedTextWasStreamed ==
    \A i \in DOMAIN decoder.events :
        decoder.events[i].kind = "TextCompleted" =>
            LET shown == Stream!Joined(Stream!About(decoder.events, "TextDelta", 0))
            IN /\ shown \in {<<>>, decoder.events[i].data}
               /\ DoneParts(decoder) # {} => decoder.events[i].data = DoneText(decoder)

\* The continuation of a completed response holds the calls the application
\* was told of, all of them, in the order of their ordinals and with their
\* arguments: its tool outputs can be paired with the retained calls.
ContinuationHoldsTheCalls ==
    decoder.terminal /\ Last(decoder.events).kind = "Completed" =>
        LET kept == SelectSeq(decoder.retained, LAMBDA m : m.type = "function_call")
            told == SelectSeq(decoder.events, LAMBDA e : e.kind = "ToolCompleted")
            starts == SelectSeq(decoder.events, LAMBDA e : e.kind = "ToolStarted")
        IN /\ Len(kept) = Len(told)
           /\ Len(kept) = Len(starts)
           /\ \A k \in DOMAIN kept :
                 \E i \in DOMAIN told :
                    /\ told[i].tool = k - 1
                    /\ told[i].data = Normalized(kept[k].tool, kept[k].args)

=============================================================================
