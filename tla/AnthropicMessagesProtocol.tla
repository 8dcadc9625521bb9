----------------------- MODULE AnthropicMessagesProtocol -----------------------
(***************************************************************************)
(* FUnrealAIAnthropicMessagesStreamDecoder: the typed events of one        *)
(* Messages stream become the model events of one request.  An event of    *)
(* the wrong shape or past a byte bound is Malformed, as in the code.      *)
(* Text and arguments are sequences of pieces.                             *)
(***************************************************************************)
EXTENDS Integers, FiniteSets, SequencesExt

CONSTANTS Indices,     \* index of a content block
          Starts,      \* bound: content blocks the provider starts
          Deltas,      \* bound: deltas the provider sends
          ToolNames,   \* invocation names of the request's tools
          Objects,     \* argument texts that are JSON objects
          MaxBlocks,   \* MaxContentBlocks
          MaxWire      \* bound: wire events of a stream

VARIABLES decoder,   \* FImpl
          wired      \* wire events received

vars == <<decoder, wired>>

Stream == INSTANCE ModelEventStream WITH events <- decoder.events
Event(kind, tool, data) == Stream!Event(kind, tool, data)
Plain(kind) == Stream!Plain(kind)

Init ==
    /\ decoder = [started |-> FALSE, terminal |-> FALSE, usage |-> FALSE,
                  usable |-> FALSE, blocks |-> [x \in {} |-> 0], tools |-> 0,
                  events |-> <<>>, retained |-> <<>>]
    /\ wired = 0

-----------------------------------------------------------------------------
Emit(d, e) == [d EXCEPT !.events = Append(@, e)]

EmitStarted(d) ==
    IF d.started THEN d ELSE Emit([d EXCEPT !.started = TRUE], Plain("Started"))

Fail(d) ==
    Emit([EmitStarted(d) EXCEPT !.terminal = TRUE], Plain("Failed"))

\* ToolCallIds: a call of any block, stopped or not.
Calls(d) == {i \in DOMAIN d.blocks : d.blocks[i].kind = "tool_use"}

MessageStart(d) == IF d.started THEN Fail(d) ELSE EmitStarted(d)

\* Only a tool block is announced; initial text and input are kept.
ContentBlockStart(d, index, start) ==
    LET block == [kind |-> start.kind, call |-> start.call, name |-> start.name,
                  data |-> start.data, tool |-> d.tools, stopped |-> FALSE]
        e == [d EXCEPT !.blocks = (index :> block) @@ @]
    IN IF ~d.started \/ index \in DOMAIN d.blocks \/ Cardinality(DOMAIN d.blocks) >= MaxBlocks
       THEN Fail(d)
       ELSE IF start.kind # "tool_use" THEN e
       ELSE IF start.name \in ToolNames /\ \A i \in Calls(d) : d.blocks[i].call # start.call
       THEN Emit([e EXCEPT !.tools = @ + 1], Event("ToolStarted", d.tools, <<>>))
       ELSE Fail(d)

Accepts(block, delta) ==
    \/ block.kind = "text" /\ delta.kind = "text_delta"
    \/ block.kind = "tool_use" /\ delta.kind = "input_json_delta"

\* Thinking, signatures and citations are observed and dropped.
ContentBlockDelta(d, index, delta) ==
    IF index \notin DOMAIN d.blocks \/ (index \in DOMAIN d.blocks /\ d.blocks[index].stopped)
    THEN Fail(d)
    ELSE LET block == d.blocks[index]
             kind == IF block.kind = "text" THEN "TextDelta" ELSE "ToolDelta"
             tool == IF block.kind = "text" THEN 0 ELSE block.tool
         IN IF block.kind = "unknown" THEN d
            ELSE IF Accepts(block, delta)
            THEN Emit([d EXCEPT !.blocks[index].data = @ \o delta.data],
                      Event(kind, tool, delta.data))
            ELSE IF delta.kind = "other" THEN d
            ELSE Fail(d)

\* Mutant: a block may be stopped twice.
IsKnown(d, index) == index \in DOMAIN d.blocks

IsOpen(d, index) == index \in DOMAIN d.blocks /\ ~d.blocks[index].stopped

\* No input at all is the empty object.
ContentBlockStop(d, index) ==
    IF ~IsOpen(d, index) THEN Fail(d)
    ELSE LET block == d.blocks[index]
             args == IF block.data = <<>> THEN <<"{}">> ELSE block.data
             e == [d EXCEPT !.blocks[index].stopped = TRUE]
         IN CASE block.kind = "unknown" -> e
              [] block.kind = "text" ->
                    IF block.data = <<>> THEN Fail(e)
                    ELSE Emit([e EXCEPT !.usable = TRUE],
                              Event("TextCompleted", 0, block.data))
              [] block.kind = "tool_use" ->
                    IF args \notin Objects \union {<<"{}">>}
                    THEN Fail([e EXCEPT !.blocks[index].data = args])
                    ELSE Emit([e EXCEPT !.usable = TRUE, !.blocks[index].data = args],
                              Event("ToolCompleted", block.tool, args))

MessageDelta(d, reason) ==
    IF ~d.started \/ d.usage THEN Fail(d)
    ELSE Emit(IF reason THEN Emit([d EXCEPT !.usage = TRUE], Plain("Metadata"))
              ELSE [d EXCEPT !.usage = TRUE],
              Plain("Usage"))

\* SerializeRetainedAssistantContent: in the order of the indices, without
\* the blocks nobody knows.
Retained(d) ==
    LET known == {i \in DOMAIN d.blocks : d.blocks[i].kind # "unknown"}
        indices == SetToSortSeq(known, <)
    IN [k \in DOMAIN indices |-> d.blocks[indices[k]]]

\* Mutant: the message may stop while a block is open.
NoBlockCheck(d) == TRUE

BlocksStopped(d) == \A i \in DOMAIN d.blocks : d.blocks[i].stopped

\* retainable: whether the history has a fingerprint and the content fits.
MessageStop(d, retainable) ==
    IF \/ ~d.started \/ ~d.usage \/ ~d.usable
       \/ ~BlocksStopped(d)
       \/ Calls(d) # {} /\ ~retainable
    THEN Fail(d)
    ELSE Emit([d EXCEPT !.terminal = TRUE,
                        !.retained = IF Calls(d) = {} THEN <<>> ELSE Retained(d)],
              Plain("Completed"))

-----------------------------------------------------------------------------
(* One event, as ProcessTypedEvent dispatches it *)

Process(d) ==
    /\ ~decoder.terminal
    /\ wired < MaxWire
    /\ wired' = wired + 1
    /\ decoder' = d

ProcessMessageStart == Process(MessageStart(decoder))
ProcessContentBlockStart ==
    \E index \in Indices, start \in Starts :
        Process(ContentBlockStart(decoder, index, start))
ProcessContentBlockDelta ==
    \E index \in Indices, delta \in Deltas :
        Process(ContentBlockDelta(decoder, index, delta))
ProcessContentBlockStop == \E index \in Indices : Process(ContentBlockStop(decoder, index))
ProcessMessageDelta == \E reason \in BOOLEAN : Process(MessageDelta(decoder, reason))
ProcessMessageStop == \E retainable \in BOOLEAN : Process(MessageStop(decoder, retainable))

\* An error event, and every malformed event.  A ping and an event of an
\* unknown type change nothing.
ProcessProviderError == Process(Fail(decoder))

\* An end of the body without message_stop.
Finish == Process(Fail(decoder))

Cancel ==
    /\ ~decoder.terminal
    /\ decoder' = Emit([decoder EXCEPT !.terminal = TRUE], Plain("Cancelled"))
    /\ UNCHANGED wired

Next ==
    \/ ProcessMessageStart
    \/ ProcessContentBlockStart
    \/ ProcessContentBlockDelta
    \/ ProcessContentBlockStop
    \/ ProcessMessageDelta
    \/ ProcessMessageStop
    \/ ProcessProviderError
    \/ Finish
    \/ Cancel

Spec == Init /\ [][Next]_vars

-----------------------------------------------------------------------------
(* Properties *)

Completed == decoder.terminal /\ Last(decoder.events).kind = "Completed"

\* The continuation of a message with tool calls repeats each call the
\* application was told of, once, under the identity and with the arguments
\* it was told: the outputs it sends back have a call to answer.
ContinuationHoldsTheCalls ==
    Completed =>
        LET kept == {k \in DOMAIN decoder.retained : decoder.retained[k].kind = "tool_use"}
            told == SelectSeq(decoder.events, LAMBDA e : e.kind = "ToolCompleted")
        IN /\ Cardinality(kept) = Len(told)
           /\ \A i \in DOMAIN told : \E k \in kept :
                 decoder.retained[k].tool = told[i].tool /\ decoder.retained[k].data = told[i].data

Count(kind, piece) ==
    LET text == Stream!Joined(Stream!About(decoder.events, kind, 0))
    IN Cardinality({i \in DOMAIN text : text[i] = piece})

\* No text the application was shown is missing from the completed blocks,
\* however the provider interleaves its blocks.
StreamedTextCompletes ==
    Completed => \A delta \in Deltas : \A i \in DOMAIN delta.data :
        delta.kind = "text_delta" =>
            Count("TextDelta", delta.data[i]) <= Count("TextCompleted", delta.data[i])

=============================================================================
