--------------------- MODULE OpenAICompatibleChatProtocol ---------------------
(***************************************************************************)
(* FUnrealAIOpenAICompatibleChatStreamDecoder in front of the Responses    *)
(* decoder, as FDecoder of the Responses provider composes them.  Chunks   *)
(* of a Chat Completions stream become canonical Responses events, which   *)
(* the bridge pushes into the Responses decoder until one fails there.     *)
(*                                                                         *)
(* A chunk of the wrong shape, an unsupported field, a wrong model and an  *)
(* exceeded byte or event budget are alike to the code; they are the       *)
(* action Malformed.  The chunks an instance sends are in Chunks.          *)
(***************************************************************************)
EXTENDS Integers, FiniteSets, SequencesExt

CONSTANTS Chunks,      \* bound: chunks of the wire
          Tools,       \* names of the request's tool map
          NullTools,   \* tools whose optional members are sent as null
          Objects,     \* argument texts that are JSON objects
          MaxTools,    \* MaxToolCalls of the Chat decoder
          MaxWire      \* bound: wire events of a stream

VARIABLES chat,      \* FImpl of the Chat decoder, and BridgeError
          decoder,   \* FImpl of the Responses decoder
          wired      \* wire events received

vars == <<chat, decoder, wired>>

Responses == INSTANCE OpenAIResponsesProtocol WITH
    ResponseIds <- {}, Texts <- {}, Deltas <- {}, PartKeys <- {<<0, 0>>},
    Indices <- 0 .. MaxTools - 1, ItemIds <- {}, FunctionItems <- {},
    MessageItems <- {}, Outputs <- {}, MaxParts <- 1, MaxItems <- MaxTools + 1,
    MaxCalls <- MaxTools

NoTool == [call |-> "", name |-> "", args |-> <<>>, added |-> FALSE]

Init ==
    /\ Responses!Init
    /\ chat = [id |-> "", text |-> <<>>, tools |-> [x \in {} |-> NoTool],
               finish |-> "none", usage |-> FALSE, terminal |-> FALSE,
               failed |-> FALSE, bridged |-> TRUE]

-----------------------------------------------------------------------------
(* A handler works on the pair of decoders and stops when the first fails. *)

Both == [chat |-> chat, decoder |-> decoder]

Then(s, Rest(_)) == IF s.chat.failed THEN s ELSE Rest(s)
Refuse(s) == [s EXCEPT !.chat.failed = TRUE]

\* FCanonicalChunkSink: one canonical event, unless an earlier one was refused.
Bridge(s, Handle(_)) ==
    IF ~s.chat.bridged THEN s
    ELSE LET d == IF s.decoder.terminal THEN s.decoder ELSE Handle(s.decoder)
         IN [s EXCEPT !.decoder = d, !.chat.bridged = ~d.failed]

ItemId(index) == <<"fc_chat_", index>>
ToolItem(index, tool, args) ==
    [type |-> "function_call", id |-> ItemId(index), call |-> tool.call,
     tool |-> tool.name, args |-> args]

EmitCreated(s) ==
    LET Handle(d) == Responses!Then(Responses!CaptureResponseId(d, s.chat.id),
                                    Responses!EmitStarted)
    IN Bridge(s, Handle)

EmitText(s, text) ==
    LET Handle(d) == Responses!TextDelta(d, <<0, 0>>, "msg_chat_0", text)
    IN Bridge(s, Handle)

\* Mutant: the announced item carries the arguments that follow it.
EmitToolWithArguments(s, index) ==
    LET tool == s.chat.tools[index]
        Handle(d) == Responses!ItemAdded(d, index, ToolItem(index, tool, tool.args))
    IN Bridge(s, Handle)

EmitToolAdded(s, index) ==
    LET Handle(d) == Responses!ItemAdded(d, index, ToolItem(index, s.chat.tools[index], <<>>))
    IN Bridge(s, Handle)

EmitToolArguments(s, index, args) ==
    LET Handle(d) == Responses!AppendToolArgumentsDelta(d, index, ItemId(index), args)
    IN Bridge(s, Handle)

EmitToolDone(s, index) ==
    LET tool == s.chat.tools[index]
        Arguments(d) == Responses!CompleteToolArguments(d, index, ItemId(index), tool.args)
        Item(d) == Responses!ItemDone(d, index, ToolItem(index, tool, tool.args))
    IN Bridge(Bridge(s, Arguments), Item)

-----------------------------------------------------------------------------
(* One chunk *)

CreateResponse(s, id) ==
    IF s.chat.id = "" THEN EmitCreated([s EXCEPT !.chat.id = id])
    ELSE IF s.chat.id = id THEN s ELSE Refuse(s)

ProcessContent(s, text) ==
    IF text = <<>> THEN s
    ELSE IF DOMAIN s.chat.tools # {} THEN Refuse(s)
    ELSE EmitText([s EXCEPT !.chat.text = @ \o text], text)

\* Identity given once is kept: an empty field is one the delta does not have.
Identity(old, new) == IF new = "" THEN old ELSE new
KeepsIdentity(old, new) == old = "" \/ new \in {"", old}

ProcessTool(s, delta) ==
    LET index == delta.index
        old == IF index \in DOMAIN s.chat.tools THEN s.chat.tools[index] ELSE NoTool
        tool == [call |-> Identity(old.call, delta.call),
                 name |-> Identity(old.name, delta.name),
                 args |-> old.args \o delta.args, added |-> TRUE]
        Named == [s EXCEPT !.chat.tools = (index :> tool) @@ @]
        Added(e) == IF old.added THEN e ELSE EmitToolAdded(e, index)
        Arguments(e) == IF delta.args = <<>> THEN e
                        ELSE EmitToolArguments(e, index, delta.args)
    IN IF s.chat.failed THEN s
       ELSE IF /\ index \in 0 .. MaxTools - 1
               /\ KeepsIdentity(old.call, delta.call)
               /\ KeepsIdentity(old.name, delta.name)
               /\ tool.call # "" /\ tool.name # ""
       THEN Arguments(Added(Named))
       ELSE Refuse(s)

ProcessTools(s, deltas) ==
    IF deltas # <<>> /\ s.chat.text # <<>> THEN Refuse(s)
    ELSE FoldLeft(ProcessTool, s, deltas)

\* A chunk has one choice or none; usage comes alone, last, after the finish.
ProcessChunk(s, chunk) ==
    LET Choice(e) ==
            IF ~chunk.choice THEN e
            ELSE IF e.chat.finish # "none" THEN Refuse(e)
            ELSE Then(Then(ProcessContent(e, chunk.text),
                           LAMBDA x : ProcessTools(x, chunk.tools)),
                      LAMBDA x : [x EXCEPT !.chat.finish = chunk.finish])
        Usage(e) ==
            IF chunk.usage
            THEN IF chunk.choice \/ e.chat.finish = "none" THEN Refuse(e)
                 ELSE [e EXCEPT !.chat.usage = TRUE]
            ELSE IF e.chat.finish # "none" /\ ~chunk.choice THEN Refuse(e) ELSE e
    IN IF s.chat.usage THEN Refuse(s)
       ELSE Then(Then(CreateResponse(s, chunk.id), Choice), Usage)

-----------------------------------------------------------------------------
(* The [DONE] marker *)

ToolIndices(c) == SetToSortSeq(DOMAIN c.tools, <)

ToolIsComplete(c, position) ==
    LET index == ToolIndices(c)[position]
    IN /\ index = position - 1
       /\ c.tools[index].added
       /\ c.tools[index].args # <<>>

FinishAgrees(c) ==
    \/ c.finish = "stop" /\ DOMAIN c.tools = {}
    \/ c.finish = "tool_calls" /\ DOMAIN c.tools # {}

Output(c) ==
    LET indices == ToolIndices(c)
    IN (IF c.text # <<>> \/ DOMAIN c.tools = {}
        THEN <<[type |-> "message", id |-> "", content |-> <<c.text>>]>>
        ELSE <<>>)
       \o [k \in DOMAIN indices |->
              ToolItem(indices[k], c.tools[indices[k]], c.tools[indices[k]].args)]

EmitCompleted(s) ==
    LET response == [id |-> s.chat.id, hasOutput |-> TRUE, allowEmpty |-> FALSE,
                     output |-> Output(s.chat), fault |-> "none"]
        Handle(d) == Responses!Complete(d, response)
    IN [Bridge(s, Handle) EXCEPT !.chat.terminal = TRUE]

EmitIncomplete(s) ==
    LET Handle(d) == Responses!Then(Responses!CaptureResponseId(d, s.chat.id),
                                    Responses!ProtocolFailure)
    IN [Bridge(s, Handle) EXCEPT !.chat.terminal = TRUE]

\* The calls before an incomplete one are done by the time it is noticed.
CompleteTool(s, position) ==
    IF s.chat.failed THEN s
    ELSE IF ToolIsComplete(s.chat, position)
    THEN EmitToolDone(s, ToolIndices(s.chat)[position])
    ELSE Refuse(s)

Complete(s) ==
    IF s.chat.finish = "none" \/ ~s.chat.usage \/ s.chat.id = "" THEN Refuse(s)
    ELSE IF s.chat.finish = "length" THEN EmitIncomplete(s)
    ELSE IF ~FinishAgrees(s.chat) THEN Refuse(s)
    ELSE Then(FoldLeft(CompleteTool, s, [p \in DOMAIN ToolIndices(s.chat) |-> p]),
              EmitCompleted)

-----------------------------------------------------------------------------
Live == ~chat.terminal /\ ~chat.failed /\ chat.bridged /\ ~decoder.terminal

Become(s) ==
    /\ wired < MaxWire
    /\ wired' = wired + 1
    /\ chat' = s.chat
    /\ decoder' = s.decoder

Chunk == Live /\ \E chunk \in Chunks : Become(ProcessChunk(Both, chunk))

Done == Live /\ Become(Complete(Both))

\* A refused push, or a Finish without the marker: the Responses decoder is
\* not told, and its owner ends the request.
Malformed == Live /\ Become(Refuse(Both))

\* Bytes after the marker.
Trailing == chat.terminal /\ ~chat.failed /\ Become(Refuse(Both))

\* FDecoder::Cancel reaches the Responses decoder alone.
Cancel == Responses!Cancel /\ UNCHANGED chat

Next == Chunk \/ Done \/ Malformed \/ Trailing \/ Cancel

Spec == Init /\ [][Next]_vars

-----------------------------------------------------------------------------
(* Properties *)

\* What the Responses decoder refuses and the Chat decoder does not: an answer
\* of nothing, an incomplete one, a tool nobody offered, a call identity used
\* twice, arguments that are no object, a call that begins after a later one.
Answers(c) ==
    /\ c.text # <<>> \/ DOMAIN c.tools # {}
    /\ c.finish # "length"
    /\ \A i \in DOMAIN c.tools :
          /\ c.tools[i].name \in Tools
          /\ c.terminal => c.tools[i].args \in Objects
          /\ \A j \in DOMAIN c.tools \ {i} : c.tools[j].call # c.tools[i].call
          /\ i \in DOMAIN decoder.calls \/ i > decoder.last

\* A Chat Completions stream that the Chat decoder accepts is not refused by
\* the Responses decoder behind it, though that one checks every identity,
\* text and argument again; and the application is told of the text and the
\* calls of the stream.
AcceptedStreamCompletes ==
    (chat.terminal \/ ~chat.bridged) /\ ~chat.failed /\ Answers(chat) =>
        LET Joined(kind, i) ==
                Responses!Stream!Joined(Responses!Stream!About(decoder.events, kind, i))
        IN /\ chat.terminal
           /\ Last(decoder.events).kind = "Completed"
           /\ Joined("TextCompleted", 0) = chat.text
           /\ \A i \in DOMAIN chat.tools :
                 Joined("ToolCompleted", i) =
                    Responses!Normalized(chat.tools[i].name, chat.tools[i].args)

=============================================================================
