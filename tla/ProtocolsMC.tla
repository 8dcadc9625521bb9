------------------------------ MODULE ProtocolsMC ------------------------------
(***************************************************************************)
(* The stream decoders of the provider protocols, one per behaviour: which *)
(* names the protocol that interprets decoder and wired.                   *)
(***************************************************************************)
EXTENDS Naturals, Sequences

CONSTANTS MaxWire    \* bound: wire events of a stream

VARIABLES which, decoder, wired, chat

vars == <<which, decoder, wired, chat>>

Stream == INSTANCE ModelEventStream WITH events <- decoder.events

-----------------------------------------------------------------------------
(* OpenAI Responses: two calls, one of a tool with optional members, and a *)
(* message of one or two parts.                                            *)

Call(id, call, tool, args) ==
    [type |-> "function_call", id |-> id, call |-> call, tool |-> tool, args |-> args]
FirstCall == Call("i1", "c1", "t", <<"x", "y">>)
NullCall == Call("i2", "c2", "n", <<"x", "null">>)
Message(id, content) == [type |-> "message", id |-> id, content |-> content]

OneWord == Message("i1", <<<<"a">>>>)
TwoWords == Message("i1", <<<<"a">>, <<"b">>>>)
Other == [type |-> "other"]

OpenAI == INSTANCE OpenAIResponsesProtocol WITH
    ResponseIds <- {"r1"},
    Texts <- {<<"a">>, <<"a", "b">>},
    Deltas <- {<<"a">>, <<"b">>},
    PartKeys <- {<<0, 0>>, <<0, 1>>},
    Indices <- {0, 1},
    ItemIds <- {"i1", "i2"},
    Tools <- {"t", "n"},
    NullTools <- {"n"},
    FunctionItems <- {Call("i1", "c1", "t", <<>>), FirstCall, NullCall,
                      Call("i2", "c1", "u", <<"x">>)},
    MessageItems <- {OneWord, TwoWords},
    Outputs <- {<<>>, <<OneWord>>, <<TwoWords>>, <<FirstCall>>, <<NullCall>>,
                <<FirstCall, NullCall>>, <<OneWord, NullCall>>, <<FirstCall, Other>>},
    Objects <- {<<"x", "y">>, <<"x", "null">>},
    MaxParts <- 2, MaxItems <- 2, MaxCalls <- 2

-----------------------------------------------------------------------------
(* Chat Completions: text or two calls, whole or in pieces, in either      *)
(* order, then the finish reason and the usage.                            *)

Chunk(text, tools, finish) ==
    [id |-> "r1", choice |-> TRUE, text |-> text, tools |-> tools,
     finish |-> finish, usage |-> FALSE]
Delta(index, call, name, args) ==
    [index |-> index, call |-> call, name |-> name, args |-> args]

Chat == INSTANCE OpenAICompatibleChatProtocol WITH
    Chunks <- {Chunk(<<"a">>, <<>>, "none"), Chunk(<<"b">>, <<>>, "stop"),
               Chunk(<<>>, <<Delta(0, "c1", "t", <<"x">>)>>, "none"),
               Chunk(<<>>, <<Delta(0, "", "", <<"y">>)>>, "none"),
               Chunk(<<>>, <<Delta(0, "c1", "t", <<"x", "y">>),
                             Delta(1, "c2", "n", <<"x", "null">>)>>, "tool_calls"),
               Chunk(<<>>, <<Delta(1, "c2", "n", <<"x", "null">>)>>, "none"),
               Chunk(<<>>, <<Delta(1, "c1", "u", <<"x">>)>>, "none"),
               Chunk(<<>>, <<>>, "stop"), Chunk(<<>>, <<>>, "tool_calls"),
               Chunk(<<>>, <<>>, "length"),
               [Chunk(<<>>, <<>>, "none") EXCEPT !.choice = FALSE],
               [Chunk(<<>>, <<>>, "none") EXCEPT !.choice = FALSE, !.usage = TRUE],
               [Chunk(<<"a">>, <<>>, "none") EXCEPT !.id = "r2"]},
    Tools <- {"t", "n"},
    NullTools <- {"n"},
    Objects <- {<<"x", "y">>, <<"x", "null">>},
    MaxTools <- 2, MaxWire <- MaxWire + 2

NoChat == chat = 0

-----------------------------------------------------------------------------
(* Anthropic Messages: a text block, a call of either kind, thinking, and  *)
(* blocks that overlap.  A call starts without input or with an object.    *)

Block(kind, call, name, data) == [kind |-> kind, call |-> call, name |-> name, data |-> data]
Piece(kind, data) == [kind |-> kind, data |-> data]

Anthropic == INSTANCE AnthropicMessagesProtocol WITH
    Indices <- {0, 1},
    Starts <- {Block("text", "", "", <<>>), Block("text", "", "", <<"a">>),
               Block("tool_use", "c1", "t", <<>>), Block("tool_use", "c2", "t", <<"o">>),
               Block("tool_use", "c1", "u", <<>>), Block("unknown", "", "", <<>>)},
    Deltas <- {Piece("text_delta", <<"a">>), Piece("input_json_delta", <<"x">>),
               Piece("other", <<>>)},
    ToolNames <- {"t"},
    Objects <- {<<"x">>, <<"o">>},
    MaxBlocks <- 2, MaxWire <- MaxWire + 3

-----------------------------------------------------------------------------
(* Gemini Interactions: a thought, an output, a call and a step nobody     *)
(* knows.                                                                  *)

Gemini == INSTANCE GeminiInteractionsProtocol WITH
    Indices <- {0, 1},
    Starts <- {Block("model_output", "", "", <<>>), Block("model_output", "", "", <<"a">>),
               Block("thought", "", "", <<>>), Block("function_call", "c1", "t", <<>>),
               Block("function_call", "c1", "t", <<"o">>),
               Block("function_call", "c2", "u", <<>>), Block("unknown", "", "", <<>>)},
    Deltas <- {Piece("text", <<"b">>), Piece("arguments_delta", <<"x">>),
               Piece("arguments_delta", <<"y">>), Piece("thought_signature", <<"s">>),
               Piece("thought_summary", <<>>), Piece("other", <<>>)},
    ToolNames <- {"t"},
    Objects <- {<<"x", "y">>, <<"o">>},
    MaxSteps <- 2, MaxWire <- MaxWire + 2

-----------------------------------------------------------------------------
Init ==
    \/ which = "OpenAI" /\ OpenAI!Init /\ NoChat
    \/ which = "Chat" /\ Chat!Init
    \/ which = "Anthropic" /\ Anthropic!Init /\ NoChat
    \/ which = "Gemini" /\ Gemini!Init /\ NoChat

Next ==
    /\ UNCHANGED which
    /\ \/ which = "OpenAI" /\ OpenAI!Next /\ UNCHANGED chat
       \/ which = "Chat" /\ Chat!Next
       \/ which = "Anthropic" /\ Anthropic!Next /\ UNCHANGED chat
       \/ which = "Gemini" /\ Gemini!Next /\ UNCHANGED chat

Spec == Init /\ [][Next]_vars

-----------------------------------------------------------------------------
(* Properties *)

\* Whatever a provider sends, in whatever order, the events of its decoder are
\* those of one model event stream: one terminal, last; tool calls numbered,
\* opened and closed in order; arguments whole.
RefinesStream == Stream!Spec

CompletedTextWasStreamed == which = "OpenAI" => OpenAI!CompletedTextWasStreamed
ContinuationHoldsTheCalls == which = "OpenAI" => OpenAI!ContinuationHoldsTheCalls
AcceptedStreamCompletes == which = "Chat" => Chat!AcceptedStreamCompletes
AnthropicContinuation == which = "Anthropic" => Anthropic!ContinuationHoldsTheCalls
AnthropicText == which = "Anthropic" => Anthropic!StreamedTextCompletes
GeminiContinuation == which = "Gemini" => Gemini!ContinuationHoldsTheSteps

=============================================================================
