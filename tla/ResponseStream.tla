--------------------------- MODULE ResponseStream ---------------------------
(***************************************************************************)
(* The Response API's adapter: what BuildRequest puts on the wire, how the  *)
(* frames of four provider dialects become one list of output items and one *)
(* list of events, and how a completed response becomes the history of the  *)
(* next request (UnrealAIResponseRequest.cpp, UnrealAIResponseStream.cpp,   *)
(* UnrealAIResponseParser.cpp, UnrealAIResponseLibrary.cpp).                *)
(*                                                                          *)
(* A text is a sequence of letters: "w" is white space, "x" a complete JSON *)
(* object and "e" the empty object {}.  A wire block is [kind, parts, args, *)
(* call]: its text parts, a tool call's arguments and its id.  An item of   *)
(* the output is the same without the wire's kind and with `complete`.      *)
(***************************************************************************)
EXTENDS Naturals, Sequences, FiniteSets, SequencesExt

CONSTANTS Dialects,      \* a subset of native, anthropic, chat, gemini
          Texts,         \* the texts a delta or a block may carry
          CallIds,       \* the call ids a provider may use
          Stores,        \* the values of bStore a request may ask for
          MaxItems,      \* bound: the items of one response
          MaxArguments,  \* MaxToolArgumentBytes, in letters
          MaxFrames,     \* bound: the frames of one conversation, per dialect
          MaxTurns       \* bound: the requests of one conversation

VARIABLES phase,    \* idle, streaming, done or failed
          context,  \* FUnrealAIResponseContext
          state,    \* FUnrealAIResponseState
          heard,    \* what the caller's event delegate was told, per item
          frames,   \* frames parsed (bounds the model)
          turn      \* requests made in this conversation

vars == <<phase, context, state, heard, frames, turn>>

Sides == {"text", "refusal"}
Block(kind, parts, args, call) ==
  [kind |-> kind, parts |-> parts, args |-> args, call |-> call]
Part(type, text) == [type |-> type, text |-> text]
EmptyBlock == Block("none", <<>>, <<>>, "")
Tool(call, args) == Block("tool", <<>>, args, call)
Padded(seq, length, filler) ==
  [i \in 1..(IF length > Len(seq) THEN length ELSE Len(seq)) |->
     IF i \in DOMAIN seq THEN seq[i] ELSE filler]

Objects(args) == SelectSeq(args, LAMBDA c : c \in {"x", "e"})
\* Parse succeeds on one object, with white space around it; Serialize writes
\* it without.
Parses(args) == Len(Objects(args)) = 1
Serialize(args) == Objects(args)

-----------------------------------------------------------------------------
(* Normalize and Refresh *)

Native == context.api = "native"
Anthropic == context.api = "anthropic"
Gemini == context.api = "gemini"
Chat == context.api = "chat"

AddItem(block, complete) ==
  [type |-> CASE block.kind = "tool" -> "tool"
              [] block.kind \in {"data", "none"} -> "data"
              [] OTHER -> "message",
   parts |-> CASE block.kind = "tool" -> <<>>
               [] block.kind \in {"data", "none"} -> <<Part("data", <<>>)>>
               [] OTHER -> block.parts,
   args |-> IF Anthropic /\ block.kind = "tool" THEN Serialize(block.args)
            ELSE block.args,
   call |-> block.call,
   complete |-> complete]

\* Gemini reports a refusal as a reason; the adapter makes it an item.
Refusals(s) ==
  IF Gemini /\ (s.blocked \/ s.reason = "SAFETY")
  THEN <<Block("message", <<Part("refusal", <<"x">>)>>, <<>>, "")>> ELSE <<>>

\* A running Anthropic tool call shows the arguments buffered so far.
Buffered(s, items, final) ==
  [i \in DOMAIN items |->
     IF Anthropic /\ ~final /\ i \in DOMAIN s.buffers /\ i \notin s.finished
     THEN [items[i] EXCEPT !.args = s.buffers[i]] ELSE items[i]]

ToolItems(items) == {i \in DOMAIN items : items[i].type = "tool"}
\* The checks of a final response: its shape, and every tool call usable.
InvalidCall(items) ==
  \E i \in ToolItems(items) :
    \/ items[i].call = ""
    \/ ~Parses(items[i].args)
    \/ Len(items[i].args) > MaxArguments
    \/ \E j \in ToolItems(items) : j # i /\ items[j].call = items[i].call
Shapeless(s) ==
  CASE Native -> FALSE
    [] Anthropic -> s.reason = ""
    [] Gemini -> s.reason = "" /\ ~s.blocked
    [] Chat -> s.blocks = <<>> \/ s.reason = ""

StatusOf(s, final) ==
  CASE s.reason \in {"incomplete", "length"} -> "incomplete"
    [] Native /\ s.reason = "cancelled" -> "cancelled"
    [] Native /\ (s.reason = "failed" \/ (final /\ s.reason # "completed")) -> "failed"
    [] OTHER -> "completed"

Normalize(s, final) ==
  LET blocks == s.blocks \o Refusals(s)
      items == Buffered(s, [i \in DOMAIN blocks |-> AddItem(blocks[i], final)], final)
      status == StatusOf(s, final)
      invalid == /\ final /\ status = "completed"
                 /\ Shapeless(s) \/ InvalidCall(items)
  IN  [s EXCEPT !.output = items,
                !.status = IF invalid THEN "failed" ELSE status,
                !.error = s.error \/ status = "failed" \/ invalid]

\* Mutant: the texts a snapshot replaces are not compared.
ContradictsInLength(before, items) ==
  \/ Len(before) > Len(items)
  \/ \E i \in DOMAIN before : Len(before[i].parts) > Len(items[i].parts)

\* Before is a prefix of the items: nothing the caller was shown is taken back.
Contradicts(before, items) ==
  \/ Len(before) > Len(items)
  \/ \E i \in DOMAIN before :
       \/ Len(before[i].parts) > Len(items[i].parts)
       \/ \E p \in DOMAIN before[i].parts :
            ~IsPrefix(before[i].parts[p].text, items[i].parts[p].text)
       \/ items[i].type = "tool" /\ ~IsPrefix(before[i].args, items[i].args)

\* Text and Arguments are deltas of the provider's, MoreText and MoreArguments
\* what a snapshot has more than the deltas before it.
Event(type, index, part, text) ==
  [type |-> type, index |-> index, part |-> part, text |-> text]
Suffix(text, prefix) == SubSeq(text, Len(prefix) + 1, Len(text))
Said(event) == IF event.text = <<>> THEN <<>> ELSE <<event>>

PartEvents(old, item, i) ==
  FlattenSeq([p \in DOMAIN item.parts |->
    LET known == p \in DOMAIN old.parts
        prefix == IF known THEN old.parts[p].text ELSE <<>>
    IN  (IF known THEN <<>> ELSE <<Event("PartAdded", i, p, <<>>)>>)
        \o Said(Event("MoreText", i, p, Suffix(item.parts[p].text, prefix)))])

NoItem == [type |-> "", parts |-> <<>>, args |-> <<>>, call |-> "", complete |-> FALSE]
ItemEvents(before, items, i) ==
  LET old == IF i \in DOMAIN before THEN before[i] ELSE NoItem
  IN  (IF i \in DOMAIN before THEN <<>> ELSE <<Event("ItemAdded", i, 0, <<>>)>>)
      \o PartEvents(old, items[i], i)
      \o (IF items[i].type = "tool"
          THEN Said(Event("MoreArguments", i, 0, Suffix(items[i].args, old.args)))
          ELSE <<>>)
      \o (IF items[i].complete /\ ~old.complete
          THEN <<Event("ItemCompleted", i, 0, <<>>)>> ELSE <<>>)

\* What parsing (a part of) a frame yields.
Outcome(ok, s, events) == [ok |-> ok, state |-> s, events |-> events]
Failed(s) == Outcome(FALSE, s, <<>>)

Refresh(s, final) ==
  LET n == Normalize(s, final)
      items == [i \in DOMAIN n.output |->
                 [n.output[i] EXCEPT !.complete = final \/ i \in s.finished]]
      events == FlattenSeq([i \in DOMAIN items |-> ItemEvents(s.output, items, i)])
  IN  IF \/ Contradicts(s.output, items)
         \/ \E i \in ToolItems(items) : Len(items[i].args) > MaxArguments
      THEN Failed([n EXCEPT !.output = s.output])
      ELSE Outcome(~n.error, [n EXCEPT !.output = items], events)

\* Mutant: a delta is taken for a completed item.
AnyOpen(s, i) == i \in DOMAIN s.output

IsOpen(s, i) == i \in DOMAIN s.output /\ ~s.output[i].complete

Delta(s, i, p, text, side) ==
  LET item == s.output[i]
      parts == Padded(item.parts, p, Part("text", <<>>))
      said == [parts EXCEPT ![p] = Part(side, @.text \o text)]
      added == [k \in 1..(Len(parts) - Len(item.parts)) |->
                 Event("PartAdded", i, Len(item.parts) + k, <<>>)]
  IN  IF ~IsOpen(s, i) THEN Failed(s)
      ELSE Outcome(TRUE, [s EXCEPT !.output[i].parts = said],
                   added \o Said(Event("Text", i, p, text)))

ArgumentsDelta(s, i, text) ==
  IF \/ ~IsOpen(s, i)
     \/ s.output[i].type # "tool"
     \/ Len(s.output[i].args) + Len(text) > MaxArguments
  THEN Failed(s)
  ELSE Outcome(TRUE, [s EXCEPT !.output[i].args = @ \o text],
               Said(Event("Arguments", i, 0, text)))

\* The second step of a frame, with the events of the first before its own.
Then(first, Second(_)) ==
  IF ~first.ok THEN first
  ELSE LET second == Second(first.state)
       IN  [second EXCEPT !.events = first.events \o @]

-----------------------------------------------------------------------------
(* One frame of each dialect *)

Silent(s) == Outcome(TRUE, s, <<>>)

\* response.created and response.in_progress copy the response's fields.
NativeCreated(s) == Silent([s EXCEPT !.blocks = <<>>, !.reason = "in_progress"])
\* response.output_item.added and .done
NativeItem(s, i, block, done) ==
  Refresh([s EXCEPT !.blocks = [Padded(@, i, EmptyBlock) EXCEPT ![i] = block],
                    !.finished = IF done THEN @ \union {i} ELSE @], FALSE)
NativeText(s, i, p, text, side) ==
  IF i \notin DOMAIN s.blocks THEN Failed(s)
  ELSE LET Keep(t) ==
             LET parts == Padded(t.blocks[i].parts, p, Part("data", <<>>))
             IN  Silent([t EXCEPT !.blocks[i].parts =
                           [parts EXCEPT ![p] = Part(side, t.output[i].parts[p].text)]])
       IN  Then(Delta(s, i, p, text, side), Keep)
NativeArguments(s, i, text) ==
  IF i \notin DOMAIN s.blocks THEN Failed(s)
  ELSE LET Keep(t) == Silent([t EXCEPT !.blocks[i].args = t.output[i].args])
       IN  Then(ArgumentsDelta(s, i, text), Keep)
\* response.content_part.added and .done
NativePart(s, i, p, part) ==
  IF i \notin DOMAIN s.blocks THEN Failed(s)
  ELSE Refresh([s EXCEPT !.blocks[i].parts =
                  [Padded(@, p, Part("data", <<>>)) EXCEPT ![p] = part]], FALSE)
\* response.completed, .incomplete, .failed and .cancelled carry the snapshot.
NativeTerminal(s, reason, blocks) ==
  Refresh([s EXCEPT !.blocks = blocks, !.reason = reason, !.terminal = TRUE], TRUE)

BlockStart(s, i, block) ==
  LET tool == block.kind = "tool"
      started == [s EXCEPT !.blocks = [Padded(@, i, EmptyBlock) EXCEPT ![i] = block],
                           !.buffers = IF tool
                             THEN [k \in DOMAIN @ \union {i} |->
                                     IF k = i THEN <<>> ELSE @[k]]
                             ELSE @]
      Reset(t) == Silent(IF tool THEN [t EXCEPT !.output[i].args = <<>>] ELSE t)
  IN  Then(Refresh(started, FALSE), Reset)
BlockText(s, i, text) ==
  IF i \notin DOMAIN s.blocks THEN Failed(s)
  ELSE LET Keep(t) == Silent([t EXCEPT !.blocks[i].parts = t.output[i].parts])
       IN  Then(Delta(s, i, 1, text, "text"), Keep)
BlockJson(s, i, text) ==
  IF i \notin DOMAIN s.blocks THEN Failed(s)
  ELSE LET Keep(t) == Silent([t EXCEPT !.buffers =
                        [k \in DOMAIN @ \union {i} |->
                           IF k = i THEN t.output[i].args ELSE @[k]]])
       IN  Then(ArgumentsDelta(s, i, text), Keep)
BlockStop(s, i) ==
  IF i \notin DOMAIN s.blocks THEN Failed(s)
  ELSE IF i \notin DOMAIN s.buffers
  THEN Refresh([s EXCEPT !.finished = @ \union {i}], FALSE)
  ELSE LET input == IF s.buffers[i] = <<>> THEN <<"e">> ELSE s.buffers[i]
       IN  IF ~Parses(input) THEN Failed(s)
           ELSE Refresh([s EXCEPT !.blocks[i].args = Serialize(input),
                                  !.output[i].args = Serialize(input),
                                  !.finished = @ \union {i}], FALSE)
MessageDelta(s, reason) == Silent([s EXCEPT !.reason = reason])
MessageStop(s) == Refresh([s EXCEPT !.terminal = TRUE], TRUE)

\* The first chunk makes the message, with an empty content part.
ChatOpened(s) ==
  IF s.blocks # <<>> THEN Silent(s)
  ELSE Refresh([s EXCEPT !.blocks =
                  <<Block("message", <<Part("text", <<>>)>>, <<>>, "")>>], FALSE)
ChatSaid(s, p, text, side) ==
  LET Keep(t) == Silent([t EXCEPT !.blocks[1].parts =
                    [Padded(@, p, Part(side, <<>>)) EXCEPT
                       ![p] = Part(side, t.output[1].parts[p].text)]])
  IN  Then(Delta(s, 1, p, text, side), Keep)
ChatCall(s, i, call, text) ==
  LET named == [s EXCEPT !.blocks = [Padded(@, i + 1, Tool("", <<>>)) EXCEPT
                                       ![i + 1].call = IF call = "" THEN @ ELSE call]]
      shown == IF i + 1 \in DOMAIN s.output THEN Silent(named) ELSE Refresh(named, FALSE)
      Argue(t) == ArgumentsDelta([t EXCEPT !.output[i + 1].call = t.blocks[i + 1].call],
                                 i + 1, text)
      Keep(t) == Silent([t EXCEPT !.blocks[i + 1].args = t.output[i + 1].args])
  IN  Then(Then(shown, Argue), Keep)
ChatFinish(s, reason) ==
  IF reason = "" THEN Silent(s)
  ELSE Refresh([s EXCEPT !.reason = reason, !.terminal = TRUE], TRUE)
ChatDone(s) == Refresh([s EXCEPT !.terminal = TRUE], TRUE)

\* A Gemini part is an item of its own: added, told and completed at once.
GeminiPart(s, block) ==
  LET i == Len(s.output) + 1
      item == AddItem(block, TRUE)
  IN  IF Len(item.args) > MaxArguments THEN Failed(s)
      ELSE Outcome(TRUE,
             [s EXCEPT !.blocks = Append(@, block), !.output = Append(@, item),
                       !.finished = @ \union {i}],
             ItemEvents(s.output, Append(s.output, item), i))
GeminiEnd(s, reason) ==
  Silent([s EXCEPT !.reason = IF reason = "" THEN @ ELSE reason,
                   !.terminal = @ \/ reason # ""])
\* A frame without candidates: the prompt was blocked.
GeminiBlocked(s) == Silent([s EXCEPT !.blocked = TRUE])

-----------------------------------------------------------------------------
(* What the caller hears *)

Nothing == [added |-> 0, completed |-> 0, texts |-> <<>>, args |-> <<>>]
Quiet == [items |-> [i \in 1..MaxItems |-> Nothing], orderly |-> TRUE, late |-> FALSE]

Hear(h, e) ==
  LET i == e.index
      item == h.items[i]
      inOrder ==
        CASE e.type = "ItemAdded" ->
               item.added = 0 /\ (i = 1 \/ h.items[i - 1].added = 1)
          [] e.type = "PartAdded" -> item.added = 1 /\ e.part = Len(item.texts) + 1
          [] e.type = "Text" -> item.completed = 0 /\ e.part \in DOMAIN item.texts
          [] e.type = "Arguments" -> item.added = 1 /\ item.completed = 0
          [] e.type = "MoreText" -> item.added = 1 /\ e.part \in DOMAIN item.texts
          [] e.type = "MoreArguments" -> item.added = 1
          [] OTHER -> item.added = 1 /\ item.completed = 0
      next ==
        CASE e.type = "ItemAdded" -> [item EXCEPT !.added = @ + 1]
          [] e.type = "PartAdded" -> [item EXCEPT !.texts = Append(@, <<>>)]
          [] e.type \in {"Text", "MoreText"} -> [item EXCEPT !.texts =
                                   [p \in DOMAIN @ |->
                                      IF p = e.part THEN @[p] \o e.text ELSE @[p]]]
          [] e.type \in {"Arguments", "MoreArguments"} -> [item EXCEPT !.args = @ \o e.text]
          [] OTHER -> [item EXCEPT !.completed = @ + 1]
  IN  [h EXCEPT !.items[i] = next, !.orderly = @ /\ inOrder]

NewState == [blocks |-> <<>>, reason |-> "", output |-> <<>>, buffers |-> <<>>,
             finished |-> {}, blocked |-> FALSE, terminal |-> FALSE, status |-> "", error |-> FALSE]

\* The caller (ProcessSseEvent) delivers a frame's events only when the whole
\* frame was parsed, and ends the request when it was not.
ParseStreamEvent(outcome) ==
  /\ phase = "streaming" /\ frames < MaxFrames[context.api]
  /\ frames' = frames + 1
  /\ state' = outcome.state
  /\ IF outcome.ok
     THEN /\ heard' = [FoldLeft(Hear, heard, outcome.events) EXCEPT
                         !.late = @ \/ state.terminal]
          /\ phase' = phase
     ELSE /\ phase' = "failed"
          /\ heard' = heard
  /\ UNCHANGED <<context, turn>>

Indices == 1..MaxItems

\* Assumption: no provider replaces an output item by one of another kind, nor
\* goes back to a lifecycle frame after the first item.
KeepsKind(i, kind) == i \in DOMAIN state.output => state.output[i].type \in {"data", kind}

NativeFrame ==
  /\ Native
  /\ \/ state.output = <<>> /\ ParseStreamEvent(NativeCreated(state))
     \/ \E i \in Indices, done \in BOOLEAN :
          \/ \E text \in Texts \union {<<>>} :
               KeepsKind(i, "message") /\ ParseStreamEvent(NativeItem(state, i,
                 Block("message", IF text = <<>> THEN <<>> ELSE <<Part("text", text)>>,
                       <<>>, ""), done))
          \/ \E call \in CallIds, text \in Texts \union {<<>>} :
               KeepsKind(i, "tool") /\ ParseStreamEvent(NativeItem(state, i, Tool(call, text), done))
     \/ \E i \in Indices, text \in Texts :
          \/ \E p \in {1, 2}, side \in Sides :
               ParseStreamEvent(NativeText(state, i, p, text, side))
          \/ ParseStreamEvent(NativeArguments(state, i, text))
          \/ ParseStreamEvent(NativePart(state, i, 1, Part("text", text)))
     \/ \E reason \in {"completed", "incomplete", "failed", "cancelled"},
           drop \in BOOLEAN :
          ParseStreamEvent(NativeTerminal(state, reason,
            IF drop THEN <<>> ELSE state.blocks))

AnthropicFrame ==
  /\ Anthropic
  /\ \/ \E i \in Indices :
          \/ /\ KeepsKind(i, "none")  \* a block starts once
             /\ \/ ParseStreamEvent(BlockStart(state, i,
                     Block("text", <<Part("text", <<>>)>>, <<>>, "")))
                \/ \E call \in CallIds :
                     ParseStreamEvent(BlockStart(state, i, Tool(call, <<"e">>)))
          \/ \E text \in Texts : ParseStreamEvent(BlockText(state, i, text))
          \/ \E text \in Texts : ParseStreamEvent(BlockJson(state, i, text))
          \/ ParseStreamEvent(BlockStop(state, i))
     \/ \E reason \in {"end", "length"} : ParseStreamEvent(MessageDelta(state, reason))
     \/ ParseStreamEvent(MessageStop(state))

ChatFrame ==
  /\ Chat
  /\ \/ \E text \in Texts, reason \in {"", "stop", "length"}, side \in Sides :
          LET Say(s) == ChatSaid(s, IF side = "text" THEN 1 ELSE 2, text, side)
              Finish(s) == ChatFinish(s, reason)
          IN  ParseStreamEvent(Then(Then(ChatOpened(state), Say), Finish))
     \/ \E i \in 1..(MaxItems - 1), call \in CallIds \union {""},
           text \in Texts, reason \in {"", "stop"} :
          LET Call(s) == ChatCall(s, i, call, text)
              Finish(s) == ChatFinish(s, reason)
          IN  ParseStreamEvent(Then(Then(ChatOpened(state), Call), Finish))
     \/ ParseStreamEvent(ChatDone(state))

GeminiFrame ==
  /\ Gemini
  /\ \/ \E reason \in {"", "STOP", "SAFETY", "length"} :
          LET End(s) == GeminiEnd(s, reason)
          IN  \/ /\ Len(state.output) < MaxItems - 1
                 /\ \/ \E text \in Texts : ParseStreamEvent(Then(GeminiPart(state,
                         Block("message", <<Part("text", text)>>, <<>>, "")), End))
                    \/ \E call \in CallIds :
                         ParseStreamEvent(Then(GeminiPart(state, Tool(call, <<"x">>)), End))
              \/ reason # "" /\ ParseStreamEvent(GeminiEnd(state, reason))
     \/ ParseStreamEvent(GeminiBlocked(state))

-----------------------------------------------------------------------------
(* The end of a stream, and the next request *)

CanCompleteStream == state.terminal \/ (Gemini /\ state.blocked)

Entry(role, calls, results) == [role |-> role, calls |-> calls, results |-> results]
CallsOf(blocks) == {blocks[i].call : i \in {k \in DOMAIN blocks : blocks[k].kind = "tool"}}

\* The history of the next request: this one's input and the model's message.
BuildContinuation(s) ==
  IF s.status # "completed" \/ context.store THEN <<>>
  ELSE context.input
       \o (IF Native
           THEN [i \in DOMAIN s.blocks |-> Entry("assistant", CallsOf(<<s.blocks[i]>>), <<>>)]
           ELSE IF ~Anthropic /\ s.blocks = <<>> THEN <<>>
           ELSE <<Entry("assistant", CallsOf(s.blocks), <<>>)>>)

EndOfStream ==
  /\ phase = "streaming"
  /\ state' = IF CanCompleteStream THEN Normalize(state, TRUE) ELSE state
  /\ context' = [context EXCEPT !.history =
       IF CanCompleteStream THEN BuildContinuation(Normalize(state, TRUE)) ELSE <<>>]
  /\ phase' = IF CanCompleteStream THEN "done" ELSE "failed"
  /\ UNCHANGED <<heard, frames, turn>>

\* Anthropic and Gemini want the results of parallel calls in one message.
AddInput(input, item) ==
  LET last == input[Len(input)]
  IN  IF item = "message" THEN Append(input, Entry("user", {}, <<>>))
      ELSE IF (Anthropic \/ Gemini) /\ input # <<>> /\ last.role = "user" /\ last.results # <<>>
      THEN [input EXCEPT ![Len(input)].results = Append(@, item)]
      ELSE Append(input, Entry(IF Chat THEN "tool" ELSE "user", {}, <<item>>))

BuildRequest(history, items) == FoldLeft(AddInput, history, items)

Begin(input) ==
  /\ turn < MaxTurns
  /\ turn' = turn + 1
  /\ phase' = "streaming"
  /\ state' = NewState
  /\ heard' = Quiet
  /\ frames' = frames
  /\ context' = [context EXCEPT !.input = input, !.history = <<>>]

StreamResponse == phase = "idle" /\ Begin(BuildRequest(<<>>, <<"message">>))

Usable == {i \in DOMAIN state.output : /\ state.output[i].type = "tool"
                                       /\ state.output[i].complete
                                       /\ state.output[i].call # ""
                                       /\ Parses(state.output[i].args)}
\* The calls a caller must answer before it continues.
GetResponseToolCalls ==
  IF state.status # "completed" \/ state.error THEN {}
  ELSE {state.output[i].call : i \in Usable}

\* BuildContinuationRequest: every pending call answered once, results first.
Results(items) == SelectSeq(items, LAMBDA item : item # "message")
Messages(items) == SelectSeq(items, LAMBDA item : item = "message")
\* Mutant: some pending calls may stay unanswered.
ContinuesPartly(items) ==
  /\ state.status = "completed" /\ ~state.error
  /\ items # <<>>
  /\ ToSet(Results(items)) \subseteq GetResponseToolCalls
  /\ \A i, j \in DOMAIN Results(items) : Results(items)[i] = Results(items)[j] => i = j
  /\ context.store \/ context.history # <<>>

Continues(items) ==
  /\ state.status = "completed" /\ ~state.error
  /\ items # <<>>
  /\ ToSet(Results(items)) \subseteq GetResponseToolCalls
  /\ \A i, j \in DOMAIN Results(items) : Results(items)[i] = Results(items)[j] => i = j
  /\ Cardinality(ToSet(Results(items))) = Cardinality(GetResponseToolCalls)
  /\ context.store \/ context.history # <<>>
BuildContinuationRequest(items) ==
  /\ phase = "done"
  /\ Continues(items)
  /\ Begin(BuildRequest(context.history, Results(items) \o Messages(items)))

NewInputs == UNION {[1..n -> CallIds \union {"message"}] : n \in 1..3}

Init ==
  /\ phase = "idle"
  /\ context \in [api : Dialects, store : Stores, input : {<<>>}, history : {<<>>}]
  /\ context.store => Native
  /\ state = NewState
  /\ heard = Quiet
  /\ frames = 0 /\ turn = 0

Next ==
  \/ StreamResponse
  \/ NativeFrame \/ AnthropicFrame \/ ChatFrame \/ GeminiFrame
  \/ EndOfStream
  \/ \E items \in NewInputs : BuildContinuationRequest(items)

Spec == Init /\ [][Next]_vars
-----------------------------------------------------------------------------
Listening == phase = "streaming" \/ (phase = "done" /\ ~heard.late)
Argued(i) == IF Anthropic /\ state.output[i].complete /\ heard.items[i].args # <<>>
             THEN Serialize(heard.items[i].args) ELSE heard.items[i].args

(***************************************************************************)
(* A caller that concatenates what it hears has the response: for every    *)
(* item it was told of, the deltas spell the texts and the arguments of    *)
(* the output, in each dialect and whatever mixture of deltas, item        *)
(* snapshots and final snapshots the provider sent; an item it was not     *)
(* told of is the refusal Gemini's finish reason stands for.  (The end of  *)
(* a stream with frames after its terminal one is read anew, see README.)  *)
(***************************************************************************)
DeltasSpellTheOutput ==
  Listening => \A i \in DOMAIN state.output :
    \/ /\ heard.items[i].added = 1
       /\ heard.items[i].texts = [p \in DOMAIN state.output[i].parts |->
                                    state.output[i].parts[p].text]
       /\ \/ Argued(i) = state.output[i].args
          \/ Anthropic /\ Argued(i) = <<>> /\ state.output[i].args = <<"e">>
    \/ /\ Gemini /\ phase = "done"
       /\ i = Len(state.output) /\ Refusals(state) # <<>>

(***************************************************************************)
(* Events come in the order a caller can follow: an item is added once and *)
(* after the one before it, parts before their text, no delta is taken for *)
(* a completed item, and it completes once - unless the provider sent more *)
(* frames after its terminal one, which reopens items.  (A snapshot may    *)
(* still extend a completed item: "MoreText".)                             *)
(***************************************************************************)
EventsAreOrderly == heard.orderly \/ heard.late

(***************************************************************************)
(* The history on the wire is one a provider accepts: each tool call of an *)
(* assistant turn is answered exactly once, by the entries that follow it  *)
(* directly, and for Anthropic and Gemini by one entry.                    *)
(***************************************************************************)
AnswersFollowCalls ==
  LET input == context.input
      \* The results after the assistant's blocks, of which i is one.
      Answers(i) ==
        {j \in (i + 1)..Len(input) : \E m \in i..(j - 1) :
           /\ \A k \in (i + 1)..m : Native /\ input[k].role = "assistant"
           /\ \A k \in (m + 1)..j : input[k].results # <<>>}
      Given(i) == FlattenSeq([j \in 1..Len(input) |->
                    IF j \in Answers(i) THEN input[j].results ELSE <<>>])
  IN  \A i \in DOMAIN input :
        /\ input[i].calls \subseteq ToSet(Given(i))
        /\ Len(Given(i)) = Cardinality(ToSet(Given(i)))
        /\ ((Anthropic \/ Gemini) /\ input[i].calls # {}) =>
             Cardinality({j \in Answers(i) : input[j].results # <<>>}) = 1

ResponseStreamIsTrue ==
  DeltasSpellTheOutput /\ EventsAreOrderly /\ AnswersFollowCalls
=============================================================================
