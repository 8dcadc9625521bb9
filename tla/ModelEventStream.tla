--------------------------- MODULE ModelEventStream ---------------------------
(***************************************************************************)
(* What a provider decoder promises the application: the model events of   *)
(* one request, in the order a Sink receives them.  One step delivers the  *)
(* events of one call of the decoder.  An event is its kind, the ordinal   *)
(* of the tool call it is about and its text or arguments, a sequence of   *)
(* pieces; text is irrelevant to the other kinds.                          *)
(***************************************************************************)
EXTENDS Naturals, SequencesExt

VARIABLE events

Event(kind, tool, data) == [kind |-> kind, tool |-> tool, data |-> data]
Plain(kind) == Event(kind, 0, <<>>)

Terminal == {"Completed", "Failed", "Cancelled", "TimedOut"}

\* The events of s of one kind about one tool call.
About(s, kind, tool) ==
    SelectSeq(s, LAMBDA e : e.kind = kind /\ e.tool = tool)

Joined(s) == FlattenSeq([i \in DOMAIN s |-> s[i].data])

-----------------------------------------------------------------------------
(* Only a request cancelled before its provider answered has no Started. *)
StartedFirst(s) ==
    \A i \in DOMAIN s :
        /\ s[i].kind = "Started" => i = 1
        /\ s[i].kind \notin {"Started", "Cancelled"} => s[1].kind = "Started"

TerminalLast(s) == \A i \in DOMAIN s : s[i].kind \in Terminal => i = Len(s)

ToolsInOrder(s) ==
    LET starts == SelectSeq(s, LAMBDA e : e.kind = "ToolStarted")
    IN \A k \in DOMAIN starts : starts[k].tool = k - 1

ToolsOpen(s) ==
    \A i \in DOMAIN s :
        s[i].kind \in {"ToolDelta", "ToolCompleted"} =>
            LET before == SubSeq(s, 1, i - 1)
            IN /\ About(before, "ToolStarted", s[i].tool) # <<>>
               /\ About(before, "ToolCompleted", s[i].tool) = <<>>

\* A call that streamed arguments completes with exactly those.
ArgumentsWhole(s) ==
    \A i \in DOMAIN s :
        s[i].kind = "ToolCompleted" =>
            Joined(About(s, "ToolDelta", s[i].tool)) \in {<<>>, s[i].data}

\* A completed response leaves no call open and reports its usage once.
CompletionWhole(s) ==
    s # <<>> /\ Last(s).kind = "Completed" =>
        /\ \A i \in DOMAIN s :
              s[i].kind = "ToolStarted" => About(s, "ToolCompleted", s[i].tool) # <<>>
        /\ Len(SelectSeq(s, LAMBDA e : e.kind = "Usage")) = 1

Legal(s) ==
    /\ StartedFirst(s)
    /\ TerminalLast(s)
    /\ ToolsInOrder(s)
    /\ ToolsOpen(s)
    /\ ArgumentsWhole(s)
    /\ CompletionWhole(s)

-----------------------------------------------------------------------------
Init == events = <<>>

Deliver == IsPrefix(events, events') /\ Legal(events')

Spec == Init /\ [][Deliver]_events

=============================================================================
