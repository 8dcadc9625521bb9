------------------------ MODULE ExecutionServiceProofs ------------------------
(***************************************************************************)
(* For every number of requests, queue bound, retry policy and limit: the  *)
(* slots count the transports, an abandoned transport is cancelled, the    *)
(* caller hears what ExecutionContract lets it hear, and a stream that is  *)
(* reported complete is whole.                                             *)
(*                                                                         *)
(* The game thread's stack is read from the bottom: what is suspended      *)
(* there stays at its place while calls come and go above it.              *)
(* For the streams: what the caller has heard, the events the parser has   *)
(* cut off, the event it holds back, the chunks it has taken and the       *)
(* chunks still queued are consecutive stretches of the provider's stream, *)
(* wherever the delegates and the HTTP thread have got to.                 *)
(***************************************************************************)
EXTENDS ExecutionService, FiniteSetTheorems, SequenceTheorems, TLAPS

-----------------------------------------------------------------------------
(* The stack *)

\* A chunk carries events.
FullChunks == [events : Seq(Events) \ {<<>>}, open : BOOLEAN]

Frames ==
    [kind : {"delegate", "abort", "cancel", "backoff", "settle"}, r : Requests]
    \union [kind : {"drain"}, r : Requests, chunks : Seq(FullChunks),
            events : Seq(Events), code : {"ok", "error"}]
    \union [kind : {"response"}, r : Requests, outcome : Outcomes]
    \union [kind : {"finish"}, r : Requests, events : Seq(Events)]
    \union [kind : {"pump"}, ticker : 1 .. MaxTickers, due : SUBSET Requests]

\* The d-th suspended call, the outermost first.
At(s, d) == s[Len(s) + 1 - d]
Depths(s) == 1 .. Len(s)
Suspended(s, f) == \E d \in Depths(s) : At(s, d) = f
Settling(s, r) == s # <<>> /\ At(s, 1) = Settle(r)

\* Whom a frame works for.
Serves(f) ==
    IF f.kind = "pump" THEN f.due ELSE IF f.kind = "delegate" THEN {} ELSE {f.r}
Served(s) == UNION {Serves(At(s, d)) : d \in Depths(s)}

Late == {"response", "finish", "backoff"}

\* A transport's completion is the outermost call; what follows its drain is
\* the next one in.
WellStacked(s) ==
    /\ s \in Seq(Frames)
    /\ \A d \in Depths(s) :
        /\ At(s, d).kind = "settle" => d = 1
        /\ At(s, d).kind \in Late => d = 2 /\ At(s, 1) = Settle(At(s, d).r)

LEMMA FrameKinds ==
    ASSUME NEW f \in Frames
    PROVE  /\ f.kind \in {"delegate", "abort", "cancel", "backoff", "settle",
                          "drain", "response", "finish", "pump"}
           /\ f.kind # "pump" => f.r \in Requests
           /\ f.kind \in {"delegate", "abort", "cancel", "backoff", "settle"} => f = Frame(f.kind, f.r)
           /\ f.kind = "pump" => f.ticker \in 1 .. MaxTickers /\ f.due \in SUBSET Requests
           /\ f.kind \in {"drain", "finish"} => f.events \in Seq(Events)
           /\ f.kind = "drain" => f.chunks \in Seq(FullChunks) /\ f.code \in {"ok", "error"}
           /\ f.kind = "response" => f.outcome \in Outcomes
BY DEF Frames, Frame

LEMMA EmptyStack == WellStacked(<<>>) /\ Served(<<>>) = {} /\ \A r : ~Settling(<<>>, r) 
BY DEF WellStacked, Served, Settling, Depths

LEMMA PushAt ==
    ASSUME NEW s \in Seq(Frames), NEW f \in Frames
    PROVE  LET t == <<f>> \o s IN
           /\ t \in Seq(Frames) /\ Len(t) = Len(s) + 1 /\ t # <<>>
           /\ At(t, Len(t)) = f
           /\ \A d \in Depths(s) : At(t, d) = At(s, d)
BY DEF At, Depths

LEMMA PopAt ==
    ASSUME NEW s \in Seq(Frames), s # <<>>
    PROVE  LET t == Tail(s) IN
           /\ t \in Seq(Frames) /\ Len(t) = Len(s) - 1 /\ Len(s) \in Nat \ {0}
           /\ Head(s) = At(s, Len(s)) /\ Head(s) \in Frames
           /\ \A d \in Depths(t) : At(t, d) = At(s, d)
BY DEF At, Depths

LEMMA Push ==
    ASSUME NEW s, WellStacked(s), NEW f \in Frames, f.kind \notin Late \union {"settle"}
    PROVE  LET t == <<f>> \o s IN
           /\ WellStacked(t)
           /\ Served(t) = Serves(f) \union Served(s)
           /\ \A r : Settling(t, r) <=> Settling(s, r)
           /\ \A g : Suspended(t, g) <=> g = f \/ Suspended(s, g)
<1> DEFINE t == <<f>> \o s
<1>1. /\ t \in Seq(Frames) /\ Len(t) = Len(s) + 1 /\ t # <<>> /\ Len(s) \in Nat
      /\ At(t, Len(t)) = f
      /\ \A d \in Depths(s) : At(t, d) = At(s, d)
    BY PushAt DEF WellStacked
<1> HIDE DEF t
<1>2. Depths(t) = Depths(s) \union {Len(t)}
    BY <1>1 DEF Depths
<1>3. WellStacked(t)
    BY <1>1, <1>2 DEF WellStacked, Late, Depths
<1>4. Served(t) = Serves(f) \union Served(s)
    BY <1>1, <1>2 DEF Served
<1>5. \A r : Settling(t, r) <=> Settling(s, r)
    BY <1>1, <1>2 DEF Settling, Settle, Frame, WellStacked, Depths
<1>6. \A g : Suspended(t, g) <=> g = f \/ Suspended(s, g)
    BY <1>1, <1>2 DEF Suspended
<1> QED BY <1>3, <1>4, <1>5, <1>6 DEF t

LEMMA Pop ==
    ASSUME NEW s, WellStacked(s), s # <<>>
    PROVE  LET t == Tail(s) IN
           /\ WellStacked(t) /\ Head(s) \in Frames /\ Suspended(s, Head(s))
           /\ Served(t) \subseteq Served(s) /\ Serves(Head(s)) \subseteq Served(s)
           /\ \A r : Settling(t, r) => Settling(s, r)
           /\ Head(s).kind # "settle" => \A r : Settling(s, r) => Settling(t, r)
           /\ Head(s).kind = "settle" => t = <<>> /\ Settling(s, Head(s).r)
           /\ \A g : Suspended(t, g) => Suspended(s, g)
           /\ Head(s).kind \in Late => t = <<Settle(Head(s).r)>>
<1> DEFINE t == Tail(s)
<1>1. /\ t \in Seq(Frames) /\ Len(t) = Len(s) - 1 /\ Len(s) \in Nat \ {0}
      /\ Head(s) = At(s, Len(s)) /\ Head(s) \in Frames
      /\ \A d \in Depths(t) : At(t, d) = At(s, d)
    BY PopAt DEF WellStacked
<1>2. ASSUME Head(s).kind \in Late PROVE t = <<Settle(Head(s).r)>>
    <2>1. Len(s) = 2 /\ At(s, 1) = Settle(Head(s).r)
        BY <1>1, <1>2 DEF WellStacked, Depths
    <2>2. Len(t) = 1 /\ t[1] = s[2]
        BY <1>1, <2>1
    <2>3. t[1] = Settle(Head(s).r)
        BY <2>1, <2>2 DEF At
    <2> HIDE DEF t
    <2>4. t = [i \in 1 .. Len(t) |-> t[i]]
        BY <1>1
    <2> QED BY <2>2, <2>3, <2>4
<1>3. Head(s).kind = "settle" => t = <<>> /\ Settling(s, Head(s).r)
    BY <1>1, FrameKinds DEF WellStacked, Depths, Settling, Settle
<1> HIDE DEF t
<1>4. Depths(s) = Depths(t) \union {Len(s)} /\ Len(s) \in Depths(s)
    BY <1>1 DEF Depths
<1>5. WellStacked(t)
    BY <1>1, <1>4 DEF WellStacked, Late, Depths
<1>6. Served(t) \subseteq Served(s) /\ Serves(Head(s)) \subseteq Served(s)
    BY <1>1, <1>4 DEF Served
<1>7. \A r : Settling(t, r) => Settling(s, r)
    BY <1>1, <1>4 DEF Settling, Depths
<1>8. Head(s).kind # "settle" => \A r : Settling(s, r) => Settling(t, r)
    BY <1>1, <1>4 DEF Settling, Settle, Frame, Depths
<1>9. \A g : Suspended(t, g) => Suspended(s, g)
    BY <1>1, <1>4 DEF Suspended
<1>10. Suspended(s, Head(s))
    BY <1>1, <1>4 DEF Suspended
<1> QED BY <1>1, <1>2, <1>3, <1>5, <1>6, <1>7, <1>8, <1>9, <1>10 DEF t

\* The end of a transport puts two frames, or one, on an empty stack.
LEMMA Base ==
    ASSUME NEW r \in Requests
    PROVE  LET s == <<Settle(r)>> IN
           /\ WellStacked(s) /\ Served(s) = {r}
           /\ \A x : Settling(s, x) <=> Settle(x) = Settle(r)
           /\ \A g : Suspended(s, g) <=> g = Settle(r)
<1>1. <<Settle(r)>> \in Seq(Frames) /\ Len(<<Settle(r)>>) = 1 /\ At(<<Settle(r)>>, 1) = Settle(r)
      /\ Depths(<<Settle(r)>>) = {1}
    BY DEF Settle, Frame, Frames, At, Depths
<1> QED BY <1>1 DEF WellStacked, Served, Serves, Settling, Suspended, Settle, Frame, Late

LEMMA Second ==
    ASSUME NEW r \in Requests, NEW f \in Frames, f.kind \in Late, f.r = r
    PROVE  LET t == <<f>> \o <<Settle(r)>> IN
           /\ WellStacked(t) /\ Served(t) = {r}
           /\ \A x : Settling(t, x) <=> Settle(x) = Settle(r)
           /\ \A g : Suspended(t, g) <=> g = f \/ g = Settle(r)
<1> DEFINE s == <<Settle(r)>>
           t == <<f>> \o s
<1>1. s \in Seq(Frames) /\ Len(s) = 1 /\ At(s, 1) = Settle(r) /\ Depths(s) = {1}
    BY DEF Settle, Frame, Frames, At, Depths
<1> HIDE DEF s
<1>2. /\ t \in Seq(Frames) /\ Len(t) = 2 /\ t # <<>> /\ At(t, 2) = f /\ At(t, 1) = Settle(r)
      /\ Depths(t) = {1, 2}
    <2>1. /\ t \in Seq(Frames) /\ Len(t) = Len(s) + 1 /\ t # <<>> /\ At(t, Len(t)) = f
          /\ \A d \in Depths(s) : At(t, d) = At(s, d)
        BY <1>1, PushAt
    <2> QED BY <1>1, <2>1 DEF Depths
<1> HIDE DEF t
<1>3. WellStacked(t)
    BY <1>2 DEF WellStacked, Settle, Frame, Late
<1>4. Served(t) = {r}
    BY <1>2 DEF Served, Serves, Settle, Frame, Late
<1>5. \A x : Settling(t, x) <=> Settle(x) = Settle(r)
    BY <1>2 DEF Settling
<1>6. \A g : Suspended(t, g) <=> g = f \/ g = Settle(r)
    BY <1>2 DEF Suspended
<1> QED BY <1>3, <1>4, <1>5, <1>6 DEF t, s

\* What of the stack concerns the others when a step is about r.
Under(s, r) ==
    /\ WellStacked(s)
    /\ Served(s) \subseteq Served(stack) \union {r}
    /\ \A x \in Requests \ {r} :
        /\ Settling(s, x) <=> Settling(stack, x)
        /\ Suspended(s, Frame("backoff", x)) => Suspended(stack, Frame("backoff", x))

LEMMA UnderSame == ASSUME WellStacked(stack), NEW r PROVE Under(stack, r)
BY DEF Under

LEMMA TwoFrames == ASSUME NEW a, NEW b PROVE <<a>> \o <<b>> = <<a, b>>
<1> DEFINE t == <<a>> \o <<b>>
<1>1. t \in Seq({a, b}) /\ Len(t) = 2 /\ t[1] = a /\ t[2] = b
    OBVIOUS
<1>2. t = [i \in 1 .. 2 |-> t[i]]
    BY <1>1
<1>3. <<a, b>> = [i \in 1 .. 2 |-> t[i]]
    BY <1>1
<1> QED BY <1>2, <1>3

LEMMA UnderIdle ==
    ASSUME Idle, NEW r \in Requests, NEW o \in Outcomes
    PROVE  /\ Under(<<>>, r) /\ ~Settling(<<>>, r)
           /\ Under(<<Settle(r)>>, r) /\ Settling(<<Settle(r)>>, r)
           /\ Under(<<ResponseFrame(r, o), Settle(r)>>, r)
           /\ Settling(<<ResponseFrame(r, o), Settle(r)>>, r)
<1> DEFINE f == ResponseFrame(r, o)
<1>1. f \in Frames /\ f.kind = "response" /\ f.r = r
    BY DEF Frames, ResponseFrame
<1>2. <<f>> \o <<Settle(r)>> = <<f, Settle(r)>>
    BY TwoFrames
<1>3. \A x : Settle(x) = Settle(r) <=> x = r
    BY DEF Settle, Frame
<1>4. \A x : Frame("backoff", x) # f /\ Frame("backoff", x) # Settle(r)
    BY DEF ResponseFrame, Settle, Frame
<1>5. \A x : ~Settling(stack, x)
    BY DEF Idle, Settling
<1> HIDE DEF f
<1>6. Under(<<f, Settle(r)>>, r) /\ Settling(<<f, Settle(r)>>, r)
    <2> DEFINE t == <<f>> \o <<Settle(r)>>
    <2>1. /\ WellStacked(t) /\ Served(t) = {r}
          /\ \A x : Settling(t, x) <=> Settle(x) = Settle(r)
          /\ \A g : Suspended(t, g) <=> g = f \/ g = Settle(r)
        <3>1. f.kind \in Late
            BY <1>1 DEF Late
        <3> QED BY <1>1, <3>1, Second
    <2> HIDE DEF t
    <2>2. Under(t, r) /\ Settling(t, r)
        BY <2>1, <1>3, <1>4, <1>5 DEF Under
    <2> QED BY <1>2, <2>2 DEF t
<1>7. Under(<<Settle(r)>>, r) /\ Settling(<<Settle(r)>>, r)
    BY <1>3, <1>4, <1>5, Base DEF Under
<1>8. Under(<<>>, r) /\ ~Settling(<<>>, r)
    BY <1>5, EmptyStack DEF Under, Suspended, Depths
<1> QED BY <1>6, <1>7, <1>8 DEF f

LEMMA TopFrame ==
    ASSUME WellStacked(stack), NEW k, Running(k)
    PROVE  /\ Head(stack) \in Frames /\ Head(stack).kind = k
           /\ Suspended(stack, Head(stack)) /\ Serves(Head(stack)) \subseteq Served(stack)
           /\ \A g : Suspended(Rest, g) => Suspended(stack, g)
           /\ k \in Late => Rest = <<Settle(Head(stack).r)>>
BY Pop DEF Running, Idle, Rest

LEMMA UnderRest ==
    ASSUME WellStacked(stack), NEW k, Running(k), k # "settle", NEW r
    PROVE  Under(Rest, r) /\ (Settling(Rest, r) <=> Settling(stack, r))
BY Pop DEF Under, Running, Idle, Rest

LEMMA UnderPush ==
    ASSUME NEW r \in Requests, NEW s, Under(s, r), NEW f \in Frames,
           f.kind \notin Late \union {"settle"}, Serves(f) \subseteq Served(stack) \union {r}
    PROVE  /\ Under(<<f>> \o s, r) /\ (Settling(<<f>> \o s, r) <=> Settling(s, r))
           /\ \A g : Suspended(<<f>> \o s, g) <=> g = f \/ Suspended(s, g)
<1>1. \A x : Frame("backoff", x) # f
    BY DEF Frame, Late
<1> QED BY <1>1, Push DEF Under

-----------------------------------------------------------------------------
(* The life of a request *)

GoodRequest(q) ==
    /\ q \in RequestType /\ q.pending \in Seq(FullChunks)
    /\ Len(q.pending) <= QueueCapacity /\ Len(q.held) <= 1

WireType == [open : BOOLEAN, sent : 0 .. StreamLength, status : Codes, cancelled : BOOLEAN]

\* An attempt that is settling, or whose retry is being prepared, is not open;
\* the physical count is that of the attempt under way.
Fit(q, w, settling) ==
    /\ GoodRequest(q) /\ q.accepted
    /\ q.physical = IF w.open \/ settling THEN 1 ELSE 0
    /\ settling => ~w.open
    /\ q.attempt <= q.retries + 1
    /\ q.waiting => ~w.open /\ q.attempt <= q.retries

Sound(q, w, settling, backing, runs) ==
    /\ GoodRequest(q)
    /\ ~q.accepted => q = NewRequest /\ w = NoWire /\ ~settling
    /\ q.accepted => Fit(q, w, settling)
    /\ runs <=> q.accepted /\ ~q.terminal
    /\ q.retryTicker => q.waiting /\ runs
    /\ runs /\ backing => q.waiting
    /\ runs /\ w.open => q.attached

RestType ==
    /\ active \subseteq Requests
    /\ limit \in Limits
    /\ tickers \subseteq 1 .. MaxTickers
    /\ ticker \in 0 .. MaxTickers
    /\ wire \in [Requests -> WireType]
    /\ heard \in [Requests -> Seq(Events)]
    /\ told \in [Requests -> Seq({"Completed", "Failed", "Cancelled", "Closed"})]

Sounds(r) ==
    Sound(req[r], wire[r], Settling(stack, r), Suspended(stack, Frame("backoff", r)), r \in active)

Core ==
    /\ RestType
    /\ req \in [Requests -> RequestType]
    /\ \A r \in Requests : Sounds(r)
    /\ WellStacked(stack)
    /\ Served(stack) \subseteq {r \in Requests : req[r].accepted}

LEMMA CoreType == Core => TypeOK
<1> SUFFICES ASSUME Core PROVE TypeOK
    OBVIOUS
<1>1. \A r \in Requests : GoodRequest(req[r])
    BY DEF Core, Sounds, Sound
<1> QED BY <1>1 DEF Core, TypeOK, RestType, WireType, GoodRequest

LEMMA InitCore == Init => Core
<1> SUFFICES ASSUME Init PROVE Core
    OBVIOUS
<1>1. NewRequest \in RequestType /\ GoodRequest(NewRequest) /\ NoWire \in WireType
    BY ServiceAssumption DEF NewRequest, NoWire, RequestType, GoodRequest, WireType, Codes
<1>2. \A r \in Requests : Sounds(r)
    BY <1>1, EmptyStack DEF Init, Sounds, Sound, NewRequest
<1>3. RestType
    BY <1>1, ServiceAssumption DEF Init, RestType
<1> QED BY <1>1, <1>2, <1>3, EmptyStack DEF Init, Core

\* A step about r leaves the others as they are.
LEMMA Update ==
    ASSUME Core, NEW r \in Requests, Under(stack', r), RestType',
           DOMAIN req' = Requests, req' = [x \in Requests |-> req'[x]],
           \A x \in Requests \ {r} :
               req'[x] = req[x] /\ wire'[x] = wire[x] /\ (x \in active' <=> x \in active),
           Sounds(r)', req'[r].accepted
    PROVE  Core'
<1>1. \A x \in Requests \ {r} : Sounds(x)'
    <2> SUFFICES ASSUME NEW x \in Requests \ {r} PROVE Sounds(x)'
        OBVIOUS
    <2>1. Sounds(x)
        BY DEF Core
    <2> QED BY <2>1 DEF Sounds, Sound, Fit, Under
<1>2. \A x \in Requests : Sounds(x)'
    BY <1>1
<1>3. \A x \in Requests : req'[x] \in RequestType
    BY <1>2 DEF Sounds, Sound, GoodRequest
<1>4. Served(stack') \subseteq {x \in Requests : req'[x].accepted}
    BY DEF Under, Core
<1> QED BY <1>2, <1>3, <1>4 DEF Core, Under

-----------------------------------------------------------------------------
(* The shapes of a step *)

Ends == {"Completed", "Failed", "Cancelled", "Closed"}

WireMoves(r) ==
    /\ wire' \in [Requests -> WireType]
    /\ \A x \in Requests \ {r} : wire'[x] = wire[x]

LEMMA CompletedFields ==
    ASSUME NEW q \in RequestType
    PROVE  LET c == Completed(q) IN
           /\ c \in RequestType
           /\ c.terminal /\ ~c.retryTicker /\ ~c.attached /\ c.pending = <<>>
           /\ c.held = q.held /\ c.mode = q.mode /\ c.accepted = q.accepted
           /\ c.attempt = q.attempt /\ c.retries = q.retries
           /\ c.physical = q.physical /\ c.waiting = q.waiting
<1>1. ASSUME NEW e \in Seq(Chunks)
      PROVE  [q EXCEPT !.terminal = TRUE, !.retryTicker = FALSE, !.attached = FALSE,
                 !.accept = FALSE, !.pending = e, !.drainScheduled = FALSE] \in RequestType
    BY DEF RequestType
<1>2. <<>> \in Seq(Chunks)
    OBVIOUS
<1>3. Completed(q) \in RequestType
    BY <1>1, <1>2 DEF Completed
<1> QED BY <1>3 DEF RequestType, Completed

LEMMA CompletedIsFit ==
    ASSUME NEW q, NEW w, NEW u, Fit(q, w, u)
    PROVE  LET c == Completed(q) IN
           Fit(c, w, u) /\ c.terminal /\ ~c.retryTicker /\ ~c.attached /\ c.mode = q.mode
<1> DEFINE c == Completed(q)
<1>1. q \in RequestType
    BY DEF Fit, GoodRequest
<1>2. /\ c \in RequestType
      /\ c.terminal /\ ~c.retryTicker /\ ~c.attached /\ c.pending = <<>>
      /\ c.held = q.held /\ c.mode = q.mode /\ c.accepted = q.accepted
      /\ c.attempt = q.attempt /\ c.retries = q.retries
      /\ c.physical = q.physical /\ c.waiting = q.waiting
    BY <1>1, CompletedFields
<1> HIDE DEF c
<1>3. GoodRequest(c)
    BY <1>2, ServiceAssumption DEF Fit, GoodRequest
<1> QED BY <1>2, <1>3 DEF Fit, c

LEMMA ResetIsGood ==
    ASSUME NEW q, GoodRequest(q), NEW a \in BOOLEAN
    PROVE  LET c == ResetStreamAttempt(q, a) IN
           /\ GoodRequest(c)
           /\ c.accepted = q.accepted /\ c.mode = q.mode /\ c.attempt = q.attempt
           /\ c.attached = q.attached /\ c.waiting = q.waiting /\ c.retries = q.retries
           /\ c.retryTicker = q.retryTicker /\ c.terminal = q.terminal
           /\ c.physical = q.physical /\ c.saw = q.saw
           /\ c.posting = q.posting /\ c.drains = q.drains
           /\ c.pending = <<>> /\ c.held = <<>> /\ c.status = "none"
           /\ c.drainScheduled = FALSE /\ c.overflowed = FALSE /\ c.ended = FALSE /\ c.accept = a
<1> DEFINE c == ResetStreamAttempt(q, a)
<1>1. q \in RequestType
    BY DEF GoodRequest
<1>2. ASSUME NEW e \in Seq(Chunks), NEW h \in Seq(Events), NEW n \in Codes
      PROVE  [q EXCEPT !.pending = e, !.drainScheduled = FALSE, !.accept = a,
                 !.overflowed = FALSE, !.status = n, !.held = h, !.ended = FALSE] \in RequestType
    BY <1>1 DEF RequestType
<1>3. <<>> \in Seq(Chunks) /\ <<>> \in Seq(Events) /\ "none" \in Codes /\ <<>> \in Seq(FullChunks)
    BY DEF Codes
<1>4. c \in RequestType
    BY <1>2, <1>3 DEF ResetStreamAttempt
<1>5. /\ c.accepted = q.accepted /\ c.mode = q.mode /\ c.attempt = q.attempt
      /\ c.attached = q.attached /\ c.waiting = q.waiting /\ c.retries = q.retries
      /\ c.retryTicker = q.retryTicker /\ c.terminal = q.terminal
      /\ c.physical = q.physical /\ c.saw = q.saw
      /\ c.posting = q.posting /\ c.drains = q.drains
      /\ c.pending = <<>> /\ c.held = <<>> /\ c.status = "none"
      /\ c.drainScheduled = FALSE /\ c.overflowed = FALSE /\ c.ended = FALSE /\ c.accept = a
    BY <1>1 DEF RequestType, ResetStreamAttempt
<1>6. GoodRequest(c)
    BY <1>3, <1>4, <1>5, ServiceAssumption DEF GoodRequest
<1> QED BY <1>5, <1>6

LEMMA AbortUnder ==
    ASSUME NEW r \in Requests, NEW q, NEW s, Under(s, r)
    PROVE  /\ Under(Abort(r, q) \o s, r)
           /\ Settling(Abort(r, q) \o s, r) <=> Settling(s, r)
           /\ \A g : Suspended(Abort(r, q) \o s, g) => g = Frame("abort", r) \/ Suspended(s, g)
           /\ \A g : Suspended(s, g) => Suspended(Abort(r, q) \o s, g)
           /\ q.attached => Suspended(Abort(r, q) \o s, Frame("abort", r))
<1>1. CASE q.attached
    <2>1. Frame("abort", r) \in Frames /\ Serves(Frame("abort", r)) = {r}
        BY DEF Frame, Frames, Serves
    <2>2. Frame("abort", r).kind \notin Late \union {"settle"}
        BY DEF Frame, Late
    <2>3. Abort(r, q) = <<Frame("abort", r)>>
        BY <1>1 DEF Abort
    <2> QED BY <2>1, <2>2, <2>3, UnderPush
<1>2. CASE ~q.attached
    <2>1. Abort(r, q) \o s = s
        BY <1>2 DEF Abort, Under, WellStacked
    <2> QED BY <1>2, <2>1
<1> QED BY <1>1, <1>2

LEMMA DelegateUnder ==
    ASSUME NEW r \in Requests, NEW s, Under(s, r)
    PROVE  LET t == <<Delegate(r)>> \o s IN
           /\ Under(t, r) /\ (Settling(t, r) <=> Settling(s, r))
           /\ \A g : Suspended(t, g) <=> g = Delegate(r) \/ Suspended(s, g)
<1>1. Delegate(r) \in Frames /\ Serves(Delegate(r)) = {} /\ Delegate(r).kind \notin Late \union {"settle"}
    BY DEF Delegate, Frames, Serves, Late
<1> QED BY <1>1, UnderPush

LEMMA CompleteCore ==
    ASSUME Core, NEW r \in Requests, NEW q, NEW how \in Ends, NEW s, Under(s, r),
           Complete(r, q, how, s), Fit(q, wire'[r], Settling(s, r)), WireMoves(r),
           tickers' \subseteq 1 .. MaxTickers, ticker' \in 0 .. MaxTickers,
           UNCHANGED <<limit, heard>>
    PROVE  Core'
<1>1. Under(stack', r) /\ (Settling(stack', r) <=> Settling(s, r))
    BY DelegateUnder DEF Complete
<1>2. req'[r] = Completed(q) /\ \A x \in Requests \ {r} : req'[x] = req[x]
    BY DEF Complete, Core
<1>3. DOMAIN req' = Requests /\ req' = [x \in Requests |-> req'[x]]
    BY DEF Complete, Core
<1>4. Fit(req'[r], wire'[r], Settling(s, r)) /\ req'[r].terminal /\ ~req'[r].retryTicker
    BY <1>2, CompletedIsFit
<1>5. active' = active \ {r}
    BY DEF Complete
<1>6. Sounds(r)'
    BY <1>1, <1>4, <1>5 DEF Sounds, Sound, Fit
<1>7. told' \in [Requests -> Seq(Ends)]
    BY DEF Complete, Core, RestType, Ends
<1>8. RestType'
    BY <1>5, <1>7 DEF Core, RestType, WireMoves, Ends
<1>9. req'[r].accepted
    BY <1>4 DEF Fit
<1> QED BY <1>1, <1>2, <1>3, <1>5, <1>6, <1>8, <1>9, Update DEF WireMoves

LEMMA RetryCore ==
    ASSUME Core, NEW r \in Requests, NEW q, Under(<<Settle(r)>>, r),
           TryScheduleRetry(r, q, <<Settle(r)>>), Fit(q, wire'[r], TRUE), WireMoves(r),
           r \in active, ~q.terminal,
           UNCHANGED <<limit, tickers, ticker, heard>>
    PROVE  Core'
<1> DEFINE f == Frame("backoff", r)
           t == <<f>> \o <<Settle(r)>>
<1>1. f \in Frames /\ f.kind \in Late /\ f.r = r
    BY DEF Frame, Frames, Late
<1>2. Under(t, r) /\ Settling(t, r) /\ \A g : Suspended(t, g) <=> g = f \/ g = Settle(r)
    <2>1. /\ WellStacked(t) /\ Served(t) = {r}
          /\ \A x : Settling(t, x) <=> Settle(x) = Settle(r)
          /\ \A g : Suspended(t, g) <=> g = f \/ g = Settle(r)
        BY <1>1, Second
    <2>2. /\ Served(<<Settle(r)>>) = {r}
          /\ \A x : Settling(<<Settle(r)>>, x) <=> Settle(x) = Settle(r)
        BY Base
    <2>3. \A x : Frame("backoff", x) # Settle(r) /\ (Frame("backoff", x) = f <=> x = r)
        BY DEF Frame, Settle
    <2> HIDE DEF t, f
    <2> QED BY <2>1, <2>2, <2>3 DEF Under
<1>3. stack' = <<Delegate(r)>> \o t
    BY DEF TryScheduleRetry
<1> HIDE DEF t
<1>4. Under(stack', r) /\ Settling(stack', r)
    BY <1>2, <1>3, DelegateUnder
<1> DEFINE w == [q EXCEPT !.retries = @ + 1, !.waiting = TRUE]
           c == IF q.mode = "Stream" THEN ResetStreamAttempt(w, FALSE) ELSE w
<1>5. /\ GoodRequest(w) /\ w.accepted /\ w.waiting /\ w.physical = q.physical
      /\ w.attempt <= w.retries /\ ~w.terminal
    <2>1. q \in RequestType /\ q.retries < MaxRetries
        BY DEF Fit, GoodRequest, TryScheduleRetry
    <2>2. q.retries + 1 \in 0 .. MaxRetries
        BY <2>1, ServiceAssumption DEF RequestType
    <2>3. \A n \in 0 .. MaxRetries : [q EXCEPT !.retries = n, !.waiting = TRUE] \in RequestType
        BY <2>1 DEF RequestType
    <2>4. w = [q EXCEPT !.retries = q.retries + 1, !.waiting = TRUE]
        OBVIOUS
    <2>5. w \in RequestType
        BY <2>2, <2>3, <2>4
    <2> QED BY <2>1, <2>5 DEF Fit, GoodRequest, RequestType
<1> HIDE DEF w
<1>6. /\ GoodRequest(c) /\ c.accepted /\ c.waiting /\ c.physical = q.physical
      /\ c.attempt <= c.retries /\ ~c.terminal
    BY <1>5, ResetIsGood
<1>7. req' = [req EXCEPT ![r] = c]
    BY DEF TryScheduleRetry, c, w
<1> HIDE DEF c
<1>8. req'[r] = c /\ (\A x \in Requests \ {r} : req'[x] = req[x])
      /\ DOMAIN req' = Requests /\ req' = [x \in Requests |-> req'[x]]
    BY <1>7 DEF Core
<1>9. UNCHANGED <<active, told>>
    BY DEF TryScheduleRetry
<1>10. Sounds(r)'
    BY <1>4, <1>6, <1>8, <1>9 DEF Sounds, Sound, Fit, GoodRequest, RequestType
<1>11. RestType'
    BY <1>9 DEF Core, RestType, WireMoves
<1> QED BY <1>4, <1>6, <1>8, <1>9, <1>10, <1>11, Update DEF WireMoves

LEMMA Put ==
    ASSUME Core, NEW r \in Requests, NEW c, req' = [req EXCEPT ![r] = c], c.accepted,
           Under(stack', r), WireMoves(r), RestType',
           Sound(c, wire'[r], Settling(stack', r), Suspended(stack', Frame("backoff", r)), r \in active'),
           \A x \in Requests \ {r} : x \in active' <=> x \in active
    PROVE  Core'
<1>1. req'[r] = c /\ (\A x \in Requests \ {r} : req'[x] = req[x])
      /\ DOMAIN req' = Requests /\ req' = [x \in Requests |-> req'[x]]
    BY DEF Core
<1>2. Sounds(r)'
    BY <1>1 DEF Sounds
<1> QED BY <1>1, <1>2, Update DEF WireMoves

\* One field of a request at a time.
LEMMA Fields ==
    ASSUME NEW q, GoodRequest(q)
    PROVE  /\ \A b \in BOOLEAN :
               /\ GoodRequest([q EXCEPT !.attached = b])
               /\ GoodRequest([q EXCEPT !.waiting = b])
               /\ GoodRequest([q EXCEPT !.retryTicker = b])
               /\ GoodRequest([q EXCEPT !.expired = b])
               /\ GoodRequest([q EXCEPT !.drainScheduled = b])
               /\ GoodRequest([q EXCEPT !.posting = b])
           /\ \A n \in Nat : GoodRequest([q EXCEPT !.drains = n])
           /\ \A n \in 0 .. 1 : GoodRequest([q EXCEPT !.physical = n])
           /\ \A n \in Codes : GoodRequest([q EXCEPT !.status = n])
           /\ \A h \in Seq(Events) : Len(h) <= 1 => GoodRequest([q EXCEPT !.held = h])
           /\ \A p \in Seq(FullChunks) : Len(p) <= QueueCapacity => GoodRequest([q EXCEPT !.pending = p])
<1>1. \A p \in Seq(FullChunks) : p \in Seq(Chunks)
    <2>1. FullChunks \subseteq Chunks
        BY DEF FullChunks, Chunks
    <2> QED BY <2>1
<1>2. q \in RequestType
    BY DEF GoodRequest
<1>3. \A b \in BOOLEAN :
               /\ [q EXCEPT !.attached = b] \in RequestType
               /\ [q EXCEPT !.waiting = b] \in RequestType
               /\ [q EXCEPT !.retryTicker = b] \in RequestType
               /\ [q EXCEPT !.expired = b] \in RequestType
               /\ [q EXCEPT !.drainScheduled = b] \in RequestType
               /\ [q EXCEPT !.posting = b] \in RequestType
    BY <1>2 DEF RequestType
<1>4. /\ \A n \in Nat : [q EXCEPT !.drains = n] \in RequestType
      /\ \A n \in 0 .. 1 : [q EXCEPT !.physical = n] \in RequestType
      /\ \A n \in Codes : [q EXCEPT !.status = n] \in RequestType
      /\ \A h \in Seq(Events) : [q EXCEPT !.held = h] \in RequestType
      /\ \A p \in Seq(Chunks) : [q EXCEPT !.pending = p] \in RequestType
    BY <1>2 DEF RequestType
<1>5. \A b \in BOOLEAN :
               /\ GoodRequest([q EXCEPT !.attached = b])
               /\ GoodRequest([q EXCEPT !.waiting = b])
               /\ GoodRequest([q EXCEPT !.retryTicker = b])
               /\ GoodRequest([q EXCEPT !.expired = b])
               /\ GoodRequest([q EXCEPT !.drainScheduled = b])
               /\ GoodRequest([q EXCEPT !.posting = b])
    <2>1. ASSUME NEW c \in RequestType, c.pending = q.pending, c.held = q.held PROVE GoodRequest(c)
        BY <2>1 DEF GoodRequest
    <2>2. ASSUME NEW b \in BOOLEAN
          PROVE  /\ [q EXCEPT !.attached = b].pending = q.pending
                 /\ [q EXCEPT !.waiting = b].pending = q.pending
                 /\ [q EXCEPT !.retryTicker = b].pending = q.pending
                 /\ [q EXCEPT !.expired = b].pending = q.pending
                 /\ [q EXCEPT !.drainScheduled = b].pending = q.pending
                 /\ [q EXCEPT !.posting = b].pending = q.pending
        BY <1>2 DEF RequestType
    <2>3. ASSUME NEW b \in BOOLEAN
          PROVE  /\ [q EXCEPT !.attached = b].held = q.held
                 /\ [q EXCEPT !.waiting = b].held = q.held
                 /\ [q EXCEPT !.retryTicker = b].held = q.held
                 /\ [q EXCEPT !.expired = b].held = q.held
                 /\ [q EXCEPT !.drainScheduled = b].held = q.held
                 /\ [q EXCEPT !.posting = b].held = q.held
        BY <1>2 DEF RequestType
    <2> QED BY <1>3, <2>1, <2>2, <2>3, Zenon
<1>6. /\ \A n \in Nat : GoodRequest([q EXCEPT !.drains = n])
      /\ \A n \in 0 .. 1 : GoodRequest([q EXCEPT !.physical = n])
      /\ \A n \in Codes : GoodRequest([q EXCEPT !.status = n])
    BY <1>2, <1>4 DEF GoodRequest, RequestType
<1>7. \A h \in Seq(Events) : Len(h) <= 1 => GoodRequest([q EXCEPT !.held = h])
    BY <1>2, <1>4 DEF GoodRequest, RequestType
<1>8. \A p \in Seq(FullChunks) : Len(p) <= QueueCapacity => GoodRequest([q EXCEPT !.pending = p])
    BY <1>1, <1>2, <1>4 DEF GoodRequest, RequestType
<1> QED BY <1>5, <1>6, <1>7, <1>8

LEMMA DrainCore ==
    ASSUME Core, NEW r \in Requests, NEW q, NEW s, Under(s, r), Drain(r, q, s), q.accepted,
           Sound(q, wire'[r], Settling(s, r), Suspended(s, Frame("backoff", r)), r \in active),
           WireMoves(r), UNCHANGED <<limit, tickers, ticker, heard>>
    PROVE  Core'
<1> DEFINE drained == [q EXCEPT !.pending = <<>>, !.drainScheduled = FALSE]
           quiet == [q EXCEPT !.drainScheduled = FALSE]
<1>1. GoodRequest(q) /\ q \in RequestType
    BY DEF Sound, GoodRequest
<1>2. /\ GoodRequest(quiet) /\ quiet.accepted
      /\ Sound(quiet, wire'[r], Settling(s, r), Suspended(s, Frame("backoff", r)), r \in active)
    <2>1. GoodRequest(quiet)
        BY <1>1, Fields
    <2>2. q \in RequestType
        BY <1>1
    <2> QED BY <2>1, <2>2 DEF Sound, Fit, RequestType
<1>3. /\ GoodRequest(drained) /\ drained.accepted
      /\ Sound(drained, wire'[r], Settling(s, r), Suspended(s, Frame("backoff", r)), r \in active)
      /\ Fit(drained, wire'[r], Settling(s, r))
    <2>1. \A p \in Seq(FullChunks) : Len(p) <= QueueCapacity => GoodRequest([[q EXCEPT !.pending = p] EXCEPT !.drainScheduled = FALSE])
        BY <1>1, Fields
    <2>2. <<>> \in Seq(FullChunks) /\ Len(<<>>) <= QueueCapacity
        BY ServiceAssumption
    <2>3. GoodRequest(drained)
        BY <2>1, <2>2
    <2> QED BY <1>1, <2>3 DEF Sound, Fit, RequestType
<1> HIDE DEF drained, quiet
<1>4. RestType' \/ ~UNCHANGED <<active, told>>
    BY DEF Core, RestType, WireMoves
<1>5. CASE /\ r \notin active \/ q.terminal \/ q.waiting
           /\ req' = [req EXCEPT ![r] = q]
           /\ stack' = s
           /\ UNCHANGED <<active, told>>
    BY <1>4, <1>5, Put
<1>6. CASE /\ req' = [req EXCEPT ![r] = quiet]
           /\ stack' = s
           /\ UNCHANGED <<active, told>>
    BY <1>2, <1>4, <1>6, Put
<1>7. CASE Complete(r, drained, "Failed", Abort(r, q) \o s)
    <2>1. Under(Abort(r, q) \o s, r) /\ (Settling(Abort(r, q) \o s, r) <=> Settling(s, r))
        BY AbortUnder
    <2>2. Fit(drained, wire'[r], Settling(Abort(r, q) \o s, r))
        BY <1>3, <2>1 DEF Fit
    <2>3. tickers' \subseteq 1 .. MaxTickers /\ ticker' \in 0 .. MaxTickers
        BY DEF Core, RestType
    <2> QED BY <1>7, <2>1, <2>2, <2>3, CompleteCore DEF Ends
<1>8. CASE /\ r \in active /\ q.status # "none"
           /\ req' = [req EXCEPT ![r] = drained]
           /\ stack' = <<DrainFrame(r, q.pending, <<>>, q.status)>> \o s
           /\ UNCHANGED <<active, told>>
    <2> DEFINE f == DrainFrame(r, q.pending, <<>>, q.status)
    <2>1. f \in Frames /\ f.kind \notin Late \union {"settle"} /\ Serves(f) = {r}
        BY <1>1, <1>8 DEF DrainFrame, Frames, GoodRequest, Late, Serves, RequestType, Codes
    <2>2. \A g : Frame("backoff", g) # f
        BY DEF Frame, DrainFrame
    <2> HIDE DEF f
    <2>3. /\ Under(<<f>> \o s, r) /\ (Settling(<<f>> \o s, r) <=> Settling(s, r))
          /\ Suspended(<<f>> \o s, Frame("backoff", r)) => Suspended(s, Frame("backoff", r))
        BY <2>1, <2>2, UnderPush
    <2>4. stack' = <<f>> \o s
        BY <1>8 DEF f
    <2>5. Sound(drained, wire'[r], Settling(stack', r), Suspended(stack', Frame("backoff", r)), r \in active)
        BY <1>3, <2>3, <2>4 DEF Sound, Fit
    <2> QED BY <1>3, <1>4, <1>8, <2>3, <2>4, <2>5, Put
<1> QED BY <1>5, <1>6, <1>7, <1>8 DEF Drain, drained, quiet

LEMMA AttemptStartsCore ==
    ASSUME Core, NEW r \in Requests, NEW q, AttemptStarts(r, q), GoodRequest(q),
           q.accepted, ~q.terminal, q.physical = 0, q.attempt <= q.retries,
           ~Settling(stack, r), ~Suspended(stack, Frame("backoff", r)), r \in active', \A x \in Requests \ {r} : x \in active' <=> x \in active,
           RestType', UNCHANGED stack
    PROVE  Core'
<1> DEFINE s == [q EXCEPT !.retryTicker = FALSE, !.waiting = FALSE, !.attempt = @ + 1,
                       !.attached = TRUE, !.physical = @ + 1]
           c == IF q.mode = "Stream" THEN ResetStreamAttempt(s, TRUE) ELSE s
<1>1. /\ GoodRequest(s) /\ s.accepted /\ ~s.terminal /\ s.physical = 1 /\ s.attempt <= s.retries + 1
      /\ ~s.waiting /\ s.attached /\ ~s.retryTicker /\ s.mode = q.mode
    <2>1. q \in RequestType
        BY DEF GoodRequest
    <2>2. q.attempt + 1 \in 0 .. MaxRetries + 1 /\ q.physical + 1 = 1 /\ q.physical + 1 \in 0 .. 1
        BY <2>1, ServiceAssumption DEF RequestType
    <2>3. ASSUME NEW n \in 0 .. MaxRetries + 1, NEW m \in 0 .. 1
          PROVE  [q EXCEPT !.retryTicker = FALSE, !.waiting = FALSE, !.attempt = n,
                           !.attached = TRUE, !.physical = m] \in RequestType
        BY <2>1 DEF RequestType
    <2>4. s = [q EXCEPT !.retryTicker = FALSE, !.waiting = FALSE, !.attempt = q.attempt + 1,
                       !.attached = TRUE, !.physical = q.physical + 1]
        OBVIOUS
    <2>5. s \in RequestType
        BY <2>2, <2>3, <2>4, Zenon
    <2> QED BY <2>1, <2>2, <2>5 DEF GoodRequest, RequestType
<1> HIDE DEF s
<1>2. /\ GoodRequest(c) /\ c.accepted /\ ~c.terminal /\ c.physical = 1 /\ c.attempt <= c.retries + 1
      /\ ~c.waiting /\ c.attached /\ ~c.retryTicker
    BY <1>1, ResetIsGood
<1>3. req' = [req EXCEPT ![r] = c] /\ wire' = [wire EXCEPT ![r] = [NoWire EXCEPT !.open = TRUE]]
    BY DEF AttemptStarts, c, s
<1> HIDE DEF c
<1>4. WireMoves(r) /\ wire'[r].open
    BY <1>3, ServiceAssumption DEF WireMoves, Core, RestType, NoWire, WireType
<1>5. Under(stack', r) /\ ~Settling(stack', r)
    BY UnderSame DEF Core
<1>6. Sound(c, wire'[r], Settling(stack', r), Suspended(stack', Frame("backoff", r)), r \in active')
    BY <1>2, <1>4, <1>5 DEF Sound, Fit
<1> QED BY <1>2, <1>3, <1>4, <1>5, <1>6, Put

LEMMA SuspendedIsServed ==
    ASSUME NEW s, NEW f, Suspended(s, f) PROVE Serves(f) \subseteq Served(s)
BY DEF Suspended, Served

\* Nothing but the stack, and what was delivered, changes.
LEMMA StackOnly ==
    ASSUME Core, UNCHANGED <<req, wire, active>>, RestType', WellStacked(stack'),
           Served(stack') \subseteq Served(stack),
           \A x \in Requests :
               /\ Settling(stack', x) <=> Settling(stack, x)
               /\ Suspended(stack', Frame("backoff", x)) => Suspended(stack, Frame("backoff", x))
    PROVE  Core'
<1>1. ASSUME NEW x \in Requests PROVE Sounds(x)'
    <2>1. Sounds(x)
        BY DEF Core
    <2> QED BY <2>1 DEF Sounds, Sound, Fit
<1> QED BY <1>1 DEF Core

\* The call on top returns, and only what was delivered changes.
LEMMA PopCore ==
    ASSUME Core, NEW k, Running(k), k # "settle", stack' = Rest,
           UNCHANGED <<req, wire, active>>, RestType'
    PROVE  Core'
<1>1. WellStacked(stack) /\ WellStacked(stack') /\ Served(stack') \subseteq Served(stack)
    BY Pop DEF Core, Running, Idle, Rest
<1>2. \A x : Settling(stack', x) <=> Settling(stack, x)
    BY <1>1, Pop DEF Running, Idle, Rest
<1>3. \A g : Suspended(stack', g) => Suspended(stack, g)
    BY <1>1, Pop DEF Running, Idle, Rest
<1> QED BY <1>1, <1>2, <1>3, StackOnly

LEMMA UnacceptedIsNew ==
    ASSUME Core, NEW r \in Requests, ~req[r].accepted
    PROVE  /\ req[r] = NewRequest /\ wire[r] = NoWire /\ ~Settling(stack, r)
           /\ ~Suspended(stack, Frame("backoff", r)) /\ r \notin active
<1>1. Sounds(r)
    BY DEF Core
<1>2. r \notin Served(stack)
    BY DEF Core
<1>3. r \in Serves(Frame("backoff", r))
    BY DEF Serves, Frame
<1> QED BY <1>1, <1>2, <1>3, SuspendedIsServed DEF Sounds, Sound

LEMMA OpenWire == NoWire \in WireType /\ [NoWire EXCEPT !.open = TRUE] \in WireType
<1>1. NoWire \in WireType
    BY ServiceAssumption DEF NoWire, WireType, Codes
<1>2. ASSUME NEW w \in WireType PROVE [w EXCEPT !.open = TRUE] \in WireType
    BY DEF WireType
<1> QED BY <1>1, <1>2

LEMMA StartCore == ASSUME Core, NEW r \in Requests, Start(r) PROVE Core'
<1>1. CASE Reject(r)
    <2>1. Under(stack, r) /\ WellStacked(stack)
        BY UnderSame DEF Core
    <2>2. Delegate(r) \in Frames /\ Serves(Delegate(r)) = {} /\ Delegate(r).kind \notin Late \union {"settle"}
          /\ \A x : Frame("backoff", x) # Delegate(r)
        BY DEF Delegate, Frames, Serves, Late, Frame
    <2>3. /\ WellStacked(stack') /\ Served(stack') = Served(stack)
          /\ \A x : Settling(stack', x) <=> Settling(stack, x)
          /\ \A g : Suspended(stack', g) <=> g = Delegate(r) \/ Suspended(stack, g)
        BY <1>1, <2>1, <2>2, Push DEF Reject
    <2>4. RestType'
        BY <1>1 DEF Reject, Core, RestType
    <2> QED BY <1>1, <2>2, <2>3, <2>4, StackOnly DEF Reject
<1>2. CASE ~req[r].accepted /\ \E mode \in Modes : Admit(r, mode)
    <2> PICK mode \in Modes : Admit(r, mode)
        BY <1>2
    <2> DEFINE q == [req[r] EXCEPT !.accepted = TRUE, !.mode = mode]
    <2>1. /\ req[r] = NewRequest /\ wire[r] = NoWire /\ ~Settling(stack, r)
          /\ ~Suspended(stack, Frame("backoff", r)) /\ r \notin active
        BY <1>2, UnacceptedIsNew
    <2>2. tickers' \subseteq 1 .. MaxTickers /\ ticker' \in 0 .. MaxTickers
        BY DEF Admit, EnsureDeadlineTicker, FreeTickers, Core, RestType
    <2>3. GoodRequest(NewRequest)
        BY <2>1 DEF Core, Sounds, Sound
    <2>4. /\ GoodRequest(q) /\ q.accepted /\ ~q.terminal /\ q.physical = 0 /\ q.attempt = 0
          /\ q.retries = 0 /\ ~q.waiting
        <3>1. q \in RequestType
            BY <2>1, <2>3, ServiceAssumption DEF RequestType, GoodRequest
        <3>2. q.pending = <<>> /\ q.held = <<>>
            BY <2>1 DEF NewRequest
        <3> QED BY <2>1, <3>1, <3>2, ServiceAssumption DEF NewRequest, GoodRequest
    <2> HIDE DEF q
    <2>5. CASE AttemptStarts(r, q) /\ active' = active \union {r} /\ UNCHANGED <<stack, told>>
        <3>1. RestType'
            <4>1. [NoWire EXCEPT !.open = TRUE] \in WireType
                BY OpenWire
            <4>2. wire' \in [Requests -> WireType]
                BY <2>5, <4>1 DEF AttemptStarts, Core, RestType
            <4> QED BY <2>2, <2>5, <4>2 DEF Core, RestType, Admit
        <3>2. r \in active' /\ \A x \in Requests \ {r} : x \in active' <=> x \in active
            BY <2>5
        <3> QED BY <2>1, <2>4, <2>5, <3>1, <3>2, AttemptStartsCore
    <2>6. CASE AttemptFails(r, q, stack) /\ UNCHANGED wire
        <3> DEFINE c == [q EXCEPT !.waiting = FALSE, !.retryTicker = FALSE]
        <3>1. GoodRequest(c) /\ c.accepted /\ c.physical = 0 /\ c.attempt = 0 /\ c.retries = 0 /\ ~c.waiting
            <4>1. GoodRequest([q EXCEPT !.waiting = FALSE])
                BY <2>4, Fields
            <4>2. GoodRequest([[q EXCEPT !.waiting = FALSE] EXCEPT !.retryTicker = FALSE])
                BY <4>1, Fields
            <4> QED BY <2>4, <4>2 DEF GoodRequest, RequestType
        <3>2. Fit(c, wire'[r], Settling(stack, r))
            BY <2>1, <2>6, <3>1 DEF Fit, NoWire
        <3>3. Complete(r, c, "Failed", stack) /\ "Failed" \in Ends
            BY <2>6 DEF AttemptFails, Ends
        <3>4. WireMoves(r) /\ Under(stack, r)
            BY <2>6, UnderSame DEF Core, RestType, WireMoves
        <3> HIDE DEF c
        <3> QED BY <2>2, <3>2, <3>3, <3>4, CompleteCore DEF Admit
    <2> QED BY <2>5, <2>6 DEF Admit, q
<1> QED BY <1>1, <1>2 DEF Start

LEMMA DrainTaskCore == ASSUME Core, NEW r \in Requests, DrainTask(r) PROVE Core'
<1> DEFINE q == [req[r] EXCEPT !.drains = @ - 1]
<1>1. Sounds(r) /\ GoodRequest(req[r]) /\ req[r].drains - 1 \in Nat
    BY DEF Core, Sounds, Sound, DrainTask, GoodRequest, RequestType
<1>2. req[r].accepted
    BY <1>1 DEF Sounds, Sound, NewRequest, DrainTask
<1>3. GoodRequest(q)
    BY <1>1, Fields
<1>4. Under(<<>>, r) /\ stack = <<>>
    BY UnderIdle DEF DrainTask, Idle, Outcomes
<1>5. q.accepted /\ UNCHANGED wire
    BY <1>1, <1>2 DEF DrainTask, GoodRequest, RequestType
<1>6. Sound(q, wire'[r], Settling(<<>>, r), Suspended(<<>>, Frame("backoff", r)), r \in active)
    BY <1>1, <1>2, <1>3, <1>4, <1>5 DEF Sounds, Sound, Fit, GoodRequest, RequestType
<1>7. WireMoves(r)
    BY DEF DrainTask, WireMoves, Core, RestType
<1>8. Drain(r, q, <<>>)
    BY DEF DrainTask
<1> HIDE DEF q
<1> QED BY <1>4, <1>5, <1>6, <1>7, <1>8, DrainCore DEF DrainTask

LEMMA AbortCore ==
    ASSUME Core, NEW r \in Requests, NEW q, NEW how \in Ends, NEW s, Under(s, r),
           Complete(r, q, how, Abort(r, q) \o s), Fit(q, wire'[r], Settling(s, r)), WireMoves(r),
           UNCHANGED <<limit, tickers, ticker, heard>>
    PROVE  Core'
<1>1. Under(Abort(r, q) \o s, r) /\ (Settling(Abort(r, q) \o s, r) <=> Settling(s, r))
    BY AbortUnder
<1>2. Fit(q, wire'[r], Settling(Abort(r, q) \o s, r))
    BY <1>1 DEF Fit
<1>3. tickers' \subseteq 1 .. MaxTickers /\ ticker' \in 0 .. MaxTickers
    BY DEF Core, RestType
<1> QED BY <1>1, <1>2, <1>3, CompleteCore

\* A running request as it is.
LEMMA RunningFit ==
    ASSUME Core, NEW r \in active
    PROVE  /\ r \in Requests /\ req[r].accepted /\ ~req[r].terminal /\ GoodRequest(req[r])
           /\ req[r] \in RequestType /\ Fit(req[r], wire[r], Settling(stack, r)) /\ Sounds(r)
BY DEF Core, RestType, Sounds, Sound, GoodRequest

LEMMA TwoOver ==
    ASSUME NEW s \in Seq(Frames), NEW a \in Frames, NEW b \in Frames
    PROVE  <<a, b>> \o s = <<a>> \o (<<b>> \o s)
<1> DEFINE t == <<a, b>> \o s
           u == <<a>> \o (<<b>> \o s)
<1>1. t \in Seq(Frames) /\ Len(t) = Len(s) + 2 /\ t[1] = a /\ t[2] = b
      /\ \A i \in 3 .. Len(s) + 2 : t[i] = s[i - 2]
    OBVIOUS
<1>2. <<b>> \o s \in Seq(Frames) /\ Len(<<b>> \o s) = Len(s) + 1 /\ (<<b>> \o s)[1] = b
      /\ \A i \in 2 .. Len(s) + 1 : (<<b>> \o s)[i] = s[i - 1]
    OBVIOUS
<1>3. u \in Seq(Frames) /\ Len(u) = Len(s) + 2 /\ u[1] = a /\ u[2] = b
      /\ \A i \in 3 .. Len(s) + 2 : u[i] = s[i - 2]
    BY <1>2
<1> HIDE DEF t, u
<1>4. \A i \in 1 .. Len(s) + 2 : t[i] = u[i]
    BY <1>1, <1>3
<1>5. t = [i \in 1 .. Len(s) + 2 |-> t[i]] /\ u = [i \in 1 .. Len(s) + 2 |-> u[i]]
    BY <1>1, <1>3
<1>6. t = u
    BY <1>4, <1>5
<1> QED BY <1>6 DEF t, u

\* The call on top goes on with less to do.
LEMMA ReFrame ==
    ASSUME Core, NEW k \in {"drain", "finish"}, Running(k), NEW g \in Frames,
           g.kind = k, g.r = Head(stack).r
    PROVE  LET r == Head(stack).r
               t == <<g>> \o Rest
           IN /\ Under(t, r) /\ (Settling(t, r) <=> Settling(stack, r))
              /\ \A h : Suspended(t, h) => h = g \/ Suspended(stack, h)
              /\ t \in Seq(Frames)
<1> DEFINE r == Head(stack).r
           t == <<g>> \o Rest
<1>1. /\ Under(Rest, r) /\ (Settling(Rest, r) <=> Settling(stack, r)) /\ r \in Requests
      /\ Serves(Head(stack)) = {r} /\ r \in Served(stack)
      /\ \A h : Suspended(Rest, h) => Suspended(stack, h)
      /\ k \in Late => Rest = <<Settle(r)>>
    <2>1. /\ Under(Rest, r) /\ (Settling(Rest, r) <=> Settling(stack, r))
          /\ Head(stack) \in Frames /\ Head(stack).kind = k
          /\ Serves(Head(stack)) \subseteq Served(stack)
          /\ \A h : Suspended(Rest, h) => Suspended(stack, h)
          /\ k \in Late => Rest = <<Settle(r)>>
        <3>1. WellStacked(stack) /\ k # "settle"
            BY DEF Core
        <3>2. Under(Rest, Head(stack).r) /\ (Settling(Rest, Head(stack).r) <=> Settling(stack, Head(stack).r))
            BY <3>1, UnderRest
        <3> QED BY <3>1, <3>2, TopFrame
    <2>2. r \in Requests /\ Serves(Head(stack)) = {r}
        BY <2>1, FrameKinds DEF Serves
    <2> QED BY <2>1, <2>2
<1>2. t \in Seq(Frames)
    BY <1>1 DEF Under, WellStacked
<1>3. CASE k = "drain"
    <2>1. Serves(g) = {r} /\ g.kind \notin Late \union {"settle"}
        BY <1>3 DEF Serves, Late
    <2> QED BY <1>1, <1>2, <2>1, UnderPush
<1>4. CASE k = "finish"
    <2>1. Rest = <<Settle(r)>> /\ g.kind \in Late
        BY <1>1, <1>4 DEF Late
    <2> HIDE DEF r
    <2>2. /\ WellStacked(t) /\ Served(t) = {r}
          /\ \A x : Settling(t, x) <=> Settle(x) = Settle(r)
          /\ \A h : Suspended(t, h) <=> h = g \/ h = Settle(r)
        BY <1>1, <2>1, Second DEF r
    <2>3. /\ Served(Rest) = {r}
          /\ \A x : Settling(Rest, x) <=> Settle(x) = Settle(r)
          /\ \A h : Suspended(Rest, h) <=> h = Settle(r)
        BY <1>1, <2>1, Base
    <2>4. \A x : Frame("backoff", x) # g /\ Frame("backoff", x) # Settle(r)
        BY <1>4 DEF Frame, Settle
    <2> HIDE DEF t
    <2>5. Under(t, r) /\ (Settling(t, r) <=> Settling(stack, r))
          /\ \A h : Suspended(t, h) => h = g \/ Suspended(stack, h)
        BY <1>1, <2>2, <2>3, <2>4 DEF Under
    <2> QED BY <1>2, <2>5 DEF t, r
<1> QED BY <1>3, <1>4

LEMMA HearCore ==
    ASSUME Core, NEW k \in {"drain", "finish"}, Running(k), Head(stack).r \in active,
           Head(stack).events # <<>>, ProcessSseEvent(Head(stack)),
           UNCHANGED <<limit, tickers, ticker, wire>>
    PROVE  Core'
<1> DEFINE f == Head(stack)
           r == Head(stack).r
           n == Head(f.events)
           g == [f EXCEPT !.events = Tail(@)]
           q == [req[r] EXCEPT !.saw = TRUE, !.ended = @ \/ n = StreamLength]
<1>1. f \in Frames /\ f.kind = k
    BY TopFrame DEF Core
<1>2. f.events \in Seq(Events) /\ n \in Events /\ Tail(f.events) \in Seq(Events)
    BY <1>1, FrameKinds
<1>3. g \in Frames /\ g.kind = k /\ g.r = r
    BY <1>1, <1>2 DEF Frames
<1>4. \A x : Frame("backoff", x) # g /\ Frame("backoff", x) # Delegate(r)
    BY <1>3 DEF Frame, Delegate
<1>5. stack' = <<Delegate(r), g>> \o Rest /\ req' = [req EXCEPT ![r] = q]
      /\ heard' = [heard EXCEPT ![r] = Append(@, n)] /\ UNCHANGED <<active, told>>
    BY DEF ProcessSseEvent
<1>6. /\ r \in Requests /\ req[r].accepted /\ ~req[r].terminal /\ GoodRequest(req[r])
      /\ req[r] \in RequestType /\ Sounds(r)
    BY RunningFit
<1> HIDE DEF g
<1>7. /\ Under(<<g>> \o Rest, r) /\ (Settling(<<g>> \o Rest, r) <=> Settling(stack, r))
      /\ \A h : Suspended(<<g>> \o Rest, h) => h = g \/ Suspended(stack, h)
    BY <1>3, ReFrame
<1>8. Delegate(r) \in Frames
    BY <1>6 DEF Delegate, Frames
<1>9. stack' = <<Delegate(r)>> \o (<<g>> \o Rest)
    <2>1. Rest \in Seq(Frames)
        BY UnderRest DEF Under, WellStacked, Core
    <2> QED BY <1>3, <1>5, <1>8, <2>1, TwoOver
<1>10. /\ Under(stack', r) /\ (Settling(stack', r) <=> Settling(stack, r))
       /\ Suspended(stack', Frame("backoff", r)) => Suspended(stack, Frame("backoff", r))
    BY <1>4, <1>6, <1>7, <1>9, DelegateUnder
<1>11. /\ GoodRequest(q)
       /\ Sound(q, wire'[r], Settling(stack', r), Suspended(stack', Frame("backoff", r)), r \in active')
    <2> DEFINE c(b) == [req[r] EXCEPT !.saw = TRUE, !.ended = b]
    <2>1. q = c(req[r].ended \/ n = StreamLength)
        OBVIOUS
    <2>2. ASSUME NEW b \in BOOLEAN PROVE c(b) \in RequestType
        BY <1>6 DEF RequestType
    <2>3. q \in RequestType
        BY <2>1, <2>2
    <2>4. GoodRequest(q)
        BY <1>6, <2>3 DEF GoodRequest, RequestType
    <2> QED BY <1>5, <1>6, <1>10, <2>4 DEF Sounds, Sound, Fit, GoodRequest, RequestType
<1>12. q.accepted /\ WireMoves(r)
    BY <1>6 DEF RequestType, WireMoves, Core, RestType
<1> HIDE DEF q
<1>13. RestType'
    BY <1>2, <1>5 DEF Core, RestType
<1> QED BY <1>5, <1>6, <1>10, <1>11, <1>12, <1>13, Put

LEMMA ParsedType ==
    ASSUME NEW q, GoodRequest(q), NEW chunk \in FullChunks
    PROVE  LET p == Parsed(q, chunk) IN
           p.events \in Seq(Events) /\ p.held \in Seq(Events) /\ Len(p.held) <= 1
<1> DEFINE all == q.held \o chunk.events
<1>1. all \in Seq(Events) /\ Len(all) \in Nat \ {0}
    BY DEF GoodRequest, RequestType, FullChunks
<1> HIDE DEF all
<1>2. Front(all) \in Seq(Events) /\ <<Last(all)>> \in Seq(Events) /\ Len(<<Last(all)>>) = 1
    BY <1>1 DEF Front, Last
<1>3. <<>> \in Seq(Events) /\ Len(<<>>) = 0
    OBVIOUS
<1> QED BY <1>1, <1>2, <1>3 DEF Parsed, all

LEMMA TakeChunkCore ==
    ASSUME Core, Running("drain"), Head(stack).r \in active, Head(stack).chunks # <<>>,
           TakeChunk(Head(stack)), UNCHANGED <<limit, tickers, ticker, wire>>
    PROVE  Core'
<1> DEFINE f == Head(stack)
           r == Head(stack).r
           p == IF f.code = "error" THEN [events |-> <<>>, held |-> req[f.r].held]
                ELSE Parsed(req[f.r], Head(f.chunks))
           g == [f EXCEPT !.chunks = Tail(@), !.events = p.events]
           q == [req[r] EXCEPT !.held = p.held]
<1>1. f \in Frames /\ f.kind = "drain" /\ WellStacked(stack)
    BY TopFrame DEF Core
<1>2. f.chunks \in Seq(FullChunks) /\ Head(f.chunks) \in FullChunks /\ Tail(f.chunks) \in Seq(FullChunks)
    BY <1>1, FrameKinds
<1>3. /\ r \in Requests /\ req[r].accepted /\ ~req[r].terminal /\ GoodRequest(req[r])
      /\ req[r] \in RequestType /\ Sounds(r)
    BY RunningFit
<1>4. p.events \in Seq(Events) /\ p.held \in Seq(Events) /\ Len(p.held) <= 1
    <2>1. CASE f.code = "error"
        BY <1>3, <2>1 DEF GoodRequest, RequestType
    <2>2. CASE f.code # "error"
        BY <1>2, <1>3, <2>2, ParsedType
    <2> QED BY <2>1, <2>2
<1>5. stack' = <<g>> \o Rest /\ req' = [req EXCEPT ![r] = q] /\ UNCHANGED <<active, heard, told>>
    <2>1. req' = [req EXCEPT ![r].held = p.held]
        BY DEF TakeChunk
    <2> QED BY <2>1 DEF TakeChunk
<1> HIDE DEF p
<1>6. g \in Frames /\ g.kind = "drain" /\ g.r = r
    <2>1. ASSUME NEW cs \in Seq(FullChunks), NEW es \in Seq(Events)
          PROVE  [f EXCEPT !.chunks = cs, !.events = es] \in Frames
        BY <1>1 DEF Frames
    <2>2. g = [f EXCEPT !.chunks = Tail(f.chunks), !.events = p.events]
        OBVIOUS
    <2>3. g \in Frames
        BY <1>2, <1>4, <2>1, <2>2, Zenon
    <2> QED BY <1>1, <2>3 DEF Frames
<1> HIDE DEF g
<1>7. GoodRequest(q)
    BY <1>3, <1>4, Fields
<1>8. /\ Under(<<g>> \o Rest, r) /\ (Settling(<<g>> \o Rest, r) <=> Settling(stack, r))
      /\ \A h : Suspended(<<g>> \o Rest, h) => h = g \/ Suspended(stack, h)
    BY <1>6, ReFrame
<1>9. \A x : Frame("backoff", x) # g
    BY <1>6 DEF Frame
<1>10. q.accepted /\ WireMoves(r) /\ RestType'
    BY <1>3, <1>5 DEF RequestType, WireMoves, Core, RestType
<1>11. Sound(q, wire'[r], Settling(stack', r), Suspended(stack', Frame("backoff", r)), r \in active')
    BY <1>3, <1>5, <1>7, <1>8, <1>9 DEF Sounds, Sound, Fit, GoodRequest, RequestType
<1> HIDE DEF q
<1> QED BY <1>3, <1>5, <1>8, <1>10, <1>11, Put

LEMMA StreamFailsCore ==
    ASSUME Core, NEW k \in {"drain", "finish"}, Running(k), Head(stack).r \in active,
           StreamFails(Head(stack)), UNCHANGED <<limit, tickers, ticker, wire>>
    PROVE  Core'
<1> DEFINE r == Head(stack).r
<1>1. r \in Requests /\ Fit(req[r], wire[r], Settling(stack, r))
    BY RunningFit
<1>2. Under(Rest, r) /\ (Settling(Rest, r) <=> Settling(stack, r))
    BY UnderRest DEF Core
<1>3. Fit(req[r], wire'[r], Settling(Rest, r)) /\ WireMoves(r)
    BY <1>1, <1>2 DEF Fit, WireMoves, Core, RestType
<1>4. Complete(r, req[r], "Failed", Abort(r, req[r]) \o Rest) /\ UNCHANGED heard
    BY DEF StreamFails
<1> QED BY <1>1, <1>2, <1>3, <1>4, AbortCore DEF Ends

LEMMA DrainStepCore == ASSUME Core, DrainStep PROVE Core'
<1> DEFINE f == Head(stack)
<1>1. Running("drain") /\ UNCHANGED <<limit, tickers, ticker, wire>>
    BY DEF DrainStep
<1>2. CASE stack' = Rest /\ UNCHANGED <<req, active, heard, told>>
    BY <1>1, <1>2, PopCore DEF Core, RestType
<1>3. CASE f.r \in active /\ f.events # <<>> /\ ProcessSseEvent(f)
    BY <1>1, <1>3, HearCore
<1>4. CASE f.r \in active /\ StreamFails(f)
    BY <1>1, <1>4, StreamFailsCore
<1>5. CASE f.r \in active /\ f.chunks # <<>> /\ TakeChunk(f)
    BY <1>1, <1>5, TakeChunkCore
<1> QED BY <1>2, <1>3, <1>4, <1>5 DEF DrainStep

LEMMA RetryOrFailCore ==
    ASSUME Core, NEW r \in active, NEW q, Under(<<Settle(r)>>, r),
           RetryOrFail(r, q, <<Settle(r)>>), Fit(q, wire'[r], TRUE), WireMoves(r),
           ~q.terminal, UNCHANGED <<limit, tickers, ticker, heard>>
    PROVE  Core'
<1>1. r \in Requests /\ Settling(<<Settle(r)>>, r)
    BY Base DEF Core, RestType
<1>2. CASE TryScheduleRetry(r, q, <<Settle(r)>>)
    BY <1>1, <1>2, RetryCore
<1>3. CASE Complete(r, q, "Failed", <<Settle(r)>>)
    <2>1. Fit(q, wire'[r], Settling(<<Settle(r)>>, r))
        BY <1>1 DEF Fit
    <2>2. tickers' \subseteq 1 .. MaxTickers /\ ticker' \in 0 .. MaxTickers
        BY DEF Core, RestType
    <2> QED BY <1>1, <1>3, <2>1, <2>2, CompleteCore DEF Ends
<1> QED BY <1>2, <1>3 DEF RetryOrFail

\* A request whose transport settles has no retry scheduled.
LEMMA SettlingFit ==
    ASSUME Core, NEW k \in {"response", "finish"}, Running(k), Head(stack).r \in active,
           UNCHANGED wire
    PROVE  LET r == Head(stack).r IN
           /\ r \in Requests /\ Rest = <<Settle(r)>> /\ Under(Rest, r) /\ Settling(Rest, r)
           /\ Settling(stack, r) /\ WireMoves(r)
           /\ Fit(req[r], wire'[r], TRUE)
           /\ Fit([req[r] EXCEPT !.attached = FALSE], wire'[r], TRUE)
<1> DEFINE r == Head(stack).r
           q == [req[r] EXCEPT !.attached = FALSE]
<1>1. /\ r \in Requests /\ GoodRequest(req[r]) /\ req[r] \in RequestType
      /\ Fit(req[r], wire[r], Settling(stack, r))
    BY RunningFit
<1>2. Rest = <<Settle(r)>>
    BY TopFrame DEF Core, Late
<1>3. Under(Rest, r) /\ (Settling(Rest, r) <=> Settling(stack, r))
    BY UnderRest DEF Core
<1>4. Settling(Rest, r)
    BY <1>1, <1>2, Base
<1>5. Fit(req[r], wire'[r], TRUE)
    BY <1>1, <1>3, <1>4 DEF Fit
<1>6. GoodRequest(q)
    BY <1>1, Fields
<1>7. Fit(q, wire'[r], TRUE)
    BY <1>1, <1>5, <1>6 DEF Fit, RequestType
<1>8. WireMoves(r)
    BY DEF WireMoves, Core, RestType
<1> QED BY <1>1, <1>2, <1>3, <1>4, <1>5, <1>7, <1>8

\* The parser's last event becomes a call of its own.
LEMMA VerdictBegins ==
    ASSUME Core, NEW r \in active, Rest = <<Settle(r)>>, Under(Rest, r), WireMoves(r),
           NEW q, q = [req[r] EXCEPT !.attached = FALSE], Fit(q, wire'[r], TRUE),
           req' = [req EXCEPT ![r] = [q EXCEPT !.held = <<>>]],
           stack' = <<[kind |-> "finish", r |-> r, events |-> q.held]>> \o Rest,
           UNCHANGED <<active, limit, tickers, ticker, heard, told>>
    PROVE  Core'
<1> DEFINE g == [kind |-> "finish", r |-> r, events |-> q.held]
           c == [q EXCEPT !.held = <<>>]
<1>1. /\ r \in Requests /\ req[r].accepted /\ ~req[r].terminal
      /\ req[r] \in RequestType /\ Sounds(r)
    BY RunningFit
<1>2. GoodRequest(q) /\ q \in RequestType
    BY DEF Fit, GoodRequest
<1>3. g \in Frames /\ g.kind = "finish" /\ g.kind \in Late /\ g.r = r
    BY <1>1, <1>2 DEF RequestType, Frames, Late
<1>4. stack' = <<g>> \o <<Settle(r)>>
    OBVIOUS
<1>5. \A x : Frame("backoff", x) # g /\ Frame("backoff", x) # Settle(r)
    BY DEF Frame, Settle
<1> HIDE DEF g
<1>6. /\ WellStacked(stack') /\ Served(stack') = {r}
      /\ \A x : Settling(stack', x) <=> Settle(x) = Settle(r)
      /\ \A h : Suspended(stack', h) <=> h = g \/ h = Settle(r)
    <2> DEFINE t == <<g>> \o <<Settle(r)>>
    <2>1. /\ WellStacked(t) /\ Served(t) = {r}
          /\ \A x : Settling(t, x) <=> Settle(x) = Settle(r)
          /\ \A h : Suspended(t, h) <=> h = g \/ h = Settle(r)
        BY <1>1, <1>3, Second
    <2>2. stack' = t
        BY <1>4
    <2> QED BY <2>1, <2>2
<1>7. \A x : Settling(Rest, x) <=> Settle(x) = Settle(r)
    BY <1>1, Base
<1>8. Under(stack', r) /\ Settling(stack', r) /\ ~Suspended(stack', Frame("backoff", r))
    BY <1>5, <1>6, <1>7 DEF Under
<1>9. GoodRequest(c)
    <2>1. <<>> \in Seq(Events) /\ Len(<<>>) <= 1
        OBVIOUS
    <2> QED BY <1>2, <2>1, Fields
<1>10. /\ c.retryTicker = req[r].retryTicker /\ c.waiting = req[r].waiting
       /\ c.terminal = req[r].terminal
    BY <1>1 DEF RequestType
<1>11. /\ c.physical = q.physical /\ c.attempt = q.attempt /\ c.retries = q.retries
       /\ c.accepted = q.accepted /\ c.waiting = q.waiting
    BY <1>2 DEF RequestType
<1>12. req' = [req EXCEPT ![r] = c]
    OBVIOUS
<1> HIDE DEF c
<1>13. Fit(c, wire'[r], Settling(stack', r))
    BY <1>8, <1>9, <1>11 DEF Fit
<1>14. Sound(c, wire'[r], Settling(stack', r), Suspended(stack', Frame("backoff", r)), r \in active')
    BY <1>1, <1>8, <1>9, <1>10, <1>13 DEF Sounds, Sound, Fit
<1>15. RestType' /\ c.accepted
    BY <1>13 DEF Core, RestType, WireMoves, Fit
<1> QED BY <1>1, <1>8, <1>12, <1>14, <1>15, Put

LEMMA ResponseStepCore == ASSUME Core, ResponseStep PROVE Core'
<1> DEFINE f == Head(stack)
           r == Head(stack).r
           q == [req[r] EXCEPT !.attached = FALSE]
<1>1. Running("response") /\ UNCHANGED <<limit, tickers, ticker, wire, heard>>
    BY DEF ResponseStep
<1>2. CASE stack' = Rest /\ UNCHANGED <<req, active, told>>
    BY <1>1, <1>2, PopCore DEF Core, RestType
<1>3. ASSUME r \in active
      PROVE  /\ r \in Requests /\ Rest = <<Settle(r)>> /\ Under(Rest, r) /\ Settling(Rest, r)
             /\ WireMoves(r) /\ Fit(q, wire'[r], TRUE) /\ ~q.terminal /\ ~wire'[r].open
             /\ GoodRequest(q) /\ q \in RequestType
    <2>1. /\ r \in Requests /\ Rest = <<Settle(r)>> /\ Under(Rest, r) /\ Settling(Rest, r)
          /\ WireMoves(r) /\ Fit(q, wire'[r], TRUE)
        BY <1>1, <1>3, SettlingFit
    <2>2. ~req[r].terminal /\ req[r] \in RequestType
        BY <1>3, RunningFit
    <2>3. ~q.terminal
        BY <2>2 DEF RequestType
    <2> QED BY <2>1, <2>3 DEF Fit, GoodRequest
<1>4. CASE r \in active /\ RetryOrFail(r, q, Rest)
    <2> HIDE DEF q, r
    <2> QED BY <1>1, <1>3, <1>4, RetryOrFailCore
<1>5. CASE r \in active /\ Complete(r, q, "Failed", Rest)
    <2>1. Fit(q, wire'[r], Settling(Rest, r))
        BY <1>3, <1>5 DEF Fit
    <2>2. tickers' \subseteq 1 .. MaxTickers /\ ticker' \in 0 .. MaxTickers
        BY <1>1 DEF Core, RestType
    <2> HIDE DEF q, r
    <2> QED BY <1>1, <1>3, <1>5, <2>1, <2>2, CompleteCore DEF Ends
<1>6. CASE /\ r \in active
           /\ req' = [req EXCEPT ![r] = [q EXCEPT !.held = <<>>]]
           /\ stack' = <<[kind |-> "finish", r |-> r, events |-> q.held]>> \o Rest
           /\ UNCHANGED <<active, told>>
    <2>1. q = [req[r] EXCEPT !.attached = FALSE]
        OBVIOUS
    <2> HIDE DEF q, r
    <2> QED BY <1>1, <1>3, <1>6, <2>1, VerdictBegins
<1> QED BY <1>2, <1>4, <1>5, <1>6 DEF ResponseStep

LEMMA FinishStepCore == ASSUME Core, FinishStep PROVE Core'
<1> DEFINE f == Head(stack)
           r == Head(stack).r
<1>1. Running("finish") /\ UNCHANGED <<limit, tickers, ticker, wire>>
    BY DEF FinishStep
<1>2. CASE stack' = Rest /\ UNCHANGED <<req, active, heard, told>>
    BY <1>1, <1>2, PopCore DEF Core, RestType
<1>3. CASE f.r \in active /\ f.events # <<>> /\ ProcessSseEvent(f)
    BY <1>1, <1>3, HearCore
<1>4. CASE f.r \in active /\ StreamFails(f)
    BY <1>1, <1>4, StreamFailsCore
<1>5. ASSUME r \in active
      PROVE  /\ r \in Requests /\ Rest = <<Settle(r)>> /\ Under(Rest, r) /\ Settling(Rest, r)
             /\ WireMoves(r) /\ Fit(req[r], wire'[r], TRUE) /\ ~req[r].terminal
    BY <1>1, <1>5, SettlingFit, RunningFit
<1>6. CASE r \in active /\ Complete(r, req[r], "Completed", Rest) /\ UNCHANGED heard
    <2>1. Fit(req[r], wire'[r], Settling(Rest, r))
        BY <1>5, <1>6 DEF Fit
    <2>2. tickers' \subseteq 1 .. MaxTickers /\ ticker' \in 0 .. MaxTickers
        BY <1>1 DEF Core, RestType
    <2> HIDE DEF r
    <2> QED BY <1>1, <1>5, <1>6, <2>1, <2>2, CompleteCore DEF Ends
<1>7. CASE r \in active /\ RetryOrFail(r, req[r], Rest) /\ UNCHANGED heard
    <2> HIDE DEF r
    <2> QED BY <1>1, <1>5, <1>7, RetryOrFailCore
<1> QED BY <1>2, <1>3, <1>4, <1>6, <1>7 DEF FinishStep

\* The life of r is as it was.
Alike(c, q) ==
    /\ GoodRequest(c)
    /\ c.accepted = q.accepted /\ c.terminal = q.terminal /\ c.attempt = q.attempt
    /\ c.retries = q.retries /\ c.physical = q.physical /\ c.waiting = q.waiting
    /\ c.retryTicker = q.retryTicker /\ c.attached = q.attached

LEMMA AlikeCore ==
    ASSUME Core, NEW r \in Requests, req[r].accepted, NEW c, Alike(c, req[r]),
           req' = [req EXCEPT ![r] = c], WireMoves(r), wire'[r].open = wire[r].open,
           UNCHANGED <<active, stack>>, RestType'
    PROVE  Core'
<1>1. Sounds(r)
    BY DEF Core
<1>2. Sound(c, wire'[r], Settling(stack', r), Suspended(stack', Frame("backoff", r)), r \in active')
    BY <1>1 DEF Alike, Sounds, Sound, Fit
<1>3. Under(stack', r) /\ c.accepted
    BY UnderSame DEF Core, Alike
<1> QED BY <1>2, <1>3, Put

LEMMA ScheduleIsAlike ==
    ASSUME NEW q, GoodRequest(q) PROVE Alike(ScheduleDrain(q), q)
<1>1. q \in RequestType
    BY DEF GoodRequest
<1>2. CASE q.drainScheduled
    BY <1>2 DEF ScheduleDrain, Alike
<1>3. CASE ~q.drainScheduled
    <2> DEFINE c == [q EXCEPT !.drainScheduled = TRUE, !.posting = TRUE]
    <2>1. GoodRequest([q EXCEPT !.drainScheduled = TRUE])
        BY Fields
    <2>2. GoodRequest([[q EXCEPT !.drainScheduled = TRUE] EXCEPT !.posting = TRUE])
        BY <2>1, Fields
    <2>3. Alike(c, q)
        BY <1>1, <2>2 DEF Alike, RequestType
    <2> QED BY <1>3, <2>3 DEF ScheduleDrain
<1> QED BY <1>2, <1>3

LEMMA ReceiveChunkCore == ASSUME Core, NEW r \in Requests, ReceiveChunk(r) PROVE Core'
<1>1. Sounds(r) /\ GoodRequest(req[r]) /\ req[r].accepted /\ req[r] \in RequestType
    BY DEF Core, Sounds, Sound, ReceiveChunk, NoWire, GoodRequest
<1>2. PICK chunk \in NextChunks(wire[r].sent) :
        /\ wire' = [wire EXCEPT ![r].sent = Last(chunk.events)]
        /\ LET q == req[r]
           IN req' = [req EXCEPT ![r] = ScheduleDrain(
                         IF Len(q.pending) >= QueueCapacity
                         THEN [q EXCEPT !.accept = FALSE, !.overflowed = TRUE]
                         ELSE [q EXCEPT !.pending = Append(@, chunk)])]
    BY DEF ReceiveChunk
<1>3. wire[r].sent \in 0 .. StreamLength
    BY DEF Core, RestType, WireType
<1>4. chunk \in FullChunks /\ Last(chunk.events) \in 0 .. StreamLength
    <2>1. PICK es \in {s \in {<<wire[r].sent + 1>>, <<wire[r].sent + 1, wire[r].sent + 2>>} :
                          Last(s) <= StreamLength}, o \in BOOLEAN :
             chunk = [events |-> es, open |-> o]
        BY <1>2 DEF NextChunks
    <2>2. CASE es = <<wire[r].sent + 1>>
        <3>1. Last(es) = wire[r].sent + 1 /\ Last(es) <= StreamLength
            BY <2>1, <2>2 DEF Last
        <3>2. es \in Seq(Events) \ {<<>>}
            BY <1>3, <2>2, <3>1, ServiceAssumption DEF Events
        <3> QED BY <1>3, <2>1, <3>1, <3>2, ServiceAssumption DEF FullChunks
    <2>3. CASE es = <<wire[r].sent + 1, wire[r].sent + 2>>
        <3>1. Last(es) = wire[r].sent + 2 /\ Last(es) <= StreamLength
            BY <2>1, <2>3 DEF Last
        <3>2. es \in Seq(Events) \ {<<>>}
            BY <1>3, <2>3, <3>1, ServiceAssumption DEF Events
        <3> QED BY <1>3, <2>1, <3>1, <3>2, ServiceAssumption DEF FullChunks
    <2> QED BY <2>1, <2>2, <2>3
<1> DEFINE dropped == [req[r] EXCEPT !.accept = FALSE, !.overflowed = TRUE]
           queued == [req[r] EXCEPT !.pending = Append(req[r].pending, chunk)]
<1>5. dropped \in RequestType /\ Alike(dropped, req[r])
    <2>1. dropped \in RequestType
        BY <1>1 DEF RequestType
    <2> QED BY <1>1, <2>1 DEF Alike, GoodRequest, RequestType
<1>6. Len(req[r].pending) < QueueCapacity => Alike(queued, req[r])
    <2>1. Append(req[r].pending, chunk) \in Seq(FullChunks)
          /\ Len(Append(req[r].pending, chunk)) = Len(req[r].pending) + 1
        BY <1>1, <1>4 DEF GoodRequest
    <2>2. ASSUME NEW p \in Seq(FullChunks), Len(p) <= QueueCapacity
          PROVE  GoodRequest([req[r] EXCEPT !.pending = p])
        BY <1>1, <2>2, Fields
    <2>3. queued = [req[r] EXCEPT !.pending = Append(req[r].pending, chunk)]
        OBVIOUS
    <2>4. Len(req[r].pending) < QueueCapacity => GoodRequest(queued)
        <3>1. Len(req[r].pending) < QueueCapacity => Len(Append(req[r].pending, chunk)) <= QueueCapacity
            BY <1>1, <2>1, ServiceAssumption DEF GoodRequest
        <3> QED BY <2>1, <2>2, <2>3, <3>1, Zenon
    <2> QED BY <1>1, <2>4 DEF Alike, RequestType
<1> DEFINE c == IF Len(req[r].pending) >= QueueCapacity THEN dropped ELSE queued
<1>7. Alike(c, req[r])
    <2>1. Len(req[r].pending) \in Nat
        BY <1>1 DEF GoodRequest
    <2> HIDE DEF dropped, queued
    <2> QED BY <1>5, <1>6, <2>1, ServiceAssumption
<1>8. req' = [req EXCEPT ![r] = ScheduleDrain(c)]
    BY <1>2, Zenon
<1> HIDE DEF c
<1>9. Alike(ScheduleDrain(c), req[r])
    BY <1>7, ScheduleIsAlike DEF Alike
<1>10. wire' \in [Requests -> WireType] /\ WireMoves(r) /\ wire'[r].open = wire[r].open
    <2>1. ASSUME NEW w \in WireType, NEW n \in 0 .. StreamLength
          PROVE  [w EXCEPT !.sent = n] \in WireType /\ [w EXCEPT !.sent = n].open = w.open
        BY DEF WireType
    <2> QED BY <1>2, <1>4, <2>1 DEF WireMoves, Core, RestType
<1>11. RestType' /\ UNCHANGED <<active, stack>>
    BY <1>10 DEF ReceiveChunk, Core, RestType
<1> QED BY <1>1, <1>8, <1>9, <1>10, <1>11, AlikeCore

LEMMA ReceiveStatusCore == ASSUME Core, NEW r \in Requests, ReceiveStatus(r) PROVE Core'
<1>1. Sounds(r) /\ GoodRequest(req[r]) /\ req[r].accepted /\ req[r] \in RequestType
    BY DEF Core, Sounds, Sound, ReceiveStatus, NoWire, GoodRequest
<1>2. PICK code \in {"ok", "error"} :
        /\ wire' = [wire EXCEPT ![r].status = code]
        /\ LET q == [req[r] EXCEPT !.status = code]
           IN req' = [req EXCEPT ![r] = IF q.pending # <<>> THEN ScheduleDrain(q) ELSE q]
    BY DEF ReceiveStatus
<1> DEFINE q == [req[r] EXCEPT !.status = code]
           c == IF q.pending # <<>> THEN ScheduleDrain(q) ELSE q
<1>3. GoodRequest(q)
    BY <1>1, Fields DEF Codes
<1>4. Alike(q, req[r])
    BY <1>1, <1>3 DEF Alike, RequestType
<1>5. req' = [req EXCEPT ![r] = c]
    BY <1>2
<1>6. Alike(c, req[r])
    <2> HIDE DEF q
    <2> QED BY <1>3, <1>4, ScheduleIsAlike DEF Alike
<1> HIDE DEF c
<1>7. wire' \in [Requests -> WireType] /\ WireMoves(r) /\ wire'[r].open = wire[r].open
    <2>1. ASSUME NEW w \in WireType, NEW n \in Codes
          PROVE  [w EXCEPT !.status = n] \in WireType /\ [w EXCEPT !.status = n].open = w.open
        BY DEF WireType
    <2> QED BY <1>2, <2>1 DEF WireMoves, Core, RestType, Codes
<1>8. RestType' /\ UNCHANGED <<active, stack>>
    BY <1>7 DEF ReceiveStatus, Core, RestType
<1> QED BY <1>1, <1>5, <1>6, <1>7, <1>8, AlikeCore

LEMMA PostDrainCore == ASSUME Core, NEW r \in Requests, PostDrain(r) PROVE Core'
<1> DEFINE c == [req[r] EXCEPT !.posting = FALSE, !.drains = @ + 1]
<1>1. Sounds(r) /\ GoodRequest(req[r]) /\ req[r].accepted /\ req[r] \in RequestType
    BY DEF Core, Sounds, Sound, PostDrain, NewRequest, GoodRequest
<1>2. GoodRequest([req[r] EXCEPT !.posting = FALSE])
    BY <1>1, Fields
<1>3. Alike(c, req[r])
    <2>1. ASSUME NEW n \in Nat
          PROVE  GoodRequest([[req[r] EXCEPT !.posting = FALSE] EXCEPT !.drains = n])
        BY <1>2, Fields
    <2>2. req[r].drains + 1 \in Nat
        BY <1>1 DEF RequestType
    <2>3. c = [[req[r] EXCEPT !.posting = FALSE] EXCEPT !.drains = req[r].drains + 1]
        BY <1>1 DEF RequestType
    <2>4. GoodRequest(c)
        BY <2>1, <2>2, <2>3, Zenon
    <2> QED BY <1>1, <2>4 DEF Alike, RequestType
<1>4. req' = [req EXCEPT ![r] = c]
    BY DEF PostDrain, Core
<1>5. RestType' /\ UNCHANGED <<active, stack>> /\ WireMoves(r) /\ wire'[r].open = wire[r].open
    BY DEF PostDrain, Core, RestType, WireMoves
<1> HIDE DEF c
<1> QED BY <1>1, <1>3, <1>4, <1>5, AlikeCore

LEMMA DeadlinePassesCore == ASSUME Core, NEW r \in Requests, DeadlinePasses(r) PROVE Core'
<1> DEFINE c == [req[r] EXCEPT !.expired = TRUE]
<1>1. Sounds(r) /\ GoodRequest(req[r]) /\ req[r].accepted /\ req[r] \in RequestType
    BY RunningFit DEF DeadlinePasses
<1>2. GoodRequest(c)
    BY <1>1, Fields
<1>3. Alike(c, req[r])
    BY <1>1, <1>2 DEF Alike, RequestType
<1>4. req' = [req EXCEPT ![r] = c]
    BY DEF DeadlinePasses, Core
<1>5. RestType' /\ UNCHANGED <<active, stack>> /\ WireMoves(r) /\ wire'[r].open = wire[r].open
    BY DEF DeadlinePasses, Core, RestType, WireMoves
<1> HIDE DEF c
<1> QED BY <1>1, <1>3, <1>4, <1>5, AlikeCore

\* A completed transport has left the wire; its attempt settles with the call.
LEMMA ClosingFit ==
    ASSUME Core, NEW r \in Requests, Idle, wire[r].open,
           wire' = [wire EXCEPT ![r].open = FALSE]
    PROVE  /\ WireMoves(r) /\ ~wire'[r].open /\ Sounds(r) /\ req[r].accepted
           /\ GoodRequest(req[r]) /\ req[r] \in RequestType /\ ~req[r].waiting
           /\ Fit(req[r], wire'[r], TRUE) /\ (r \in active <=> ~req[r].terminal)
           /\ ~req[r].retryTicker /\ \A g : ~Suspended(stack, g)
<1>1. Sounds(r) /\ GoodRequest(req[r]) /\ req[r].accepted /\ req[r] \in RequestType
    BY DEF Core, Sounds, Sound, NoWire, GoodRequest
<1>2. wire' \in [Requests -> WireType] /\ WireMoves(r) /\ ~wire'[r].open
    <2>1. ASSUME NEW w \in WireType
          PROVE  [w EXCEPT !.open = FALSE] \in WireType /\ ~[w EXCEPT !.open = FALSE].open
        BY DEF WireType
    <2> QED BY <2>1 DEF WireMoves, Core, RestType
<1>3. Fit(req[r], wire'[r], TRUE) /\ ~req[r].waiting
    BY <1>1, <1>2 DEF Sounds, Sound, Fit
<1>4. \A g : ~Suspended(stack, g)
    BY DEF Suspended, Idle, Depths
<1> QED BY <1>1, <1>2, <1>3, <1>4 DEF Sounds, Sound

LEMMA StreamResponseCore ==
    ASSUME Core, NEW r \in Requests, Idle, wire[r].open, NEW outcome \in Outcomes,
           wire' = [wire EXCEPT ![r].open = FALSE], HandleStreamResponse(r, outcome),
           UNCHANGED <<limit, tickers, ticker, heard>>
    PROVE  Core'
<1> DEFINE s == <<ResponseFrame(r, outcome), Settle(r)>>
           q == [req[r] EXCEPT !.status = CodeOf(outcome, @)]
<1>1. /\ WireMoves(r) /\ ~wire'[r].open /\ Sounds(r) /\ req[r].accepted
      /\ GoodRequest(req[r]) /\ req[r] \in RequestType
      /\ Fit(req[r], wire'[r], TRUE) /\ (r \in active <=> ~req[r].terminal)
      /\ ~req[r].retryTicker
    BY ClosingFit
<1>2. Under(s, r) /\ Settling(s, r) /\ Under(<<Settle(r)>>, r) /\ Settling(<<Settle(r)>>, r)
    BY UnderIdle
<1>3. \A x : ~Suspended(s, Frame("backoff", x)) /\ ~Suspended(<<Settle(r)>>, Frame("backoff", x))
    BY Base DEF Suspended, Depths, At, Settle, Frame, ResponseFrame
<1> HIDE DEF s
<1>4. CASE /\ Drain(r, q, s)
    <2>1. CodeOf(outcome, req[r].status) \in Codes
        BY <1>1 DEF CodeOf, RequestType, Codes, Outcomes
    <2>2. GoodRequest(q)
        <3>1. \A n \in Codes : GoodRequest([req[r] EXCEPT !.status = n])
            BY <1>1, Fields
        <3>2. q = [req[r] EXCEPT !.status = CodeOf(outcome, req[r].status)]
            OBVIOUS
        <3> QED BY <2>1, <3>1, <3>2, Zenon
    <2>3. /\ q.accepted /\ q.physical = req[r].physical /\ q.attempt = req[r].attempt
          /\ q.retries = req[r].retries /\ q.waiting = req[r].waiting
          /\ q.retryTicker = req[r].retryTicker /\ q.terminal = req[r].terminal
        BY <1>1 DEF RequestType
    <2> HIDE DEF q
    <2>4. Sound(q, wire'[r], Settling(s, r), Suspended(s, Frame("backoff", r)), r \in active)
        BY <1>1, <1>2, <1>3, <2>2, <2>3 DEF Sound, Fit
    <2> QED BY <1>1, <1>2, <1>4, <2>3, <2>4, DrainCore
<1>5. CASE stack' = <<Settle(r)>> /\ UNCHANGED <<req, active, told>>
    <2>1. Sound(req[r], wire'[r], Settling(stack', r), Suspended(stack', Frame("backoff", r)), r \in active')
        BY <1>1, <1>2, <1>3, <1>5 DEF Sound, Fit
    <2>2. RestType'
        BY <1>1, <1>5 DEF Core, RestType, WireMoves
    <2>3. req' = [req EXCEPT ![r] = req[r]]
        BY <1>5 DEF Core
    <2> QED BY <1>1, <1>2, <1>5, <2>1, <2>2, <2>3, Put
<1> QED BY <1>4, <1>5 DEF HandleStreamResponse, s

LEMMA ChatResponseCore ==
    ASSUME Core, NEW r \in Requests, Idle, wire[r].open, NEW outcome,
           wire' = [wire EXCEPT ![r].open = FALSE], HandleChatCompletionResponse(r, outcome),
           UNCHANGED <<limit, tickers, ticker, heard>>
    PROVE  Core'
<1> DEFINE q == [req[r] EXCEPT !.attached = FALSE]
<1>1. /\ WireMoves(r) /\ ~wire'[r].open /\ Sounds(r) /\ req[r].accepted
      /\ GoodRequest(req[r]) /\ req[r] \in RequestType
      /\ Fit(req[r], wire'[r], TRUE) /\ (r \in active <=> ~req[r].terminal)
      /\ ~req[r].retryTicker
    BY ClosingFit
<1>2. Under(<<Settle(r)>>, r) /\ Settling(<<Settle(r)>>, r)
    BY UnderIdle DEF Outcomes
<1>3. \A x : ~Suspended(<<Settle(r)>>, Frame("backoff", x))
    BY Base DEF Settle, Frame
<1>4. GoodRequest(q)
    BY <1>1, Fields
<1>5. Fit(q, wire'[r], TRUE) /\ q.terminal = req[r].terminal
    BY <1>1, <1>4 DEF Fit, RequestType
<1>6. CASE stack' = <<Settle(r)>> /\ UNCHANGED <<req, active, told>>
    <2>1. Sound(req[r], wire'[r], Settling(stack', r), Suspended(stack', Frame("backoff", r)), r \in active')
        BY <1>1, <1>2, <1>3, <1>6 DEF Sound, Fit
    <2>2. RestType'
        BY <1>1, <1>6 DEF Core, RestType, WireMoves
    <2>3. req' = [req EXCEPT ![r] = req[r]]
        BY <1>6 DEF Core
    <2> QED BY <1>1, <1>2, <1>6, <2>1, <2>2, <2>3, Put
<1>7. CASE r \in active /\ ~q.terminal /\ RetryOrFail(r, q, <<Settle(r)>>)
    <2> HIDE DEF q
    <2> QED BY <1>1, <1>2, <1>5, <1>7, RetryOrFailCore
<1>8. CASE r \in active /\ Complete(r, q, "Completed", <<Settle(r)>>)
    <2>1. Fit(q, wire'[r], Settling(<<Settle(r)>>, r))
        BY <1>2, <1>5 DEF Fit
    <2>2. tickers' \subseteq 1 .. MaxTickers /\ ticker' \in 0 .. MaxTickers
        BY DEF Core, RestType
    <2> HIDE DEF q
    <2> QED BY <1>1, <1>2, <1>8, <2>1, <2>2, CompleteCore DEF Ends
<1> QED BY <1>6, <1>7, <1>8 DEF HandleChatCompletionResponse

LEMMA TransportCompletesCore == ASSUME Core, NEW r \in Requests, TransportCompletes(r) PROVE Core'
<1>1. PICK outcome \in Possible(r) :
        IF req[r].mode = "Stream" THEN HandleStreamResponse(r, outcome)
        ELSE HandleChatCompletionResponse(r, outcome)
    BY DEF TransportCompletes
<1>2. outcome \in Outcomes
    BY DEF Possible
<1>3. /\ Idle /\ wire[r].open /\ wire' = [wire EXCEPT ![r].open = FALSE]
      /\ UNCHANGED <<limit, tickers, ticker, heard>>
    BY DEF TransportCompletes
<1> QED BY <1>1, <1>2, <1>3, StreamResponseCore, ChatResponseCore

LEMMA BackoffStepCore == ASSUME Core, BackoffStep PROVE Core'
<1> DEFINE f == Head(stack)
           r == Head(stack).r
           c == [req[r] EXCEPT !.retryTicker = r \in active]
<1>1. Running("backoff") /\ WellStacked(stack)
    BY DEF BackoffStep, Core
<1>2. f \in Frames /\ f.kind = "backoff" /\ Suspended(stack, f) /\ Serves(f) \subseteq Served(stack)
    BY <1>1, TopFrame
<1>3. r \in Requests /\ f = Frame("backoff", r) /\ Serves(f) = {r}
    BY <1>2, FrameKinds DEF Serves
<1>4. req[r].accepted /\ Sounds(r) /\ GoodRequest(req[r]) /\ req[r] \in RequestType
    BY <1>2, <1>3 DEF Core, Sounds, Sound, GoodRequest
<1>5. Under(Rest, r) /\ (Settling(Rest, r) <=> Settling(stack, r))
    BY <1>1, UnderRest
<1>6. \A b \in BOOLEAN : GoodRequest([req[r] EXCEPT !.retryTicker = b])
    BY <1>4, Fields
<1>7. GoodRequest(c)
    <2>1. (r \in active) \in BOOLEAN
        OBVIOUS
    <2> QED BY <1>6, <2>1, Zenon
<1>8. /\ c.retryTicker = (r \in active) /\ c.accepted = req[r].accepted /\ c.terminal = req[r].terminal
      /\ c.physical = req[r].physical /\ c.attempt = req[r].attempt /\ c.retries = req[r].retries
      /\ c.waiting = req[r].waiting /\ c.attached = req[r].attached
    BY <1>4 DEF RequestType
<1>9. req' = [req EXCEPT ![r] = c] /\ stack' = Rest
      /\ UNCHANGED <<active, limit, tickers, ticker, wire, heard, told>>
    BY DEF BackoffStep
<1>10. r \in active => req[r].waiting
    BY <1>2, <1>3, <1>4 DEF Sounds, Sound
<1> HIDE DEF c
<1>11. Sound(c, wire'[r], Settling(stack', r), Suspended(stack', Frame("backoff", r)), r \in active')
    BY <1>4, <1>5, <1>7, <1>8, <1>9, <1>10 DEF Sounds, Sound, Fit
<1>12. RestType' /\ WireMoves(r)
    BY <1>9 DEF Core, RestType, WireMoves
<1> QED BY <1>3, <1>4, <1>5, <1>8, <1>9, <1>11, <1>12, Put

LEMMA SettleStepCore == ASSUME Core, SettleStep PROVE Core'
<1> DEFINE f == Head(stack)
           r == Head(stack).r
           c == [req[r] EXCEPT !.physical = @ - 1]
<1>1. Running("settle") /\ WellStacked(stack) /\ stack # <<>>
    BY DEF SettleStep, Core, Running, Idle
<1>2. f \in Frames /\ f.kind = "settle" /\ Serves(f) \subseteq Served(stack)
    BY <1>1, TopFrame
<1>3. r \in Requests /\ Serves(f) = {r}
    BY <1>2, FrameKinds DEF Serves
<1>4. req[r].accepted /\ Sounds(r) /\ GoodRequest(req[r]) /\ req[r] \in RequestType
    BY <1>2, <1>3 DEF Core, Sounds, Sound, GoodRequest
<1>5. Rest = <<>> /\ Settling(stack, r)
    BY <1>1, <1>2, Pop DEF Rest
<1>6. req[r].physical = 1 /\ ~wire[r].open
    BY <1>4, <1>5 DEF Sounds, Sound, Fit
<1>7. \A x \in Requests \ {r} : ~Settling(stack, x)
    BY <1>5 DEF Settling, Settle, Frame
<1>8. Under(<<>>, r) /\ ~Settling(<<>>, r) /\ \A g : ~Suspended(<<>>, g)
    BY <1>7, EmptyStack DEF Under, Suspended, Depths
<1>9. GoodRequest(c)
    <2>1. \A n \in 0 .. 1 : GoodRequest([req[r] EXCEPT !.physical = n])
        BY <1>4, Fields
    <2>2. req[r].physical - 1 \in 0 .. 1
        BY <1>6
    <2> QED BY <2>1, <2>2, Zenon
<1>10. /\ c.physical = 0 /\ c.accepted = req[r].accepted /\ c.terminal = req[r].terminal
       /\ c.retryTicker = req[r].retryTicker /\ c.attempt = req[r].attempt /\ c.retries = req[r].retries
       /\ c.waiting = req[r].waiting /\ c.attached = req[r].attached
    <2>1. req[r].physical - 1 = 0
        BY <1>6
    <2>2. c.physical = 0
        BY <1>4, <2>1 DEF RequestType
    <2> QED BY <1>4, <2>2 DEF RequestType
<1>11. req' = [req EXCEPT ![r] = c] /\ stack' = Rest
      /\ UNCHANGED <<active, limit, tickers, ticker, wire, heard, told>>
    BY DEF SettleStep
<1> HIDE DEF c
<1>12. Sound(c, wire'[r], Settling(stack', r), Suspended(stack', Frame("backoff", r)), r \in active')
    BY <1>4, <1>5, <1>6, <1>8, <1>9, <1>10, <1>11 DEF Sounds, Sound, Fit
<1>13. RestType' /\ WireMoves(r)
    BY <1>11 DEF Core, RestType, WireMoves
<1> QED BY <1>3, <1>4, <1>5, <1>8, <1>10, <1>11, <1>12, <1>13, Put

\* The backoff of a running request has ended.
LEMMA WaitingFit ==
    ASSUME Core, NEW r \in Requests, Idle, req[r].retryTicker
    PROVE  /\ Sounds(r) /\ GoodRequest(req[r]) /\ req[r] \in RequestType
           /\ req[r].accepted /\ ~req[r].terminal /\ r \in active /\ req[r].physical = 0
           /\ req[r].attempt <= req[r].retries /\ ~wire[r].open
           /\ ~Settling(stack, r) /\ \A g : ~Suspended(stack, g)
<1>1. Sounds(r)
    BY DEF Core
<1>2. ~Settling(stack, r) /\ \A g : ~Suspended(stack, g)
    BY DEF Settling, Suspended, Idle, Depths
<1>3. req[r].waiting /\ req[r].accepted /\ ~req[r].terminal /\ r \in active /\ Fit(req[r], wire[r], FALSE)
    BY <1>1, <1>2 DEF Sounds, Sound, Fit
<1> QED BY <1>1, <1>2, <1>3 DEF Fit, GoodRequest

LEMMA ResumeCore == ASSUME Core, NEW r \in Requests, ResumeRequestAfterBackoff(r) PROVE Core'
<1>1. /\ Sounds(r) /\ GoodRequest(req[r]) /\ req[r] \in RequestType
      /\ req[r].accepted /\ ~req[r].terminal /\ r \in active /\ req[r].physical = 0
      /\ req[r].attempt <= req[r].retries /\ ~wire[r].open
      /\ ~Settling(stack, r) /\ \A g : ~Suspended(stack, g)
    BY WaitingFit DEF ResumeRequestAfterBackoff
<1>2. tickers' \subseteq 1 .. MaxTickers /\ ticker' \in 0 .. MaxTickers
      /\ UNCHANGED <<limit, tickers, ticker, heard>>
    BY DEF ResumeRequestAfterBackoff, Core, RestType
<1>3. CASE AttemptStarts(r, req[r]) /\ UNCHANGED <<active, stack, told>>
    <2>1. wire' \in [Requests -> WireType]
        BY <1>3, OpenWire DEF AttemptStarts, Core, RestType
    <2>2. RestType'
        BY <1>2, <1>3, <2>1 DEF Core, RestType
    <2> QED BY <1>1, <1>3, <2>2, AttemptStartsCore
<1>4. CASE AttemptFails(r, req[r], <<>>) /\ UNCHANGED wire
    <2> DEFINE c == [req[r] EXCEPT !.waiting = FALSE, !.retryTicker = FALSE]
    <2>1. GoodRequest(c)
        <3>1. GoodRequest([req[r] EXCEPT !.waiting = FALSE])
            BY <1>1, Fields
        <3> QED BY <3>1, Fields
    <2>2. /\ c.accepted /\ c.physical = 0 /\ ~c.waiting
          /\ c.attempt = req[r].attempt /\ c.retries = req[r].retries
        BY <1>1 DEF RequestType
    <2>3. Complete(r, c, "Failed", <<>>)
        BY <1>4 DEF AttemptFails
    <2> HIDE DEF c
    <2>4. Under(<<>>, r) /\ ~Settling(<<>>, r)
        BY UnderIdle DEF ResumeRequestAfterBackoff, Outcomes
    <2>5. c.attempt <= c.retries + 1
        BY <1>1, <2>2 DEF RequestType
    <2>6. Fit(c, wire'[r], Settling(<<>>, r))
        BY <1>1, <1>4, <2>1, <2>2, <2>4, <2>5 DEF Fit
    <2>7. WireMoves(r)
        BY <1>4 DEF WireMoves, Core, RestType
    <2> QED BY <1>2, <2>3, <2>4, <2>6, <2>7, CompleteCore DEF Ends
<1> QED BY <1>3, <1>4 DEF ResumeRequestAfterBackoff

LEMMA CancelRequestCore == ASSUME Core, NEW r \in Requests, CancelRequest(r) PROVE Core'
<1>1. /\ req[r].accepted /\ ~req[r].terminal /\ GoodRequest(req[r])
      /\ req[r] \in RequestType /\ Fit(req[r], wire[r], Settling(stack, r)) /\ Sounds(r)
    BY RunningFit DEF CancelRequest
<1>2. UNCHANGED <<limit, tickers, ticker, wire, heard>> /\ WireMoves(r) /\ Under(stack, r)
    BY UnderSame DEF CancelRequest, WireMoves, Core, RestType
<1>3. CASE Drain(r, req[r], <<Frame("cancel", r)>> \o stack)
    <2> DEFINE f == Frame("cancel", r)
    <2>1. f \in Frames /\ f.kind \notin Late \union {"settle"} /\ Serves(f) = {r}
          /\ \A x : Frame("backoff", x) # f
        BY DEF Frame, Frames, Late, Serves
    <2> HIDE DEF f
    <2>2. /\ Under(<<f>> \o stack, r) /\ (Settling(<<f>> \o stack, r) <=> Settling(stack, r))
          /\ \A g : Suspended(<<f>> \o stack, g) <=> g = f \/ Suspended(stack, g)
        BY <1>2, <2>1, UnderPush
    <2>3. Sound(req[r], wire'[r], Settling(<<f>> \o stack, r),
                Suspended(<<f>> \o stack, Frame("backoff", r)), r \in active)
        BY <1>1, <1>2, <2>1, <2>2 DEF Sounds, Sound, Fit
    <2>4. Drain(r, req[r], <<f>> \o stack)
        BY <1>3 DEF f
    <2> QED BY <1>1, <1>2, <2>2, <2>3, <2>4, DrainCore
<1>4. CASE FinishCancel(r, req[r], stack)
    <2>1. Fit(req[r], wire'[r], Settling(stack, r))
        BY <1>1, <1>2
    <2> QED BY <1>2, <1>4, <2>1, AbortCore DEF FinishCancel, Ends
<1> QED BY <1>3, <1>4 DEF CancelRequest

LEMMA CancelStepCore == ASSUME Core, CancelStep PROVE Core'
<1> DEFINE r == Head(stack).r
<1>1. Running("cancel") /\ UNCHANGED <<limit, tickers, ticker, wire, heard>>
    BY DEF CancelStep
<1>2. CASE stack' = Rest /\ UNCHANGED <<req, active, told>>
    BY <1>1, <1>2, PopCore DEF Core, RestType
<1>3. CASE r \in active /\ FinishCancel(r, req[r], Rest)
    <2> HIDE DEF r
    <2>1. r \in Requests /\ Fit(req[r], wire[r], Settling(stack, r))
        BY <1>3, RunningFit
    <2>2. Under(Rest, r) /\ (Settling(Rest, r) <=> Settling(stack, r))
        BY <1>1, UnderRest DEF Core
    <2>3. Fit(req[r], wire'[r], Settling(Rest, r)) /\ WireMoves(r)
        BY <1>1, <2>1, <2>2 DEF Fit, WireMoves, Core, RestType
    <2> QED BY <1>1, <1>3, <2>1, <2>2, <2>3, AbortCore DEF FinishCancel, Ends
<1> QED BY <1>2, <1>3 DEF CancelStep

LEMMA AbortStepCore == ASSUME Core, AbortStep PROVE Core'
<1> DEFINE f == Head(stack)
           r == Head(stack).r
<1>1. Running("abort") /\ WellStacked(stack)
    BY DEF AbortStep, Core
<1>2. f \in Frames /\ f.kind = "abort" /\ Serves(f) \subseteq Served(stack)
    BY <1>1, TopFrame
<1>3. r \in Requests /\ Serves(f) = {r}
    BY <1>2, FrameKinds DEF Serves
<1>4. req[r].accepted /\ Sounds(r)
    BY <1>2, <1>3 DEF Core
<1>5. Under(Rest, r) /\ (Settling(Rest, r) <=> Settling(stack, r))
      /\ \A g : Suspended(Rest, g) => Suspended(stack, g)
    BY <1>1, UnderRest, TopFrame
<1>6. /\ wire' = [wire EXCEPT ![r].cancelled = TRUE] /\ stack' = Rest
      /\ UNCHANGED <<req, active, limit, tickers, ticker, heard, told>>
    BY DEF AbortStep
<1>7. wire' \in [Requests -> WireType] /\ WireMoves(r) /\ wire'[r].open = wire[r].open
    <2>1. ASSUME NEW w \in WireType
          PROVE  [w EXCEPT !.cancelled = TRUE] \in WireType /\ [w EXCEPT !.cancelled = TRUE].open = w.open
        BY DEF WireType
    <2> QED BY <1>3, <1>6, <2>1 DEF WireMoves, Core, RestType
<1>8. RestType' /\ req' = [req EXCEPT ![r] = req[r]]
    BY <1>6, <1>7 DEF Core, RestType
<1> HIDE DEF r, f
<1>9. Sound(req[r], wire'[r], Settling(stack', r), Suspended(stack', Frame("backoff", r)), r \in active')
    BY <1>4, <1>5, <1>6, <1>7 DEF Sounds, Sound, Fit
<1> QED BY <1>3, <1>4, <1>5, <1>6, <1>7, <1>8, <1>9, Put

LEMMA TickerKept ==
    ASSUME Core, NEW t, TickerReturns(t)
    PROVE  tickers' \subseteq 1 .. MaxTickers /\ ticker' \in 0 .. MaxTickers
<1>1. tickers \subseteq 1 .. MaxTickers /\ ticker \in 0 .. MaxTickers /\ 0 \in 0 .. MaxTickers
    BY ServiceAssumption DEF Core, RestType
<1>2. CASE active = {}
    BY <1>1, <1>2 DEF TickerReturns
<1>3. CASE active # {}
    BY <1>1, <1>3 DEF TickerReturns
<1> QED BY <1>2, <1>3

LEMMA PumpCore == ASSUME Core, NEW t \in tickers, PumpDeadlines(t) PROVE Core'
<1>1. UNCHANGED <<req, active, limit, wire, heard, told>> /\ Idle /\ t \in 1 .. MaxTickers
    BY DEF PumpDeadlines, Core, RestType
<1>2. CASE stack' = <<PumpFrame(t, Expired)>> /\ UNCHANGED <<tickers, ticker>>
    <2> DEFINE f == PumpFrame(t, Expired)
    <2>1. f \in Frames /\ f.kind = "pump" /\ f.due \subseteq active
        BY <1>1 DEF PumpFrame, Frames, Expired, Core, RestType
    <2> HIDE DEF f
    <2>2. WellStacked(stack) /\ stack = <<>> /\ f.kind \notin Late \union {"settle"}
          /\ Serves(f) = f.due /\ \A x : Frame("backoff", x) # f
        BY <1>1, <2>1 DEF Core, Idle, Late, Serves, Frame
    <2>3. <<f>> \o stack = <<f>>
        BY <2>2
    <2>4. /\ WellStacked(stack') /\ Served(stack') = Serves(f) \union Served(stack)
          /\ \A x : Settling(stack', x) <=> Settling(stack, x)
          /\ \A g : Suspended(stack', g) <=> g = f \/ Suspended(stack, g)
        <3>1. stack' = <<f>> \o stack
            BY <1>2, <2>3 DEF f
        <3> QED BY <2>1, <2>2, <3>1, Push
    <2>5. \A x \in active : req[x].accepted
        BY RunningFit
    <2>6. ASSUME NEW x \in Requests PROVE Sounds(x)'
        <3>1. Sounds(x)
            BY DEF Core
        <3> QED BY <1>1, <2>2, <2>4, <3>1 DEF Sounds, Sound, Fit
    <2>7. RestType'
        BY <1>1, <1>2 DEF Core, RestType
    <2>8. Served(stack') \subseteq {x \in Requests : req'[x].accepted}
        BY <1>1, <2>1, <2>2, <2>4, <2>5, EmptyStack DEF Core, RestType
    <2>9. req' \in [Requests -> RequestType]
        BY <1>1 DEF Core
    <2> QED BY <2>4, <2>6, <2>7, <2>8, <2>9 DEF Core
<1>3. CASE TickerReturns(t) /\ UNCHANGED stack
    <2>1. RestType'
        BY <1>1, <1>3, TickerKept DEF Core, RestType
    <2> QED BY <1>1, <1>3, <2>1, StackOnly DEF Core
<1> QED BY <1>2, <1>3 DEF PumpDeadlines

LEMMA PumpStepCore == ASSUME Core, PumpStep PROVE Core'
<1> DEFINE f == Head(stack)
<1>1. Running("pump") /\ WellStacked(stack) /\ UNCHANGED <<limit, wire, heard>>
    BY DEF PumpStep, Core
<1>2. f \in Frames /\ f.kind = "pump" /\ Serves(f) \subseteq Served(stack)
      /\ \A g : Suspended(Rest, g) => Suspended(stack, g)
    BY <1>1, TopFrame
<1>3. f.due \in SUBSET Requests /\ Serves(f) = f.due /\ f.ticker \in 1 .. MaxTickers
    BY <1>2, FrameKinds DEF Serves
<1>4. CASE TickerReturns(f.ticker) /\ stack' = Rest /\ UNCHANGED <<req, active, told>>
    <2>1. RestType'
        BY <1>1, <1>4, TickerKept DEF Core, RestType
    <2> QED BY <1>1, <1>4, <2>1, PopCore
<1>5. ASSUME NEW r \in f.due, UNCHANGED <<tickers, ticker>>,
             LET after == <<[f EXCEPT !.due = @ \ {r}]>> \o Rest
             IN IF req[r].terminal
                THEN stack' = after /\ UNCHANGED <<req, active, told>>
                ELSE Complete(r, req[r], "Failed", Abort(r, req[r]) \o after)
      PROVE  Core'
    <2> DEFINE g == [f EXCEPT !.due = @ \ {r}]
               after == <<g>> \o Rest
    <2>1. r \in Requests /\ req[r].accepted /\ Sounds(r) /\ Under(Rest, r)
          /\ (Settling(Rest, r) <=> Settling(stack, r))
        BY <1>1, <1>2, <1>3, UnderRest DEF Core
    <2>2. g \in Frames /\ g.kind = "pump" /\ g.due = f.due \ {r}
        BY <1>2, <1>3 DEF Frames
    <2>3. Serves(g) \subseteq Served(stack) /\ g.kind \notin Late \union {"settle"}
          /\ \A x : Frame("backoff", x) # g
        BY <1>2, <1>3, <2>2 DEF Serves, Late, Frame
    <2> HIDE DEF g
    <2>4. /\ Under(after, r) /\ (Settling(after, r) <=> Settling(Rest, r))
          /\ \A h : Suspended(after, h) <=> h = g \/ Suspended(Rest, h)
        BY <2>1, <2>2, <2>3, UnderPush
    <2> HIDE DEF after
    <2>5. CASE stack' = after /\ UNCHANGED <<req, active, told>>
        <3>1. Sound(req[r], wire'[r], Settling(stack', r), Suspended(stack', Frame("backoff", r)), r \in active')
            BY <1>1, <1>2, <2>1, <2>3, <2>4, <2>5 DEF Sounds, Sound, Fit
        <3>2. RestType' /\ WireMoves(r) /\ req' = [req EXCEPT ![r] = req[r]]
            BY <1>1, <1>5, <2>5 DEF Core, RestType, WireMoves
        <3> QED BY <2>1, <2>4, <2>5, <3>1, <3>2, Put
    <2>6. CASE ~req[r].terminal /\ Complete(r, req[r], "Failed", Abort(r, req[r]) \o after)
        <3>1. Fit(req[r], wire'[r], Settling(after, r)) /\ WireMoves(r)
            BY <1>1, <2>1, <2>4 DEF Sounds, Sound, Fit, WireMoves, Core, RestType
        <3> QED BY <1>1, <1>5, <2>1, <2>4, <2>6, <3>1, AbortCore DEF Ends
    <2> QED BY <1>5, <2>5, <2>6 DEF after, g
<1> QED BY <1>4, <1>5 DEF PumpStep

LEMMA ClosedFields ==
    ASSUME NEW q, GoodRequest(q)
    PROVE  LET c == Closed(q) IN
           /\ GoodRequest(c) /\ c.terminal /\ ~c.retryTicker /\ ~c.attached
           /\ c.accepted = q.accepted /\ c.attempt = q.attempt /\ c.retries = q.retries
           /\ c.physical = q.physical /\ c.waiting = q.waiting /\ c.mode = q.mode
<1> DEFINE c == Closed(q)
<1>1. q \in RequestType
    BY DEF GoodRequest
<1>2. ASSUME NEW e \in Seq(Chunks)
      PROVE  [q EXCEPT !.terminal = TRUE, !.retryTicker = FALSE, !.attached = FALSE,
                 !.accept = FALSE, !.pending = e] \in RequestType
    BY <1>1 DEF RequestType
<1>3. <<>> \in Seq(Chunks) /\ <<>> \in Seq(FullChunks) /\ Len(<<>>) <= QueueCapacity
    BY ServiceAssumption
<1>4. c \in RequestType
    BY <1>2, <1>3 DEF Closed
<1>5. /\ c.terminal /\ ~c.retryTicker /\ ~c.attached /\ c.pending = <<>> /\ c.held = q.held
      /\ c.accepted = q.accepted /\ c.attempt = q.attempt /\ c.retries = q.retries
      /\ c.physical = q.physical /\ c.waiting = q.waiting /\ c.mode = q.mode
    BY <1>1 DEF RequestType, Closed
<1>6. GoodRequest(c)
    BY <1>3, <1>4, <1>5 DEF GoodRequest
<1> QED BY <1>5, <1>6

LEMMA ShutdownCore == ASSUME Core, Shutdown PROVE Core'
<1>1. /\ active' = {} /\ tickers' \subseteq 1 .. MaxTickers /\ ticker' \in 0 .. MaxTickers
      /\ UNCHANGED <<limit, stack, heard>>
    BY ServiceAssumption DEF Shutdown, Core, RestType
<1>2. ASSUME NEW x \in Requests
      PROVE  /\ wire'[x] \in WireType /\ wire'[x].open = wire[x].open
             /\ x \notin active => wire'[x] = wire[x] /\ req'[x] = req[x]
             /\ x \in active => req'[x] = Closed(req[x])
    <2>1. ASSUME NEW w \in WireType
          PROVE  [w EXCEPT !.cancelled = TRUE] \in WireType /\ [w EXCEPT !.cancelled = TRUE].open = w.open
        BY DEF WireType
    <2> QED BY <2>1 DEF Shutdown, Core, RestType
<1>3. ASSUME NEW x \in Requests PROVE Sounds(x)' /\ (req[x].accepted => req'[x].accepted)
    <2>1. Sounds(x)
        BY DEF Core
    <2>2. CASE x \in active
        <3>1. GoodRequest(req[x]) /\ req[x].accepted /\ Fit(req[x], wire[x], Settling(stack, x))
            BY <2>2, RunningFit
        <3> DEFINE c == Closed(req[x])
        <3>2. /\ GoodRequest(c) /\ c.terminal /\ ~c.retryTicker /\ ~c.attached
              /\ c.accepted = req[x].accepted /\ c.attempt = req[x].attempt /\ c.retries = req[x].retries
              /\ c.physical = req[x].physical /\ c.waiting = req[x].waiting
            BY <3>1, ClosedFields
        <3>3. req'[x] = c
            BY <1>2, <2>2
        <3> HIDE DEF c
        <3> QED BY <1>1, <1>2, <3>1, <3>2, <3>3 DEF Sounds, Sound, Fit
    <2>3. CASE x \notin active
        BY <1>1, <1>2, <2>1, <2>3 DEF Sounds, Sound, Fit
    <2> QED BY <2>2, <2>3
<1>4. told' \in [Requests -> Seq(Ends)]
    BY DEF Shutdown, Core, RestType, Ends
<1>5. wire' \in [Requests -> WireType]
    BY <1>2 DEF Shutdown
<1>6. RestType'
    BY <1>1, <1>4, <1>5 DEF Core, RestType, Ends
<1>7. req' = [x \in Requests |-> req'[x]] /\ \A x \in Requests : req'[x] \in RequestType
    <2>1. req' = [x \in Requests |-> req'[x]]
        BY DEF Shutdown
    <2> QED BY <1>3, <2>1 DEF Sounds, Sound, GoodRequest
<1>8. WellStacked(stack') /\ Served(stack') = Served(stack)
    BY <1>1 DEF Core
<1> QED BY <1>3, <1>6, <1>7, <1>8 DEF Core

LEMMA NextCore == ASSUME Core, [Next]_vars PROVE Core'
<1>1. ASSUME NEW r \in Requests,
             \/ Start(r) \/ DrainTask(r) \/ TransportCompletes(r)
             \/ ResumeRequestAfterBackoff(r) \/ CancelRequest(r)
             \/ ReceiveChunk(r) \/ ReceiveStatus(r) \/ PostDrain(r) \/ DeadlinePasses(r)
      PROVE  Core'
    BY <1>1, StartCore, DrainTaskCore, TransportCompletesCore, ResumeCore, CancelRequestCore,
       ReceiveChunkCore, ReceiveStatusCore, PostDrainCore, DeadlinePassesCore
<1>2. ASSUME DelegateReturns PROVE Core'
    <2>1. Running("delegate") /\ stack' = Rest /\ UNCHANGED <<req, wire, active>>
        BY <1>2 DEF DelegateReturns
    <2>2. RestType'
        BY <1>2 DEF DelegateReturns, Core, RestType
    <2> QED BY <2>1, <2>2, PopCore
<1>3. CASE GameThread
    BY <1>2, <1>3, DrainStepCore, ResponseStepCore, FinishStepCore, BackoffStepCore,
       SettleStepCore, CancelStepCore, AbortStepCore, PumpStepCore DEF GameThread
<1>4. ASSUME NEW t \in tickers, PumpDeadlines(t) PROVE Core'
    BY <1>4, PumpCore
<1>5. ASSUME NEW n \in Limits, SetLimits(n) PROVE Core'
    <2>1. RestType' /\ UNCHANGED <<req, wire, active, stack>>
        BY <1>5 DEF SetLimits, Core, RestType
    <2> QED BY <2>1, StackOnly DEF Core
<1>6. CASE Shutdown
    BY <1>6, ShutdownCore
<1>7. CASE UNCHANGED vars
    <2>1. RestType' /\ UNCHANGED <<req, wire, active, stack>>
        BY <1>7 DEF vars, Core, RestType
    <2> QED BY <2>1, StackOnly DEF Core
<1> QED BY <1>1, <1>3, <1>4, <1>5, <1>6, <1>7 DEF Next

LEMMA CoreAlways == Spec => []Core
BY InitCore, NextCore, PTL DEF Spec

-----------------------------------------------------------------------------
(* What a step leaves of a request *)

\* Only an admission accepts a request; only a running request starts an attempt.
Keeps(x) ==
    /\ req'[x].accepted = req[x].accepted /\ req'[x].mode = req[x].mode
    /\ req'[x].physical # 0 => req[x].physical # 0 \/ x \in active
    /\ x \in active' => x \in active

Kept(c, q) == c.accepted = q.accepted /\ c.mode = q.mode /\ c.physical = q.physical

LEMMA KeepsPut ==
    ASSUME Core, NEW r \in Requests, NEW c, Kept(c, req[r]), req' = [req EXCEPT ![r] = c],
           active' \subseteq active
    PROVE  \A x \in Requests : Keeps(x)
BY DEF Core, Kept, Keeps

LEMMA KeepsComplete ==
    ASSUME Core, NEW r \in Requests, NEW q \in RequestType, Kept(q, req[r]), NEW how, NEW rest,
           Complete(r, q, how, rest)
    PROVE  \A x \in Requests : Keeps(x)
<1> DEFINE c == Completed(q)
<1>1. c.held = q.held /\ c.mode = q.mode /\ c.accepted = q.accepted /\ c.physical = q.physical
    BY CompletedFields
<1>2. req' = [req EXCEPT ![r] = c] /\ active' \subseteq active
    BY DEF Complete
<1> HIDE DEF c
<1>3. Kept(c, req[r])
    BY <1>1 DEF Kept
<1> QED BY <1>2, <1>3, KeepsPut

LEMMA KeepsDrain ==
    ASSUME Core, NEW r \in Requests, NEW q \in RequestType, Kept(q, req[r]), NEW rest,
           Drain(r, q, rest)
    PROVE  \A x \in Requests : Keeps(x)
<1> DEFINE drained == [q EXCEPT !.pending = <<>>, !.drainScheduled = FALSE]
           quiet == [q EXCEPT !.drainScheduled = FALSE]
<1>1. Kept(quiet, req[r]) /\ Kept(drained, req[r])
    BY DEF Kept, RequestType
<1>2. drained \in RequestType
    <2>1. \A e \in Seq(Chunks) : [q EXCEPT !.pending = e, !.drainScheduled = FALSE] \in RequestType
        BY DEF RequestType
    <2>2. <<>> \in Seq(Chunks)
        OBVIOUS
    <2> QED BY <2>1, <2>2
<1> HIDE DEF drained, quiet
<1>3. CASE req' = [req EXCEPT ![r] = q] /\ UNCHANGED active
    BY <1>3, KeepsPut
<1>4. CASE req' = [req EXCEPT ![r] = quiet] /\ UNCHANGED active
    BY <1>1, <1>4, KeepsPut
<1>5. CASE req' = [req EXCEPT ![r] = drained] /\ UNCHANGED active
    BY <1>1, <1>5, KeepsPut
<1>6. CASE Complete(r, drained, "Failed", Abort(r, q) \o rest)
    BY <1>1, <1>2, <1>6, KeepsComplete
<1> QED BY <1>3, <1>4, <1>5, <1>6 DEF Drain, drained, quiet

LEMMA KeepsRetryOrFail ==
    ASSUME Core, NEW r \in Requests, NEW q, GoodRequest(q), Kept(q, req[r]), NEW rest,
           RetryOrFail(r, q, rest)
    PROVE  \A x \in Requests : Keeps(x)
<1>1. q \in RequestType
    BY DEF GoodRequest
<1>2. CASE Complete(r, q, "Failed", rest)
    BY <1>1, <1>2, KeepsComplete
<1>3. CASE TryScheduleRetry(r, q, rest)
    <2> DEFINE w == [q EXCEPT !.retries = @ + 1, !.waiting = TRUE]
               c == IF q.mode = "Stream" THEN ResetStreamAttempt(w, FALSE) ELSE w
    <2>1. w.accepted = q.accepted /\ w.mode = q.mode /\ w.physical = q.physical
        BY <1>1 DEF RequestType
    <2>2. c.accepted = q.accepted /\ c.mode = q.mode /\ c.physical = q.physical
        BY <1>1, <2>1 DEF ResetStreamAttempt, RequestType
    <2>3. req' = [req EXCEPT ![r] = c] /\ active' \subseteq active
        BY <1>3 DEF TryScheduleRetry
    <2> HIDE DEF c
    <2>4. Kept(c, req[r])
        BY <2>2 DEF Kept
    <2> QED BY <2>3, <2>4, KeepsPut
<1> QED BY <1>2, <1>3 DEF RetryOrFail

LEMMA KeepsStart ==
    ASSUME Core, NEW r \in Requests, AttemptStarts(r, req[r]), r \in active,
           active' \subseteq active
    PROVE  \A x \in Requests : Keeps(x)
<1> DEFINE q == req[r]
           s == [q EXCEPT !.retryTicker = FALSE, !.waiting = FALSE, !.attempt = @ + 1,
                       !.attached = TRUE, !.physical = @ + 1]
           c == IF q.mode = "Stream" THEN ResetStreamAttempt(s, TRUE) ELSE s
<1>1. q \in RequestType
    BY DEF Core
<1>2. s.accepted = q.accepted /\ s.mode = q.mode
    BY <1>1 DEF RequestType
<1>3. c.accepted = q.accepted /\ c.mode = q.mode
    BY <1>1, <1>2 DEF ResetStreamAttempt, RequestType
<1>4. req' = [req EXCEPT ![r] = c]
    BY DEF AttemptStarts
<1> HIDE DEF c
<1>5. req'[r] = c /\ \A x \in Requests \ {r} : req'[x] = req[x]
    BY <1>4 DEF Core
<1> QED BY <1>3, <1>5 DEF Keeps

LEMMA TopRequest ==
    ASSUME Core, NEW k, Running(k), k # "pump"
    PROVE  Head(stack).r \in Requests
<1>1. Head(stack) \in Frames /\ Head(stack).kind = k
    BY TopFrame DEF Core
<1> QED BY <1>1, FrameKinds

LEMMA KeepsSame ==
    ASSUME Core, UNCHANGED req, active' \subseteq active
    PROVE  \A x \in Requests : Keeps(x)
BY DEF Keeps

LEMMA KeepsCalls ==
    ASSUME Core, NEW r \in Requests,
           \/ DrainTask(r) \/ TransportCompletes(r)
           \/ ResumeRequestAfterBackoff(r) \/ CancelRequest(r)
           \/ ReceiveChunk(r) \/ ReceiveStatus(r) \/ PostDrain(r) \/ DeadlinePasses(r)
    PROVE  \A x \in Requests : Keeps(x)
<1>1. req[r] \in RequestType /\ GoodRequest(req[r]) /\ Kept(req[r], req[r])
    BY DEF Core, Sounds, Sound, Kept
<1>2. ASSUME DrainTask(r) PROVE \A x \in Requests : Keeps(x)
    <2> DEFINE q == [req[r] EXCEPT !.drains = @ - 1]
    <2>1. Drain(r, q, <<>>) /\ req[r].drains - 1 \in Nat
        BY <1>1, <1>2 DEF DrainTask, RequestType
    <2>2. GoodRequest(q)
        BY <1>1, <2>1, Fields
    <2>3. q \in RequestType /\ Kept(q, req[r])
        BY <1>1, <2>2 DEF GoodRequest, Kept, RequestType
    <2> HIDE DEF q
    <2> QED BY <2>1, <2>3, KeepsDrain
<1>3. ASSUME TransportCompletes(r) PROVE \A x \in Requests : Keeps(x)
    <2>1. PICK outcome \in Outcomes :
            HandleStreamResponse(r, outcome) \/ HandleChatCompletionResponse(r, outcome)
        BY <1>3 DEF TransportCompletes, Possible
    <2> DEFINE q == [req[r] EXCEPT !.attached = FALSE]
               s == [req[r] EXCEPT !.status = CodeOf(outcome, @)]
    <2>2. GoodRequest(q) /\ q \in RequestType /\ Kept(q, req[r])
        <3>1. GoodRequest(q)
            BY <1>1, Fields
        <3> QED BY <1>1, <3>1 DEF Kept, RequestType, GoodRequest
    <2>3. s \in RequestType /\ Kept(s, req[r])
        <3>1. CodeOf(outcome, req[r].status) \in Codes
            BY <1>1 DEF CodeOf, RequestType, Codes, Outcomes
        <3>2. \A n \in Codes : [req[r] EXCEPT !.status = n] \in RequestType
            BY <1>1 DEF RequestType
        <3>3. s = [req[r] EXCEPT !.status = CodeOf(outcome, req[r].status)]
            OBVIOUS
        <3>4. s \in RequestType
            BY <3>1, <3>2, <3>3, Zenon
        <3> QED BY <1>1, <3>4 DEF Kept, RequestType
    <2>4. CASE UNCHANGED <<req, active>>
        BY <2>4, KeepsSame
    <2>5. ASSUME NEW rest, Drain(r, s, rest) PROVE \A x \in Requests : Keeps(x)
        <3> HIDE DEF s
        <3> QED BY <2>3, <2>5, KeepsDrain
    <2>6. ASSUME NEW rest, RetryOrFail(r, q, rest) PROVE \A x \in Requests : Keeps(x)
        <3> HIDE DEF q
        <3> QED BY <2>2, <2>6, KeepsRetryOrFail
    <2>7. ASSUME NEW rest, Complete(r, q, "Completed", rest) PROVE \A x \in Requests : Keeps(x)
        <3> HIDE DEF q
        <3> QED BY <2>2, <2>7, KeepsComplete
    <2>8. CASE HandleStreamResponse(r, outcome)
        BY <2>4, <2>5, <2>8 DEF HandleStreamResponse
    <2>9. CASE HandleChatCompletionResponse(r, outcome)
        BY <2>4, <2>6, <2>7, <2>9 DEF HandleChatCompletionResponse
    <2> QED BY <2>1, <2>8, <2>9
<1>4. ASSUME ResumeRequestAfterBackoff(r) PROVE \A x \in Requests : Keeps(x)
    <2>1. CASE AttemptStarts(r, req[r]) /\ r \in active /\ UNCHANGED active
        BY <2>1, KeepsStart
    <2>2. CASE AttemptFails(r, req[r], <<>>)
        <3> DEFINE c == [req[r] EXCEPT !.waiting = FALSE, !.retryTicker = FALSE]
        <3>1. c \in RequestType /\ Kept(c, req[r])
            BY <1>1 DEF RequestType, Kept
        <3>2. Complete(r, c, "Failed", <<>>)
            BY <2>2 DEF AttemptFails
        <3> HIDE DEF c
        <3> QED BY <3>1, <3>2, KeepsComplete
    <2> QED BY <1>4, <2>1, <2>2 DEF ResumeRequestAfterBackoff
<1>5. ASSUME CancelRequest(r) PROVE \A x \in Requests : Keeps(x)
    BY <1>1, <1>5, KeepsDrain, KeepsComplete DEF CancelRequest, FinishCancel
<1>6. ASSUME ReceiveChunk(r) \/ ReceiveStatus(r) PROVE \A x \in Requests : Keeps(x)
    <2>1. ASSUME NEW q \in RequestType
          PROVE  Kept(ScheduleDrain(q), q)
        BY DEF ScheduleDrain, Kept, RequestType
    <2>2. ASSUME NEW c \in RequestType, Kept(c, req[r]), UNCHANGED active,
                 req' = [req EXCEPT ![r] = c] \/ req' = [req EXCEPT ![r] = ScheduleDrain(c)]
          PROVE  \A x \in Requests : Keeps(x)
        <3>1. Kept(ScheduleDrain(c), req[r])
            BY <2>1, <2>2 DEF Kept
        <3> QED BY <2>2, <3>1, KeepsPut
    <2>3. CASE ReceiveStatus(r)
        <3> PICK code \in {"ok", "error"} :
              LET q == [req[r] EXCEPT !.status = code]
              IN req' = [req EXCEPT ![r] = IF q.pending # <<>> THEN ScheduleDrain(q) ELSE q]
            BY <2>3 DEF ReceiveStatus
        <3> DEFINE q == [req[r] EXCEPT !.status = code]
        <3>1. q \in RequestType /\ Kept(q, req[r])
            BY <1>1 DEF Kept, RequestType, Codes
        <3>2. req' = [req EXCEPT ![r] = q] \/ req' = [req EXCEPT ![r] = ScheduleDrain(q)]
            OBVIOUS
        <3>3. UNCHANGED active
            BY <2>3 DEF ReceiveStatus
        <3> HIDE DEF q
        <3> QED BY <2>2, <3>1, <3>2, <3>3
    <2>4. CASE ReceiveChunk(r)
        <3> PICK chunk :
              LET q == req[r]
              IN req' = [req EXCEPT ![r] = ScheduleDrain(
                         IF Len(q.pending) >= QueueCapacity
                         THEN [q EXCEPT !.accept = FALSE, !.overflowed = TRUE]
                         ELSE [q EXCEPT !.pending = Append(@, chunk)])]
            BY <2>4 DEF ReceiveChunk
        <3> DEFINE a == [req[r] EXCEPT !.accept = FALSE, !.overflowed = TRUE]
                   b == [req[r] EXCEPT !.pending = Append(req[r].pending, chunk)]
        <3>1. Kept(ScheduleDrain(a), req[r])
            BY <1>1 DEF Kept, RequestType, ScheduleDrain
        <3>2. Kept(ScheduleDrain(b), req[r])
            BY <1>1 DEF Kept, RequestType, ScheduleDrain
        <3>3. req' = [req EXCEPT ![r] = ScheduleDrain(a)] \/ req' = [req EXCEPT ![r] = ScheduleDrain(b)]
            OBVIOUS
        <3>4. UNCHANGED active
            BY <2>4 DEF ReceiveChunk
        <3> HIDE DEF a, b
        <3> QED BY <3>1, <3>2, <3>3, <3>4, KeepsPut
    <2> QED BY <1>6, <2>3, <2>4
<1>7. ASSUME PostDrain(r) PROVE \A x \in Requests : Keeps(x)
    BY <1>1, <1>7 DEF PostDrain, Keeps, Core, RequestType
<1>8. ASSUME DeadlinePasses(r) PROVE \A x \in Requests : Keeps(x)
    BY <1>1, <1>8 DEF DeadlinePasses, Keeps, Core, RequestType
<1> QED BY <1>2, <1>3, <1>4, <1>5, <1>6, <1>7, <1>8

LEMMA KeepsHear ==
    ASSUME Core, NEW f, f.r \in Requests, ProcessSseEvent(f) \/ StreamFails(f) \/ TakeChunk(f)
    PROVE  \A x \in Requests : Keeps(x)
<1>1. req[f.r] \in RequestType /\ Kept(req[f.r], req[f.r])
    BY DEF Core, Kept
<1>2. CASE ProcessSseEvent(f)
    <2> DEFINE c == [req[f.r] EXCEPT !.saw = TRUE, !.ended = @ \/ Head(f.events) = StreamLength]
    <2>1. Kept(c, req[f.r])
        BY <1>1 DEF Kept, RequestType
    <2>2. req' = [req EXCEPT ![f.r] = c] /\ UNCHANGED active
        BY <1>2 DEF ProcessSseEvent
    <2> HIDE DEF c
    <2> QED BY <2>1, <2>2, KeepsPut
<1>3. CASE StreamFails(f)
    BY <1>1, <1>3, KeepsComplete DEF StreamFails
<1>4. CASE TakeChunk(f)
    BY <1>1, <1>4 DEF TakeChunk, Keeps, Core, RequestType
<1> QED BY <1>2, <1>3, <1>4

LEMMA KeepsGameThread ==
    ASSUME Core, GameThread PROVE \A x \in Requests : Keeps(x)
<1> DEFINE f == Head(stack)
           r == Head(stack).r
<1>1. ASSUME NEW k, Running(k), k # "pump"
      PROVE  r \in Requests /\ req[r] \in RequestType /\ Kept(req[r], req[r]) /\ GoodRequest(req[r])
    BY <1>1, TopRequest DEF Core, Sounds, Sound, Kept
<1>2. CASE UNCHANGED <<req, active>>
    BY <1>2, KeepsSame
<1>3. CASE DrainStep
    <2>1. r \in Requests
        BY <1>1, <1>3 DEF DrainStep
    <2> QED BY <1>2, <1>3, <2>1, KeepsHear DEF DrainStep
<1>4. CASE ResponseStep
    <2> DEFINE q == [req[r] EXCEPT !.attached = FALSE]
    <2>1. r \in Requests /\ req[r] \in RequestType /\ GoodRequest(req[r])
        BY <1>1, <1>4 DEF ResponseStep
    <2>2. GoodRequest(q) /\ q \in RequestType /\ Kept(q, req[r])
        <3>1. GoodRequest(q)
            BY <2>1, Fields
        <3> QED BY <2>1, <3>1 DEF Kept, RequestType, GoodRequest
    <2>3. ASSUME req' = [req EXCEPT ![r] = [q EXCEPT !.held = <<>>]], UNCHANGED active
          PROVE  \A x \in Requests : Keeps(x)
        <3>1. Kept([q EXCEPT !.held = <<>>], req[r])
            BY <2>2 DEF Kept, RequestType
        <3> QED BY <2>1, <2>3, <3>1, KeepsPut
    <2>4. ASSUME NEW how, NEW rest, RetryOrFail(r, q, rest) \/ Complete(r, q, how, rest)
          PROVE  \A x \in Requests : Keeps(x)
        <3> HIDE DEF q, r
        <3> QED BY <2>1, <2>2, <2>4, KeepsRetryOrFail, KeepsComplete
    <2> QED BY <1>2, <1>4, <2>3, <2>4 DEF ResponseStep
<1>5. CASE FinishStep
    <2>1. r \in Requests /\ req[r] \in RequestType /\ GoodRequest(req[r]) /\ Kept(req[r], req[r])
        BY <1>1, <1>5 DEF FinishStep
    <2>2. ASSUME NEW how, NEW rest, RetryOrFail(r, req[r], rest) \/ Complete(r, req[r], how, rest)
          PROVE  \A x \in Requests : Keeps(x)
        <3> HIDE DEF r
        <3> QED BY <2>1, <2>2, KeepsRetryOrFail, KeepsComplete
    <2> QED BY <1>2, <1>5, <2>1, <2>2, KeepsHear DEF FinishStep
<1>6. CASE BackoffStep
    <2>1. r \in Requests /\ req[r] \in RequestType
        BY <1>1, <1>6 DEF BackoffStep
    <2> QED BY <1>6, <2>1 DEF BackoffStep, Keeps, Core, RequestType
<1>7. CASE SettleStep
    <2>1. r \in Requests /\ req[r] \in RequestType
        BY <1>1, <1>7 DEF SettleStep
    <2>2. req' = [req EXCEPT ![r].physical = @ - 1] /\ UNCHANGED active
        BY <1>7 DEF SettleStep
    <2>3. \A x \in Requests \ {r} : Keeps(x)
        BY <2>2 DEF Keeps, Core
    <2>4. req[r].physical # 0
        <3>1. Settling(stack, r)
            BY <1>7, Pop, TopFrame DEF SettleStep, Core, Running, Idle
        <3> QED BY <2>1, <3>1 DEF Core, Sounds, Sound, Fit
    <2>5. Keeps(r)
        BY <2>1, <2>2, <2>4 DEF Keeps, Core, RequestType
    <2> QED BY <2>3, <2>5
<1>8. CASE CancelStep
    <2>1. r \in Requests /\ req[r] \in RequestType /\ Kept(req[r], req[r])
        BY <1>1, <1>8 DEF CancelStep
    <2> QED BY <1>2, <1>8, <2>1, KeepsComplete DEF CancelStep, FinishCancel
<1>9. CASE AbortStep \/ DelegateReturns
    BY <1>2, <1>9 DEF AbortStep, DelegateReturns
<1>10. CASE PumpStep
    <2>1. f.due \in SUBSET Requests
        BY <1>10, TopFrame, FrameKinds DEF PumpStep, Core
    <2>2. ASSUME NEW x \in f.due PROVE req[x] \in RequestType /\ Kept(req[x], req[x]) /\ x \in Requests
        BY <2>1 DEF Core, Kept
    <2> QED BY <1>2, <1>10, <2>2, KeepsComplete DEF PumpStep
<1> QED BY <1>3, <1>4, <1>5, <1>6, <1>7, <1>8, <1>9, <1>10 DEF GameThread

LEMMA StepKeeps ==
    ASSUME Core, [Next]_vars
    PROVE  \/ \A x \in Requests : Keeps(x)
           \/ \E r \in Requests, mode \in Modes :
                ~req[r].accepted /\ told[r] = <<>> /\ Admit(r, mode)
<1>1. ASSUME NEW r \in Requests, Start(r)
      PROVE  \/ \A x \in Requests : Keeps(x)
             \/ \E mode \in Modes : ~req[r].accepted /\ told[r] = <<>> /\ Admit(r, mode)
    BY <1>1, KeepsSame DEF Start, Reject
<1>2. ASSUME NEW t \in tickers, PumpDeadlines(t) PROVE \A x \in Requests : Keeps(x)
    BY <1>2, KeepsSame DEF PumpDeadlines
<1>3. ASSUME NEW n \in Limits, SetLimits(n) PROVE \A x \in Requests : Keeps(x)
    BY <1>3, KeepsSame DEF SetLimits
<1>4. ASSUME Shutdown PROVE \A x \in Requests : Keeps(x)
    <2>1. active' = {} /\ req' = [x \in Requests |-> IF x \in active THEN Closed(req[x]) ELSE req[x]]
        BY <1>4 DEF Shutdown
    <2>2. ASSUME NEW x \in Requests PROVE Keeps(x)
        <3>1. GoodRequest(req[x])
            BY DEF Core, Sounds, Sound
        <3> DEFINE c == Closed(req[x])
        <3>2. c.accepted = req[x].accepted /\ c.physical = req[x].physical /\ c.mode = req[x].mode
            BY <3>1, ClosedFields
        <3>3. req'[x] = IF x \in active THEN c ELSE req[x]
            BY <2>1
        <3> HIDE DEF c
        <3> QED BY <2>1, <3>2, <3>3 DEF Keeps
    <2> QED BY <2>2
<1>5. ASSUME UNCHANGED vars PROVE \A x \in Requests : Keeps(x)
    BY <1>5, KeepsSame DEF vars
<1> QED BY <1>1, <1>2, <1>3, <1>4, <1>5, KeepsCalls, KeepsGameThread DEF Next

\* An admission touches the one request that was not accepted.
LEMMA AdmissionIsNew ==
    ASSUME Core, NEW r \in Requests, NEW mode \in Modes, ~req[r].accepted, Admit(r, mode)
    PROVE  /\ \A x \in Requests \ {r} : req'[x] = req[x] /\ wire'[x] = wire[x]
           /\ HasCapacity /\ EnsureDeadlineTicker /\ UNCHANGED <<limit, heard>>
           /\ active' \subseteq active \union {r}
           /\ req[r] = NewRequest /\ wire[r] = NoWire /\ r \notin active
<1>1. HasCapacity /\ EnsureDeadlineTicker /\ UNCHANGED <<limit, heard>>
    BY DEF Admit
<1>2. req[r] = NewRequest /\ wire[r] = NoWire /\ r \notin active
    BY UnacceptedIsNew
<1>3. \A x \in Requests \ {r} : req'[x] = req[x] /\ wire'[x] = wire[x]
    BY DEF Admit, AttemptStarts, AttemptFails, Complete, Core, RestType
<1>4. active' \subseteq active \union {r}
    BY DEF Admit, AttemptFails, Complete
<1> QED BY <1>1, <1>2, <1>3, <1>4

-----------------------------------------------------------------------------
(* The slots *)

CapacityInv == IsFiniteSet(Outstanding) /\ Cardinality(Outstanding) <= limit

\* A request holds its slot while it runs or its transport is not settled.
LEMMA WhoIsOutstanding ==
    ASSUME Core, NEW x \in Requests
    PROVE  x \in Outstanding <=> req[x].accepted /\ (x \in active \/ req[x].physical # 0)
BY DEF Core, Sounds, Sound, Outstanding

LEMMA PhysicalIsOutstanding ==
    Core => {r \in Requests : req[r].physical > 0} \subseteq Outstanding
<1> SUFFICES ASSUME Core, NEW x \in Requests, req[x].physical > 0 PROVE x \in Outstanding
    OBVIOUS
<1>1. Sounds(x) /\ req[x].physical # 0
    BY DEF Core
<1>2. req[x].accepted
    BY <1>1 DEF Sounds, Sound, NewRequest
<1> QED BY <1>1, <1>2, WhoIsOutstanding

LEMMA CapacityStep ==
    ASSUME Core, Core', CapacityInv, [Next]_vars PROVE CapacityInv'
<1>1. limit \in Nat /\ Cardinality(Outstanding) \in Nat
    BY FS_CardinalityType, ServiceAssumption DEF CapacityInv, Core, RestType
<1>2. \A x \in Requests : x \in Outstanding' <=> req'[x].accepted /\ (x \in active' \/ req'[x].physical # 0)
    BY DEF Core, Sounds, Sound, Outstanding
<1>3. CASE \A x \in Requests : Keeps(x)
    <2>1. Outstanding' \subseteq Outstanding
        <3>1. ASSUME NEW x \in Requests, x \in Outstanding' PROVE x \in Outstanding
            BY <1>2, <1>3, <3>1, WhoIsOutstanding DEF Keeps
        <3> QED BY <3>1 DEF Outstanding
    <2>2. IsFiniteSet(Outstanding') /\ Cardinality(Outstanding') <= Cardinality(Outstanding)
        BY <2>1, FS_Subset DEF CapacityInv
    <2>3. CASE UNCHANGED limit
        BY <1>1, <2>2, <2>3, FS_CardinalityType DEF CapacityInv
    <2>4. CASE Outstanding = {} /\ limit' \in Nat
        <3>1. Outstanding' = {}
            BY <2>1, <2>4
        <3> QED BY <2>4, <3>1, FS_EmptySet DEF CapacityInv
    <2>5. UNCHANGED limit \/ (Outstanding = {} /\ limit' \in Nat)
        BY ServiceAssumption DEF Next, Start, Reject, Admit, DrainTask, TransportCompletes,
           ResumeRequestAfterBackoff, CancelRequest, ReceiveChunk, ReceiveStatus, PostDrain,
           DeadlinePasses, GameThread, DrainStep, ResponseStep, FinishStep, BackoffStep, SettleStep,
           CancelStep, AbortStep, PumpStep, DelegateReturns, PumpDeadlines, SetLimits, Shutdown, vars
    <2> QED BY <2>3, <2>4, <2>5
<1>4. ASSUME NEW r \in Requests, NEW mode \in Modes, ~req[r].accepted, Admit(r, mode)
      PROVE  CapacityInv'
    <2>1. /\ \A x \in Requests \ {r} : req'[x] = req[x]
          /\ HasCapacity /\ UNCHANGED limit
        BY <1>4, AdmissionIsNew
    <2>2. Outstanding' \subseteq Outstanding \union {r}
        <3>1. ASSUME NEW x \in Requests \ {r}, x \in Outstanding' PROVE x \in Outstanding
            BY <2>1, <3>1 DEF Outstanding
        <3> QED BY <3>1 DEF Outstanding
    <2>3. r \notin Outstanding
        BY <1>4 DEF Outstanding
    <2>4. /\ IsFiniteSet(Outstanding \union {r})
          /\ Cardinality(Outstanding \union {r}) = Cardinality(Outstanding) + 1
        BY <2>3, FS_AddElement DEF CapacityInv
    <2>5. /\ IsFiniteSet(Outstanding')
          /\ Cardinality(Outstanding') <= Cardinality(Outstanding) + 1
        BY <2>2, <2>4, FS_Subset
    <2>6. Cardinality(Outstanding') \in Nat
        BY <2>5, FS_CardinalityType
    <2> QED BY <1>1, <2>1, <2>5, <2>6 DEF CapacityInv, HasCapacity
<1> QED BY <1>3, <1>4, StepKeeps

LEMMA CapacityHolds == ASSUME Core, CapacityInv PROVE PhysicalCapacity
<1> DEFINE P == {r \in Requests : req[r].physical > 0}
<1>1. P \subseteq Outstanding
    BY PhysicalIsOutstanding
<1> HIDE DEF P
<1>2. Cardinality(P) <= Cardinality(Outstanding) /\ IsFiniteSet(P)
    BY <1>1, FS_Subset DEF CapacityInv
<1>3. Cardinality(P) \in Nat /\ Cardinality(Outstanding) \in Nat /\ limit \in Nat
    BY <1>2, FS_CardinalityType, ServiceAssumption DEF CapacityInv, Core, RestType
<1>4. Cardinality(P) <= limit
    BY <1>2, <1>3 DEF CapacityInv
<1> QED BY <1>4 DEF PhysicalCapacity, P

LEMMA InitCapacity == Init => CapacityInv
<1> SUFFICES ASSUME Init PROVE CapacityInv
    OBVIOUS
<1>1. Outstanding = {}
    BY DEF Init, Outstanding, NewRequest
<1> QED BY <1>1, FS_EmptySet, ServiceAssumption DEF Init, CapacityInv

-----------------------------------------------------------------------------
(* The deadline ticker *)

\* While anything runs the handle names a registered ticker.
TickerInv ==
    /\ ticker # 0 => ticker \in tickers
    /\ active # {} => ticker # 0

LEMMA TickerStep ==
    ASSUME Core, Core', TickerInv, [Next]_vars PROVE TickerInv'
<1>1. CASE UNCHANGED <<ticker, tickers>> /\ active' \subseteq active
    BY <1>1 DEF TickerInv
<1>2. CASE active' = {} /\ ticker' = 0
    BY <1>2 DEF TickerInv
<1>3. CASE \A x \in Requests : Keeps(x)
    <2>1. active' \subseteq active
        BY <1>3 DEF Keeps, Core, RestType
    <2>2. ASSUME NEW t, TickerReturns(t), UNCHANGED active
          PROVE  UNCHANGED <<ticker, tickers>> \/ (active' = {} /\ ticker' = 0)
        BY <2>2 DEF TickerReturns
    <2>3. \/ UNCHANGED <<ticker, tickers>>
          \/ active' = {} /\ ticker' = 0
          \/ \E r \in Requests, mode \in Modes : Admit(r, mode)
        BY <2>2 DEF Next, Start, Reject, DrainTask, TransportCompletes,
           ResumeRequestAfterBackoff, CancelRequest, ReceiveChunk, ReceiveStatus, PostDrain,
           DeadlinePasses, GameThread, DrainStep, ResponseStep, FinishStep, BackoffStep, SettleStep,
           CancelStep, AbortStep, PumpStep, DelegateReturns, PumpDeadlines, SetLimits, Shutdown, vars
    <2>4. CASE \E r \in Requests, mode \in Modes : Admit(r, mode)
        BY <2>1, <2>4 DEF TickerInv, Admit, EnsureDeadlineTicker, FreeTickers
    <2> QED BY <1>1, <1>2, <2>1, <2>3, <2>4
<1>4. CASE \E r \in Requests, mode \in Modes : Admit(r, mode)
    BY <1>4 DEF TickerInv, Admit, EnsureDeadlineTicker, FreeTickers
<1> QED BY <1>3, <1>4, StepKeeps

-----------------------------------------------------------------------------
(* Abandoned transports *)

\* No cancellation that is still to come is lost in s.
Stays(s) ==
    \A x \in Requests : Suspended(stack, Frame("abort", x)) => Suspended(s, Frame("abort", x))

LEMMA Over ==
    ASSUME NEW S, NEW a \in Seq(S), NEW s \in Seq(Frames), NEW g, Suspended(s, g)
    PROVE  Suspended(a \o s, g)
<1>1. PICK d \in Depths(s) : At(s, d) = g
    BY DEF Suspended
<1>2. Len(a) \in Nat /\ Len(s) \in Nat /\ Len(a \o s) = Len(a) + Len(s) /\ d \in 1 .. Len(s)
    BY DEF Depths
<1>3. (a \o s)[Len(a) + (Len(s) + 1 - d)] = s[Len(s) + 1 - d]
    BY <1>2
<1>4. Len(a \o s) + 1 - d = Len(a) + (Len(s) + 1 - d) /\ d \in Depths(a \o s)
    BY <1>2 DEF Depths
<1> QED BY <1>1, <1>3, <1>4 DEF At, Suspended

LEMMA StaysOver ==
    ASSUME NEW S, NEW a \in Seq(S), NEW s \in Seq(Frames), Stays(s) PROVE Stays(a \o s)
BY Over DEF Stays

LEMMA StaysIdle == ASSUME Idle, NEW s PROVE Stays(s)
BY DEF Stays, Suspended, Idle, Depths

LEMMA PopKeeps ==
    ASSUME NEW s \in Seq(Frames), s # <<>>, NEW g, Suspended(s, g), g # Head(s)
    PROVE  Suspended(Tail(s), g)
<1> DEFINE t == Tail(s)
<1>1. /\ t \in Seq(Frames) /\ Len(t) = Len(s) - 1 /\ Len(s) \in Nat \ {0}
      /\ Head(s) = At(s, Len(s))
      /\ \A d \in Depths(t) : At(t, d) = At(s, d)
    BY PopAt
<1> HIDE DEF t
<1>2. PICK d \in Depths(s) : At(s, d) = g
    BY DEF Suspended
<1>3. d # Len(s)
    BY <1>1, <1>2
<1>4. d \in Depths(t)
    BY <1>1, <1>2, <1>3 DEF Depths
<1>5. Suspended(t, g)
    BY <1>1, <1>2, <1>4 DEF Suspended
<1> QED BY <1>5 DEF t

LEMMA StaysRest ==
    ASSUME Core, NEW k, Running(k), k # "abort" PROVE Stays(Rest) /\ Rest \in Seq(Frames)
<1>1. Stays(Rest)
    BY PopKeeps DEF Core, WellStacked, Running, Idle, Rest, Stays, Frame
<1>2. Rest \in Seq(Frames)
    BY UnderRest, PopAt DEF Core, WellStacked, Running, Idle, Rest
<1> QED BY <1>1, <1>2

LEMMA StaysNow == Core => Stays(stack) /\ stack \in Seq(Frames)
BY DEF Stays, Core, WellStacked

\* The property, read from the bottom of the stack.
AbandonInv ==
    \A x \in Requests :
        req[x].terminal /\ wire[x].open
        => wire[x].cancelled \/ Suspended(stack, Frame("abort", x))

LEMMA AbandonHolds == ASSUME Core, AbandonInv PROVE AbandonedTransportsAreCancelled
<1> SUFFICES ASSUME NEW x \in Requests, Suspended(stack, Frame("abort", x))
             PROVE  \E i \in DOMAIN stack : stack[i] = Frame("abort", x)
    BY DEF AbandonInv, AbandonedTransportsAreCancelled
<1>1. PICK d \in Depths(stack) : At(stack, d) = Frame("abort", x)
    BY DEF Suspended
<1>2. stack \in Seq(Frames)
    BY DEF Core, WellStacked
<1>3. Len(stack) + 1 - d \in DOMAIN stack
    BY <1>1, <1>2 DEF Depths
<1> QED BY <1>1, <1>3 DEF At

\* Of each request: it has not just ended, its transport is not open, or the
\* transport's cancellation is at hand.
Guarded(x) ==
    \/ /\ req'[x].terminal => req[x].terminal
       /\ wire'[x].open => wire[x].open
       /\ wire[x].cancelled => wire'[x].cancelled
    \/ ~(req'[x].terminal /\ wire'[x].open)
    \/ wire'[x].cancelled
    \/ Suspended(stack', Frame("abort", x))

\* No transport opens, no cancellation is taken back.
WireQuiet ==
    \A x \in Requests :
        /\ wire'[x].open => wire[x].open
        /\ wire[x].cancelled => wire'[x].cancelled

LEMMA AbandonStep ==
    ASSUME AbandonInv, Stays(stack'), \A x \in Requests : Guarded(x)
    PROVE  AbandonInv'
BY DEF AbandonInv, Stays, Guarded

LEMMA GuardedPut ==
    ASSUME Core, NEW r \in Requests, NEW c, req' = [req EXCEPT ![r] = c],
           c.terminal => req[r].terminal, WireQuiet
    PROVE  \A x \in Requests : Guarded(x)
BY DEF Core, Guarded, WireQuiet

LEMMA GuardedComplete ==
    ASSUME Core, NEW r \in Requests, NEW q, NEW how, NEW rest, Complete(r, q, how, rest),
           WireQuiet,
           ~wire'[r].open \/ Suspended(rest, Frame("abort", r)), NEW s \in Seq(Frames), rest = s,
           Stays(rest)
    PROVE  Stays(stack') /\ \A x \in Requests : Guarded(x)
<1>1. stack' = <<Delegate(r)>> \o rest /\ \A x \in Requests \ {r} : req'[x] = req[x]
    BY DEF Complete, Core
<1>2. <<Delegate(r)>> \in Seq({Delegate(r)})
    OBVIOUS
<1>3. Stays(stack')
    BY <1>1, <1>2, StaysOver
<1>4. ~wire'[r].open \/ Suspended(stack', Frame("abort", r))
    BY <1>1, <1>2, Over
<1> QED BY <1>1, <1>3, <1>4 DEF Guarded, WireQuiet

\* The request had its transport attached when it was completed.
LEMMA GuardedAbort ==
    ASSUME Core, NEW r \in active, NEW q, q.attached = req[r].attached, NEW how,
           NEW s \in Seq(Frames), Stays(s), Complete(r, q, how, Abort(r, q) \o s), WireQuiet
    PROVE  Stays(stack') /\ \A x \in Requests : Guarded(x)
<1>1. r \in Requests /\ (wire[r].open => req[r].attached)
    BY RunningFit DEF Sounds, Sound
<1> DEFINE a == Abort(r, q)
<1>2. a \in Seq({Frame("abort", r)})
    <2>1. <<>> \in Seq({Frame("abort", r)}) /\ <<Frame("abort", r)>> \in Seq({Frame("abort", r)})
        OBVIOUS
    <2> QED BY <2>1, Zenon DEF Abort
<1>3. req[r].attached => a = <<Frame("abort", r)>>
    BY DEF Abort
<1>4. Frame("abort", r) \in Frames
    BY <1>1 DEF Frame, Frames
<1> HIDE DEF a
<1>5. Stays(a \o s)
    BY <1>2, StaysOver
<1>6. a \o s \in Seq(Frames)
    <2>1. a \in Seq(Frames)
        BY <1>2, <1>4
    <2> QED BY <2>1
<1>7. wire'[r].open => wire[r].open
    BY <1>1 DEF WireQuiet
<1>8. ~wire'[r].open \/ Suspended(a \o s, Frame("abort", r))
    <2>1. CASE req[r].attached
        <3>1. Suspended(<<Frame("abort", r)>> \o s, Frame("abort", r))
            BY <1>4, PushAt DEF Suspended, Depths
        <3> QED BY <1>3, <2>1, <3>1
    <2> QED BY <1>1, <1>7, <2>1
<1> QED BY <1>1, <1>5, <1>6, <1>8, GuardedComplete DEF a

LEMMA GuardedDrain ==
    ASSUME Core, NEW r \in Requests, NEW q \in RequestType,
           q.terminal = req[r].terminal, q.attached = req[r].attached,
           NEW s \in Seq(Frames), Stays(s), Drain(r, q, s), WireQuiet
    PROVE  Stays(stack') /\ \A x \in Requests : Guarded(x)
<1> DEFINE drained == [q EXCEPT !.pending = <<>>, !.drainScheduled = FALSE]
           quiet == [q EXCEPT !.drainScheduled = FALSE]
<1>1. /\ quiet.terminal = q.terminal /\ drained.terminal = q.terminal
      /\ drained.attached = q.attached
    BY DEF RequestType
<1>2. Abort(r, drained) = Abort(r, q)
    BY <1>1 DEF Abort
<1> HIDE DEF drained, quiet
<1>3. CASE req' = [req EXCEPT ![r] = q] /\ stack' = s
    BY <1>3, GuardedPut
<1>4. CASE req' = [req EXCEPT ![r] = quiet] /\ stack' = s
    BY <1>1, <1>4, GuardedPut
<1>5. CASE req' = [req EXCEPT ![r] = drained] /\ stack' = <<DrainFrame(r, q.pending, <<>>, q.status)>> \o s
    <2>1. \A f : <<f>> \in Seq({f})
        OBVIOUS
    <2>2. Stays(stack')
        BY <1>5, <2>1, StaysOver
    <2> QED BY <1>1, <1>5, <2>2, GuardedPut
<1>6. CASE r \in active /\ Complete(r, drained, "Failed", Abort(r, q) \o s)
    BY <1>1, <1>2, <1>6, GuardedAbort
<1> QED BY <1>3, <1>4, <1>5, <1>6 DEF Drain, drained, quiet

\* Whoever retries, or fails, here has no transport open.
LEMMA GuardedRetryOrFail ==
    ASSUME Core, NEW r \in Requests, NEW q \in RequestType, ~q.terminal,
           NEW s \in Seq(Frames), Stays(s), RetryOrFail(r, q, s), WireQuiet, ~wire'[r].open
    PROVE  Stays(stack') /\ \A x \in Requests : Guarded(x)
<1>1. CASE Complete(r, q, "Failed", s)
    BY <1>1, GuardedComplete
<1>2. CASE TryScheduleRetry(r, q, s)
    <2> DEFINE w == [q EXCEPT !.retries = @ + 1, !.waiting = TRUE]
               c == IF q.mode = "Stream" THEN ResetStreamAttempt(w, FALSE) ELSE w
    <2>1. req' = [req EXCEPT ![r] = c] /\ stack' = <<Delegate(r), Frame("backoff", r)>> \o s
        BY <1>2 DEF TryScheduleRetry
    <2> HIDE DEF c
    <2>2. \A x \in Requests : Guarded(x)
        BY <2>1 DEF Guarded, WireQuiet, Core
    <2>3. \A f, g : <<f, g>> \in Seq({f, g})
        OBVIOUS
    <2>4. Stays(stack')
        BY <2>1, <2>3, StaysOver
    <2> QED BY <2>2, <2>4
<1> QED BY <1>1, <1>2 DEF RetryOrFail

LEMMA AbandonDrainTask ==
    ASSUME Core, AbandonInv, NEW r \in Requests, DrainTask(r) PROVE AbandonInv'
<1> DEFINE q == [req[r] EXCEPT !.drains = @ - 1]
<1>1. Drain(r, q, <<>>) /\ req[r].drains - 1 \in Nat /\ GoodRequest(req[r]) /\ UNCHANGED wire
    BY DEF DrainTask, RequestType, Core, Sounds, Sound, GoodRequest
<1>2. GoodRequest(q)
    BY <1>1, Fields
<1>3. q \in RequestType /\ q.terminal = req[r].terminal /\ q.attached = req[r].attached
    BY <1>1, <1>2 DEF GoodRequest, RequestType
<1> HIDE DEF q
<1>4. Stays(<<>>) /\ <<>> \in Seq(Frames) /\ WireQuiet
    BY <1>1, StaysIdle DEF DrainTask, WireQuiet
<1> QED BY <1>1, <1>3, <1>4, GuardedDrain, AbandonStep

LEMMA AbandonTransport ==
    ASSUME Core, AbandonInv, NEW r \in Requests, TransportCompletes(r) PROVE AbandonInv'
<1>1. PICK outcome \in Outcomes :
        HandleStreamResponse(r, outcome) \/ HandleChatCompletionResponse(r, outcome)
    BY DEF TransportCompletes, Possible
<1>2. Idle /\ wire[r].open /\ wire' = [wire EXCEPT ![r].open = FALSE]
    BY DEF TransportCompletes
<1>3. WireQuiet /\ ~wire'[r].open
    <2>1. ASSUME NEW w \in WireType
          PROVE  ~[w EXCEPT !.open = FALSE].open /\ [w EXCEPT !.open = FALSE].cancelled = w.cancelled
        BY DEF WireType
    <2> QED BY <1>2, <2>1 DEF WireQuiet, Core, RestType
<1>4. GoodRequest(req[r]) /\ req[r] \in RequestType
    BY DEF Core, Sounds, Sound
<1>5. \A s : Stays(s)
    BY <1>2, StaysIdle
<1>6. <<Settle(r)>> \in Seq(Frames) /\ <<ResponseFrame(r, outcome), Settle(r)>> \in Seq(Frames)
    BY <1>2, UnderIdle DEF Under, WellStacked
<1> DEFINE q == [req[r] EXCEPT !.attached = FALSE]
           s == [req[r] EXCEPT !.status = CodeOf(outcome, @)]
<1>7. q \in RequestType /\ q.terminal = req[r].terminal
    BY <1>4 DEF RequestType
<1>8. s \in RequestType /\ s.terminal = req[r].terminal /\ s.attached = req[r].attached
    <2>1. CodeOf(outcome, req[r].status) \in Codes
        BY <1>4 DEF CodeOf, RequestType, Codes, Outcomes
    <2>2. \A n \in Codes : [req[r] EXCEPT !.status = n] \in RequestType
        BY <1>4 DEF RequestType
    <2>3. s = [req[r] EXCEPT !.status = CodeOf(outcome, req[r].status)]
        OBVIOUS
    <2>4. s \in RequestType
        BY <2>1, <2>2, <2>3, Zenon
    <2> QED BY <1>4, <2>4 DEF RequestType
<1>9. CASE UNCHANGED req
    <2>1. \A x \in Requests : Guarded(x)
        BY <1>3, <1>9 DEF Guarded, WireQuiet
    <2> QED BY <1>5, <2>1, AbandonStep
<1>10. ASSUME Drain(r, s, <<ResponseFrame(r, outcome), Settle(r)>>) PROVE AbandonInv'
    <2> HIDE DEF s
    <2> QED BY <1>3, <1>5, <1>6, <1>8, <1>10, GuardedDrain, AbandonStep
<1>11. ASSUME RetryOrFail(r, q, <<Settle(r)>>), ~q.terminal PROVE AbandonInv'
    <2> HIDE DEF q
    <2> QED BY <1>3, <1>5, <1>6, <1>7, <1>11, GuardedRetryOrFail, AbandonStep
<1>12. ASSUME Complete(r, q, "Completed", <<Settle(r)>>) PROVE AbandonInv'
    <2> HIDE DEF q
    <2> QED BY <1>3, <1>5, <1>6, <1>12, GuardedComplete, AbandonStep
<1> QED BY <1>1, <1>9, <1>10, <1>11, <1>12 DEF HandleStreamResponse, HandleChatCompletionResponse

LEMMA AbandonStarts ==
    ASSUME Core, AbandonInv, NEW r \in Requests, NEW q, AttemptStarts(r, q), GoodRequest(q),
           ~q.terminal, UNCHANGED stack
    PROVE  AbandonInv'
<1> DEFINE s == [q EXCEPT !.retryTicker = FALSE, !.waiting = FALSE, !.attempt = @ + 1,
                       !.attached = TRUE, !.physical = @ + 1]
           c == IF q.mode = "Stream" THEN ResetStreamAttempt(s, TRUE) ELSE s
<1>1. q \in RequestType
    BY DEF GoodRequest
<1>2. ~s.terminal
    BY <1>1 DEF RequestType
<1>3. ~c.terminal
    BY <1>1, <1>2 DEF ResetStreamAttempt, RequestType
<1>4. req' = [req EXCEPT ![r] = c] /\ \A x \in Requests \ {r} : wire'[x] = wire[x]
    BY DEF AttemptStarts, Core, RestType
<1> HIDE DEF c
<1>5. req'[r] = c /\ \A x \in Requests \ {r} : req'[x] = req[x]
    BY <1>4 DEF Core
<1> QED BY <1>3, <1>4, <1>5 DEF AbandonInv

LEMMA AbandonUnaccepted ==
    ASSUME Core, AbandonInv, NEW r \in Requests, Start(r) PROVE AbandonInv'
<1>1. CASE Reject(r)
    <2>1. UNCHANGED <<req, wire>> /\ stack' = <<Delegate(r)>> \o stack
        BY <1>1 DEF Reject
    <2>2. <<Delegate(r)>> \in Seq({Delegate(r)})
        OBVIOUS
    <2>3. Stays(stack')
        BY <2>1, <2>2, StaysNow, StaysOver
    <2>4. \A x \in Requests : Guarded(x)
        BY <2>1 DEF Guarded
    <2> QED BY <2>3, <2>4, AbandonStep
<1>2. CASE ~req[r].accepted /\ \E mode \in Modes : Admit(r, mode)
    <2> PICK mode \in Modes : Admit(r, mode)
        BY <1>2
    <2>1. /\ req[r] = NewRequest /\ wire[r] = NoWire
          /\ \A x \in Requests \ {r} : req'[x] = req[x] /\ wire'[x] = wire[x]
        BY <1>2, AdmissionIsNew
    <2> DEFINE q == [req[r] EXCEPT !.accepted = TRUE, !.mode = mode]
    <2>2. GoodRequest(q) /\ ~q.terminal
        <3>1. GoodRequest(req[r]) /\ req[r] \in RequestType
            BY DEF Core, Sounds, Sound
        <3>2. q \in RequestType
            BY <3>1, ServiceAssumption DEF RequestType
        <3>3. q.pending = <<>> /\ q.held = <<>> /\ ~q.terminal
            BY <2>1 DEF NewRequest
        <3> HIDE DEF q
        <3> QED BY <3>2, <3>3, ServiceAssumption DEF GoodRequest
    <2> HIDE DEF q
    <2>3. CASE AttemptStarts(r, q) /\ UNCHANGED stack
        BY <2>2, <2>3, AbandonStarts
    <2>4. CASE AttemptFails(r, q, stack) /\ UNCHANGED wire
        <3>1. ~wire'[r].open /\ WireQuiet
            BY <2>1, <2>4 DEF NoWire, WireQuiet
        <3> DEFINE c == [q EXCEPT !.waiting = FALSE, !.retryTicker = FALSE]
        <3>2. Complete(r, c, "Failed", stack)
            BY <2>4 DEF AttemptFails
        <3> HIDE DEF c
        <3> QED BY <3>1, <3>2, StaysNow, GuardedComplete, AbandonStep
    <2> QED BY <2>3, <2>4 DEF Admit, q
<1> QED BY <1>1, <1>2 DEF Start

LEMMA AbandonResume ==
    ASSUME Core, AbandonInv, NEW r \in Requests, ResumeRequestAfterBackoff(r) PROVE AbandonInv'
<1>1. GoodRequest(req[r]) /\ ~req[r].terminal /\ ~wire[r].open /\ Idle
    BY WaitingFit DEF ResumeRequestAfterBackoff
<1>2. CASE AttemptStarts(r, req[r]) /\ UNCHANGED <<active, stack, told>>
    BY <1>1, <1>2, AbandonStarts
<1>3. CASE AttemptFails(r, req[r], <<>>) /\ UNCHANGED wire
    <2> DEFINE c == [req[r] EXCEPT !.waiting = FALSE, !.retryTicker = FALSE]
    <2>1. Complete(r, c, "Failed", <<>>)
        BY <1>3 DEF AttemptFails
    <2> HIDE DEF c
    <2>2. WireQuiet /\ ~wire'[r].open
        BY <1>1, <1>3 DEF WireQuiet
    <2>3. Stays(<<>>) /\ <<>> \in Seq(Frames)
        BY <1>1, StaysIdle
    <2> QED BY <2>1, <2>2, <2>3, GuardedComplete, AbandonStep
<1> QED BY <1>2, <1>3 DEF ResumeRequestAfterBackoff

LEMMA AbandonCancelRequest ==
    ASSUME Core, AbandonInv, NEW r \in Requests, CancelRequest(r) PROVE AbandonInv'
<1>1. req[r] \in RequestType /\ r \in active /\ WireQuiet
    BY DEF CancelRequest, Core, WireQuiet
<1> DEFINE s == <<Frame("cancel", r)>> \o stack
<1>2. Stays(s)
    <2>1. <<Frame("cancel", r)>> \in Seq({Frame("cancel", r)})
        OBVIOUS
    <2> QED BY <2>1, StaysNow, StaysOver
<1>3. s \in Seq(Frames)
    <2>1. Frame("cancel", r) \in Frames
        BY DEF Frame, Frames
    <2> QED BY <2>1, StaysNow, PushAt
<1> HIDE DEF s
<1>4. CASE Drain(r, req[r], s)
    BY <1>1, <1>2, <1>3, <1>4, GuardedDrain, AbandonStep
<1>5. CASE FinishCancel(r, req[r], stack)
    BY <1>1, <1>5, StaysNow, GuardedAbort, AbandonStep DEF FinishCancel
<1> QED BY <1>4, <1>5 DEF CancelRequest, s

\* What neither ends a request nor opens a transport, nor pops a cancellation.
LEMMA AbandonQuiet ==
    ASSUME Core, AbandonInv, Stays(stack'), WireQuiet,
           \A x \in Requests : req'[x].terminal = req[x].terminal
    PROVE  AbandonInv'
BY DEF AbandonInv, WireQuiet, Stays

LEMMA AbandonWire ==
    ASSUME Core, AbandonInv, NEW r \in Requests,
           ReceiveChunk(r) \/ ReceiveStatus(r) \/ PostDrain(r) \/ DeadlinePasses(r)
    PROVE  AbandonInv'
<1>1. Stays(stack')
    BY StaysNow DEF ReceiveChunk, ReceiveStatus, PostDrain, DeadlinePasses, Stays
<1>2. req[r] \in RequestType
    BY DEF Core
<1>3. WireQuiet
    <2>1. ASSUME NEW w \in WireType
          PROVE  /\ \A n : [w EXCEPT !.sent = n].open = w.open /\ [w EXCEPT !.sent = n].cancelled = w.cancelled
                 /\ \A n : [w EXCEPT !.status = n].open = w.open /\ [w EXCEPT !.status = n].cancelled = w.cancelled
        BY DEF WireType
    <2>2. \/ UNCHANGED wire
          \/ \E n : wire' = [wire EXCEPT ![r].sent = n]
          \/ \E n : wire' = [wire EXCEPT ![r].status = n]
        BY DEF ReceiveChunk, ReceiveStatus, PostDrain, DeadlinePasses
    <2>3. ASSUME NEW n, wire' = [wire EXCEPT ![r].sent = n] \/ wire' = [wire EXCEPT ![r].status = n]
          PROVE  WireQuiet
        <3>1. wire \in [Requests -> WireType]
            BY DEF Core, RestType
        <3>2. \A x \in Requests \ {r} : wire'[x] = wire[x]
            BY <2>3, <3>1
        <3>3. wire'[r].open = wire[r].open /\ wire'[r].cancelled = wire[r].cancelled
            <4>1. wire'[r] = [wire[r] EXCEPT !.sent = n] \/ wire'[r] = [wire[r] EXCEPT !.status = n]
                BY <2>3, <3>1
            <4>2. wire[r] \in WireType
                BY <3>1
            <4> QED BY <4>1, <4>2 DEF WireType
        <3> QED BY <3>2, <3>3 DEF WireQuiet
    <2> QED BY <2>2, <2>3 DEF WireQuiet
<1>4. \A x \in Requests \ {r} : req'[x] = req[x]
    BY DEF ReceiveChunk, ReceiveStatus, PostDrain, DeadlinePasses, Core
<1>5. req'[r].terminal = req[r].terminal
    <2>1. \A q \in RequestType : ScheduleDrain(q).terminal = q.terminal
        BY DEF ScheduleDrain, RequestType
    <2>2. CASE ReceiveChunk(r)
        <3> PICK chunk :
              LET q == req[r]
              IN req' = [req EXCEPT ![r] = ScheduleDrain(
                         IF Len(q.pending) >= QueueCapacity
                         THEN [q EXCEPT !.accept = FALSE, !.overflowed = TRUE]
                         ELSE [q EXCEPT !.pending = Append(@, chunk)])]
            BY <2>2 DEF ReceiveChunk
        <3> DEFINE a == [req[r] EXCEPT !.accept = FALSE, !.overflowed = TRUE]
                   b == [req[r] EXCEPT !.pending = Append(req[r].pending, chunk)]
        <3>1. ScheduleDrain(a).terminal = req[r].terminal
            BY <1>2 DEF RequestType, ScheduleDrain
        <3>2. ScheduleDrain(b).terminal = req[r].terminal
            BY <1>2 DEF RequestType, ScheduleDrain
        <3>3. req' = [req EXCEPT ![r] = ScheduleDrain(a)] \/ req' = [req EXCEPT ![r] = ScheduleDrain(b)]
            OBVIOUS
        <3> HIDE DEF a, b
        <3> QED BY <3>1, <3>2, <3>3 DEF Core
    <2>3. CASE ReceiveStatus(r)
        <3> PICK code \in {"ok", "error"} :
              LET q == [req[r] EXCEPT !.status = code]
              IN req' = [req EXCEPT ![r] = IF q.pending # <<>> THEN ScheduleDrain(q) ELSE q]
            BY <2>3 DEF ReceiveStatus
        <3> DEFINE q == [req[r] EXCEPT !.status = code]
        <3>1. q \in RequestType /\ q.terminal = req[r].terminal
            BY <1>2 DEF RequestType, Codes
        <3>2. req' = [req EXCEPT ![r] = q] \/ req' = [req EXCEPT ![r] = ScheduleDrain(q)]
            OBVIOUS
        <3> HIDE DEF q
        <3> QED BY <2>1, <3>1, <3>2 DEF Core
    <2>4. CASE PostDrain(r)
        BY <1>2, <2>4 DEF PostDrain, Core, RequestType
    <2>5. CASE DeadlinePasses(r)
        BY <1>2, <2>5 DEF DeadlinePasses, Core, RequestType
    <2> QED BY <2>2, <2>3, <2>4, <2>5
<1> QED BY <1>1, <1>3, <1>4, <1>5, AbandonQuiet

LEMMA AbandonParse ==
    ASSUME Core, AbandonInv, NEW k, Running(k), k # "abort", UNCHANGED wire,
           NEW f, f.r \in active,
           ProcessSseEvent(f) \/ StreamFails(f) \/ TakeChunk(f)
    PROVE  AbandonInv'
<1>1. Stays(Rest) /\ Rest \in Seq(Frames) /\ WireQuiet
    BY StaysRest DEF WireQuiet
<1>2. f.r \in Requests /\ req[f.r] \in RequestType
    BY DEF Core, RestType
<1>3. CASE ProcessSseEvent(f)
    <2> DEFINE g == [f EXCEPT !.events = Tail(@)]
               c == [req[f.r] EXCEPT !.saw = TRUE, !.ended = @ \/ Head(f.events) = StreamLength]
    <2>1. stack' = <<Delegate(f.r), g>> \o Rest /\ req' = [req EXCEPT ![f.r] = c]
        BY <1>3 DEF ProcessSseEvent
    <2>2. c.terminal = req[f.r].terminal
        BY <1>2 DEF RequestType
    <2> HIDE DEF g, c
    <2>3. <<Delegate(f.r), g>> \in Seq({Delegate(f.r), g})
        OBVIOUS
    <2>4. Stays(stack')
        BY <1>1, <2>1, <2>3, StaysOver
    <2>5. \A x \in Requests : Guarded(x)
        BY <1>1, <1>2, <2>1, <2>2, GuardedPut
    <2> QED BY <2>4, <2>5, AbandonStep
<1>4. CASE StreamFails(f)
    BY <1>1, <1>2, <1>4, GuardedAbort, AbandonStep DEF StreamFails
<1>5. CASE TakeChunk(f)
    <2> DEFINE p == IF f.code = "error"
                    THEN [events |-> <<>>, held |-> req[f.r].held]
                    ELSE Parsed(req[f.r], Head(f.chunks))
               g == [f EXCEPT !.chunks = Tail(@), !.events = p.events]
               c == [req[f.r] EXCEPT !.held = p.held]
    <2>1. stack' = <<g>> \o Rest /\ req' = [req EXCEPT ![f.r] = c]
        BY <1>5 DEF TakeChunk
    <2> HIDE DEF p
    <2>2. c.terminal = req[f.r].terminal
        BY <1>2 DEF RequestType
    <2> HIDE DEF g, c
    <2>3. <<g>> \in Seq({g})
        OBVIOUS
    <2>4. Stays(stack')
        BY <1>1, <2>1, <2>3, StaysOver
    <2>5. \A x \in Requests : Guarded(x)
        BY <1>1, <1>2, <2>1, <2>2, GuardedPut
    <2> QED BY <2>4, <2>5, AbandonStep
<1> QED BY <1>3, <1>4, <1>5

LEMMA AbandonGameThread == ASSUME Core, AbandonInv, GameThread PROVE AbandonInv'
<1> DEFINE f == Head(stack)
           r == Head(stack).r
<1>1. ASSUME NEW k, Running(k), k \notin {"pump", "abort"}
      PROVE  /\ r \in Requests /\ req[r] \in RequestType /\ GoodRequest(req[r])
             /\ Stays(Rest) /\ Rest \in Seq(Frames)
             /\ Settling(Rest, r) => Settling(stack, r)
             /\ k \in Late => Rest = <<Settle(r)>>
    <2>1. r \in Requests
        BY <1>1, TopRequest
    <2>2. Settling(Rest, r) => Settling(stack, r)
        BY <1>1, Pop DEF Core, Running, Idle, Rest
    <2>3. k \in Late => Rest = <<Settle(r)>>
        BY <1>1, TopFrame DEF Core
    <2> QED BY <1>1, <2>1, <2>2, <2>3, StaysRest DEF Core, Sounds, Sound
<1>2. ASSUME NEW k, Running(k), k # "abort", stack' = Rest, UNCHANGED <<req, wire>> PROVE AbandonInv'
    BY <1>2, StaysRest, AbandonQuiet DEF WireQuiet
<1>3. ASSUME NEW k \in {"response", "finish"}, Running(k), r \in active, UNCHANGED wire
      PROVE  ~wire'[r].open /\ ~req[r].terminal
    <2>1. ~wire'[r].open
        BY <1>3, SettlingFit DEF Fit
    <2> QED BY <1>3, <2>1, RunningFit
<1>4. CASE DrainStep
    BY <1>2, <1>4, AbandonParse DEF DrainStep
<1>5. CASE ResponseStep
    <2> DEFINE q == [req[r] EXCEPT !.attached = FALSE]
    <2>1. Running("response") /\ UNCHANGED wire /\ WireQuiet
        BY <1>5 DEF ResponseStep, WireQuiet
    <2>2. r \in Requests /\ req[r] \in RequestType /\ Stays(Rest) /\ Rest \in Seq(Frames)
        BY <1>1, <2>1
    <2>3. q \in RequestType /\ q.terminal = req[r].terminal
        BY <2>2 DEF RequestType
    <2>4. CASE r \notin active
        BY <1>2, <1>5, <2>1, <2>4 DEF ResponseStep
    <2>5. ASSUME r \in active,
                 RetryOrFail(r, q, Rest) \/ Complete(r, q, "Failed", Rest)
          PROVE  AbandonInv'
        <3>1. ~wire'[r].open /\ ~q.terminal
            BY <1>3, <2>1, <2>3, <2>5
        <3> HIDE DEF q, r
        <3> QED BY <2>1, <2>2, <2>3, <2>5, <3>1, GuardedRetryOrFail, GuardedComplete, AbandonStep
    <2>6. ASSUME req' = [req EXCEPT ![r] = [q EXCEPT !.held = <<>>]],
                 stack' = <<[kind |-> "finish", r |-> r, events |-> q.held]>> \o Rest
          PROVE  AbandonInv'
        <3> DEFINE c == [q EXCEPT !.held = <<>>]
                   g == [kind |-> "finish", r |-> r, events |-> q.held]
        <3>1. c.terminal = req[r].terminal /\ <<g>> \in Seq({g})
            BY <2>3 DEF RequestType
        <3>2. req' = [req EXCEPT ![r] = c] /\ stack' = <<g>> \o Rest
            BY <2>6
        <3> HIDE DEF c, g, r
        <3>3. Stays(stack')
            BY <2>2, <3>1, <3>2, StaysOver
        <3>4. \A x \in Requests : Guarded(x)
            BY <2>1, <2>2, <3>1, <3>2, GuardedPut
        <3> QED BY <3>3, <3>4, AbandonStep
    <2> QED BY <1>5, <2>4, <2>5, <2>6 DEF ResponseStep
<1>6. CASE FinishStep
    <2>1. Running("finish") /\ UNCHANGED wire /\ WireQuiet
        BY <1>6 DEF FinishStep, WireQuiet
    <2>2. r \in Requests /\ req[r] \in RequestType /\ Stays(Rest) /\ Rest \in Seq(Frames)
        BY <1>1, <2>1
    <2>3. ASSUME r \in active, NEW how,
                 RetryOrFail(r, req[r], Rest) \/ Complete(r, req[r], how, Rest)
          PROVE  AbandonInv'
        <3>1. ~wire'[r].open /\ ~req[r].terminal
            BY <1>3, <2>1, <2>3
        <3> HIDE DEF r
        <3> QED BY <2>1, <2>2, <2>3, <3>1, GuardedRetryOrFail, GuardedComplete, AbandonStep
    <2> QED BY <1>2, <1>6, <2>1, <2>3, AbandonParse DEF FinishStep
<1>7. CASE BackoffStep \/ SettleStep
    <2>1. /\ Running("backoff") \/ Running("settle")
          /\ stack' = Rest /\ UNCHANGED wire
        BY <1>7 DEF BackoffStep, SettleStep
    <2>2. r \in Requests /\ req[r] \in RequestType /\ Stays(Rest)
        BY <1>1, <2>1
    <2>3. \A x \in Requests : req'[x].terminal = req[x].terminal
        <3>1. \E n : req' = [req EXCEPT ![r].retryTicker = n] \/ req' = [req EXCEPT ![r].physical = n]
            BY <1>7 DEF BackoffStep, SettleStep
        <3>2. PICK n : req' = [req EXCEPT ![r].retryTicker = n] \/ req' = [req EXCEPT ![r].physical = n]
            BY <3>1
        <3>3. /\ [req[r] EXCEPT !.retryTicker = n].terminal = req[r].terminal
              /\ [req[r] EXCEPT !.physical = n].terminal = req[r].terminal
            BY <2>2 DEF RequestType
        <3>4. req'[r].terminal = req[r].terminal
            BY <2>2, <3>2, <3>3 DEF Core
        <3>5. \A x \in Requests \ {r} : req'[x] = req[x]
            BY <2>2, <3>2 DEF Core
        <3> QED BY <3>4, <3>5
    <2> QED BY <2>1, <2>2, <2>3, AbandonQuiet DEF WireQuiet
<1>8. CASE CancelStep
    <2>1. Running("cancel") /\ UNCHANGED wire /\ WireQuiet
        BY <1>8 DEF CancelStep, WireQuiet
    <2>2. Stays(Rest) /\ Rest \in Seq(Frames)
        BY <1>1, <2>1
    <2>3. ASSUME r \in active, FinishCancel(r, req[r], Rest) PROVE AbandonInv'
        <3> HIDE DEF r
        <3> QED BY <2>1, <2>2, <2>3, GuardedAbort, AbandonStep DEF FinishCancel
    <2> QED BY <1>2, <1>8, <2>1, <2>3 DEF CancelStep
<1>9. CASE AbortStep
    <2>1. Running("abort") /\ stack' = Rest /\ UNCHANGED req
          /\ wire' = [wire EXCEPT ![r].cancelled = TRUE]
        BY <1>9 DEF AbortStep
    <2>2. r \in Requests /\ Head(stack) = Frame("abort", r)
        BY <2>1, TopRequest, TopFrame, FrameKinds DEF Core
    <2>3. ASSUME NEW x \in Requests, Suspended(stack, Frame("abort", x))
          PROVE  x = r \/ Suspended(Rest, Frame("abort", x))
        BY <2>1, <2>2, <2>3, PopKeeps DEF Core, WellStacked, Running, Idle, Rest, Frame
    <2>4. wire'[r].cancelled /\ \A x \in Requests \ {r} : wire'[x] = wire[x]
        <3>1. ASSUME NEW w \in WireType PROVE [w EXCEPT !.cancelled = TRUE].cancelled
            BY DEF WireType
        <3> QED BY <2>1, <2>2, <3>1 DEF Core, RestType
    <2> HIDE DEF r
    <2> QED BY <2>1, <2>3, <2>4 DEF AbandonInv
<1>10. CASE PumpStep
    <2>1. Running("pump") /\ UNCHANGED wire /\ WireQuiet
        BY <1>10 DEF PumpStep, WireQuiet
    <2>2. f.due \in SUBSET Requests /\ Stays(Rest) /\ Rest \in Seq(Frames) /\ f \in Frames
          /\ Serves(f) \subseteq Served(stack) /\ f.kind = "pump"
        BY <2>1, TopFrame, FrameKinds, StaysRest DEF Core
    <2>3. CASE stack' = Rest /\ UNCHANGED req
        BY <1>2, <2>1, <2>3
    <2>4. ASSUME NEW x \in f.due,
             LET after == <<[f EXCEPT !.due = @ \ {x}]>> \o Rest
             IN IF req[x].terminal
                THEN stack' = after /\ UNCHANGED <<req, active, told>>
                ELSE Complete(x, req[x], "Failed", Abort(x, req[x]) \o after)
          PROVE  AbandonInv'
        <3> DEFINE g == [f EXCEPT !.due = @ \ {x}]
                   after == <<g>> \o Rest
        <3>1. g \in Frames
            BY <2>2 DEF Frames
        <3> HIDE DEF g
        <3>2. <<g>> \in Seq({g}) /\ after \in Seq(Frames)
            BY <2>2, <3>1, PushAt
        <3>3. Stays(after)
            BY <2>2, <3>2, StaysOver
        <3> HIDE DEF after
        <3>4. CASE stack' = after /\ UNCHANGED req
            BY <2>1, <3>3, <3>4, AbandonQuiet
        <3>5. CASE ~req[x].terminal /\ Complete(x, req[x], "Failed", Abort(x, req[x]) \o after)
            <4>1. x \in Served(stack)
                BY <2>2 DEF Serves
            <4>2. x \in active
                BY <2>2, <3>5, <4>1 DEF Core, Sounds, Sound
            <4> QED BY <2>1, <3>2, <3>3, <3>5, <4>2, GuardedAbort, AbandonStep
        <3> QED BY <2>4, <3>4, <3>5 DEF after, g
    <2> QED BY <1>10, <2>3, <2>4 DEF PumpStep
<1>11. CASE DelegateReturns
    BY <1>2, <1>11 DEF DelegateReturns
<1> QED BY <1>4, <1>5, <1>6, <1>7, <1>8, <1>9, <1>10, <1>11 DEF GameThread

LEMMA AbandonPump ==
    ASSUME Core, AbandonInv, NEW t \in tickers, PumpDeadlines(t) PROVE AbandonInv'
BY StaysIdle, AbandonQuiet DEF PumpDeadlines, WireQuiet

LEMMA AbandonShutdown == ASSUME Core, AbandonInv, Shutdown PROVE AbandonInv'
<1>1. Stays(stack')
    BY StaysNow DEF Shutdown, Stays
<1>2. ASSUME NEW x \in Requests PROVE Guarded(x)
    <2>1. Sounds(x) /\ wire[x] \in WireType
        BY DEF Core, RestType
    <2>2. \A w \in WireType : [w EXCEPT !.cancelled = TRUE].cancelled
        BY DEF WireType
    <2>3. wire'[x] = IF x \in active /\ req[x].attached
                     THEN [wire[x] EXCEPT !.cancelled = TRUE] ELSE wire[x]
        BY DEF Shutdown
    <2>4. CASE x \notin active
        BY <2>3, <2>4 DEF Shutdown, Guarded
    <2>5. CASE x \in active /\ req[x].attached
        BY <2>1, <2>2, <2>3, <2>5 DEF Guarded
    <2>6. CASE x \in active /\ ~req[x].attached
        BY <2>1, <2>3, <2>6 DEF Guarded, Sounds, Sound
    <2> QED BY <2>4, <2>5, <2>6
<1> QED BY <1>1, <1>2, AbandonStep

LEMMA AbandonNext == ASSUME Core, AbandonInv, [Next]_vars PROVE AbandonInv'
<1>1. ASSUME NEW n \in Limits, SetLimits(n) PROVE AbandonInv'
    BY <1>1 DEF SetLimits, AbandonInv
<1>2. CASE UNCHANGED vars
    BY <1>2 DEF vars, AbandonInv
<1> QED BY <1>1, <1>2, AbandonUnaccepted, AbandonDrainTask, AbandonTransport, AbandonResume,
           AbandonCancelRequest, AbandonWire, AbandonGameThread, AbandonPump, AbandonShutdown DEF Next

\* Slots, deadlines and transports are accounted for in every behaviour: the
\* physical requests stay within the limit across retries, shutdowns and new
\* limits, every running request has a deadline ticker, and no transport whose
\* request has ended runs on without its cancellation, whichever delegate,
\* drain, deadline or shutdown ended it.
THEOREM Accounted == Spec => []TransportsAreAccounted
<1>1. Init => Core /\ CapacityInv /\ TickerInv /\ AbandonInv
    <2>1. Init => TickerInv /\ AbandonInv
        BY DEF Init, TickerInv, AbandonInv, NoWire
    <2> QED BY <2>1, InitCore, InitCapacity
<1>2. Core /\ CapacityInv /\ TickerInv /\ AbandonInv /\ [Next]_vars
      => (Core /\ CapacityInv /\ TickerInv /\ AbandonInv)'
    BY NextCore, CapacityStep, TickerStep, AbandonNext
<1>3. Core /\ CapacityInv /\ TickerInv /\ AbandonInv => TransportsAreAccounted
    <2>1. TickerInv => DeadlinesAreWatched
        BY DEF TickerInv, DeadlinesAreWatched
    <2> QED BY <2>1, CapacityHolds, AbandonHolds DEF TransportsAreAccounted
<1> QED BY <1>1, <1>2, <1>3, PTL DEF Spec

-----------------------------------------------------------------------------
(* What the caller hears *)

\* A request that runs has not been told its end.
TellInv == \A r \in Requests : r \in active => told[r] = <<>>

Heard == <<active, heard, told>>

LEMMA FirstOf == ASSUME NEW e PROVE Append(<<>>, e) = <<e>>
OBVIOUS

\* A request of the service ends once, and hears no more.
LEMMA EndsOnce ==
    ASSUME Core, TellInv, NEW r \in active, NEW q, NEW how \in Ends \ {"Closed"}, NEW rest,
           Complete(r, q, how, rest), UNCHANGED heard
    PROVE  Contract!Next
<1>1. r \in Requests /\ told[r] = <<>> /\ Append(told[r], how) = <<how>>
    BY FirstOf DEF Core, RestType, TellInv
<1>2. told' = [told EXCEPT ![r] = <<how>>] /\ active' = active \ {r}
    BY <1>1 DEF Complete
<1>3. Contract!End(r, how)
    BY <1>2 DEF Contract!End
<1> QED BY <1>1, <1>3 DEF Contract!Next, Contract!Ends, Ends

LEMMA DrainTells ==
    ASSUME Core, TellInv, NEW r, NEW q, NEW rest, Drain(r, q, rest), UNCHANGED heard
    PROVE  Contract!Next \/ UNCHANGED Heard
BY EndsOnce DEF Drain, Heard, Ends

LEMMA RetryTells ==
    ASSUME Core, TellInv, NEW r \in active, NEW q, NEW rest, RetryOrFail(r, q, rest), UNCHANGED heard
    PROVE  Contract!Next \/ UNCHANGED Heard
BY EndsOnce DEF RetryOrFail, TryScheduleRetry, Heard, Ends

LEMMA ParseTells ==
    ASSUME Core, TellInv, NEW k \in {"drain", "finish"}, Running(k), Head(stack).r \in active,
           \/ Head(stack).events # <<>> /\ ProcessSseEvent(Head(stack))
           \/ StreamFails(Head(stack)) \/ TakeChunk(Head(stack))
    PROVE  Contract!Next \/ UNCHANGED Heard
<1> DEFINE f == Head(stack)
<1>1. f.r \in Requests
    BY DEF Core, RestType
<1>2. CASE f.events # <<>> /\ ProcessSseEvent(f)
    <2>1. f \in Frames /\ f.kind = k
        BY TopFrame DEF Core
    <2>2. Head(f.events) \in Events
        BY <1>2, <2>1, FrameKinds
    <2>3. Contract!Hear(f.r, Head(f.events))
        BY <1>2 DEF ProcessSseEvent, Contract!Hear
    <2> QED BY <1>1, <2>2, <2>3 DEF Contract!Next
<1>3. CASE StreamFails(f)
    BY <1>3, EndsOnce DEF StreamFails, Ends
<1>4. CASE TakeChunk(f)
    BY <1>4 DEF TakeChunk, Heard
<1> QED BY <1>2, <1>3, <1>4

LEMMA StartTells ==
    ASSUME Core, TellInv, NEW r \in Requests, Start(r) PROVE Contract!Next
<1>1. told[r] = <<>> /\ r \notin active /\ Contract!Unused(r)
    BY UnacceptedIsNew DEF Start, Contract!Unused
<1>2. \A how : told' = [told EXCEPT ![r] = Append(@, how)] => told' = [told EXCEPT ![r] = <<how>>]
    BY <1>1
<1>3. CASE Reject(r)
    <2>1. Contract!Refuse(r)
        BY <1>1, <1>2, <1>3 DEF Reject, Contract!Refuse
    <2> QED BY <2>1 DEF Contract!Next
<1>4. ASSUME NEW mode, NEW q, AttemptFails(r, q, stack), UNCHANGED heard PROVE Contract!Next
    <2>1. active' = active
        BY <1>1, <1>4 DEF AttemptFails, Complete
    <2>2. Contract!Refuse(r)
        BY <1>1, <1>2, <1>4, <2>1 DEF AttemptFails, Complete, Contract!Refuse
    <2> QED BY <2>2 DEF Contract!Next
<1>5. ASSUME active' = active \union {r}, UNCHANGED <<heard, told>> PROVE Contract!Next
    <2>1. Contract!Begin(r)
        BY <1>1, <1>5 DEF Contract!Begin
    <2> QED BY <2>1 DEF Contract!Next
<1> QED BY <1>3, <1>4, <1>5 DEF Start, Admit

LEMMA ContractStep ==
    ASSUME Core, TellInv, [Next]_vars PROVE Contract!Next \/ UNCHANGED Heard
<1>1. ASSUME NEW r \in Requests, ResumeRequestAfterBackoff(r) PROVE Contract!Next \/ UNCHANGED Heard
    BY <1>1, EndsOnce DEF ResumeRequestAfterBackoff, AttemptFails, Heard, Ends
<1>2. ASSUME NEW r \in Requests, CancelRequest(r) PROVE Contract!Next \/ UNCHANGED Heard
    BY <1>2, EndsOnce, DrainTells DEF CancelRequest, FinishCancel, Ends
<1>3. ASSUME NEW r \in Requests, DrainTask(r) PROVE Contract!Next \/ UNCHANGED Heard
    BY <1>3, DrainTells DEF DrainTask
<1>4. ASSUME NEW r \in Requests, TransportCompletes(r) PROVE Contract!Next \/ UNCHANGED Heard
    <2>1. PICK outcome \in Outcomes :
            HandleStreamResponse(r, outcome) \/ HandleChatCompletionResponse(r, outcome)
        BY <1>4 DEF TransportCompletes, Possible
    <2>2. UNCHANGED heard
        BY <1>4 DEF TransportCompletes
    <2>3. CASE HandleStreamResponse(r, outcome)
        BY <2>2, <2>3, DrainTells DEF HandleStreamResponse, Heard
    <2>4. CASE HandleChatCompletionResponse(r, outcome)
        BY <2>2, <2>4, RetryTells, EndsOnce DEF HandleChatCompletionResponse, Heard, Ends
    <2> QED BY <2>1, <2>3, <2>4
<1>5. ASSUME NEW r \in Requests,
             ReceiveChunk(r) \/ ReceiveStatus(r) \/ PostDrain(r) \/ DeadlinePasses(r)
      PROVE  UNCHANGED Heard
    BY <1>5 DEF ReceiveChunk, ReceiveStatus, PostDrain, DeadlinePasses, Heard
<1>6. ASSUME DrainStep PROVE Contract!Next \/ UNCHANGED Heard
    BY <1>6, ParseTells DEF DrainStep, Heard
<1>7. ASSUME ResponseStep PROVE Contract!Next \/ UNCHANGED Heard
    BY <1>7, RetryTells, EndsOnce DEF ResponseStep, Heard, Ends
<1>8. ASSUME FinishStep PROVE Contract!Next \/ UNCHANGED Heard
    BY <1>8, ParseTells, RetryTells, EndsOnce DEF FinishStep, Heard, Ends
<1>9. ASSUME CancelStep PROVE Contract!Next \/ UNCHANGED Heard
    BY <1>9, EndsOnce DEF CancelStep, FinishCancel, Heard, Ends
<1>10. ASSUME PumpStep PROVE Contract!Next \/ UNCHANGED Heard
    <2> DEFINE f == Head(stack)
    <2>1. Running("pump") /\ UNCHANGED heard
        BY <1>10 DEF PumpStep
    <2>2. f.due \in SUBSET Requests /\ f.due \subseteq Served(stack)
        BY <2>1, TopFrame, FrameKinds DEF Core, Serves
    <2>3. ASSUME NEW r \in f.due, ~req[r].terminal PROVE r \in active
        BY <2>2, <2>3 DEF Core, Sounds, Sound
    <2> QED BY <1>10, <2>1, <2>3, EndsOnce DEF PumpStep, Heard, Ends
<1>11. ASSUME BackoffStep \/ SettleStep \/ AbortStep \/ DelegateReturns PROVE UNCHANGED Heard
    BY <1>11 DEF BackoffStep, SettleStep, AbortStep, DelegateReturns, Heard
<1>12. ASSUME NEW t \in tickers, PumpDeadlines(t) PROVE UNCHANGED Heard
    BY <1>12 DEF PumpDeadlines, Heard
<1>13. ASSUME NEW n \in Limits, SetLimits(n) PROVE UNCHANGED Heard
    BY <1>13 DEF SetLimits, Heard
<1>14. ASSUME Shutdown PROVE Contract!Next \/ UNCHANGED Heard
    <2>1. CASE active = {}
        <3>1. told' = told
            BY <1>14, <2>1 DEF Shutdown, Core, RestType
        <3> QED BY <1>14, <2>1, <3>1 DEF Shutdown, Heard
    <2>2. CASE active # {}
        <3>1. told' = [r \in Requests |-> IF r \in active THEN <<"Closed">> ELSE told[r]]
            <4>1. \A r \in active : Append(told[r], "Closed") = <<"Closed">>
                BY FirstOf DEF TellInv, Core, RestType
            <4> QED BY <1>14, <4>1 DEF Shutdown
        <3>2. Contract!Close
            BY <1>14, <2>2, <3>1 DEF Shutdown, Contract!Close
        <3> QED BY <3>2 DEF Contract!Next
    <2> QED BY <2>1, <2>2
<1>15. ASSUME UNCHANGED vars PROVE UNCHANGED Heard
    BY <1>15 DEF vars, Heard
<1> QED BY <1>1, <1>2, <1>3, <1>4, <1>5, <1>6, <1>7, <1>8, <1>9, <1>10, <1>11, <1>12, <1>13,
           <1>14, <1>15, StartTells DEF Next, GameThread

LEMMA TellStep ==
    ASSUME Core, TellInv, Contract!Next \/ UNCHANGED Heard PROVE TellInv'
BY DEF TellInv, Heard, Contract!Next, Contract!Begin, Contract!Refuse, Contract!Hear, Contract!End,
       Contract!Close, Contract!Unused, Core, RestType

\* Every behaviour of the service, whatever its delegates call and in whatever
\* order transports and drains arrive, is one of the contract's: events only
\* while the request runs, one terminal callback, nothing after it or after a
\* shutdown.
THEOREM RefinesTheContract == Spec => Contract!Init /\ [][Contract!Next]_(Contract!vars)
<1>1. Init => Core /\ TellInv /\ Contract!Init
    BY InitCore DEF Init, TellInv, Contract!Init
<1>2. Core /\ TellInv /\ [Next]_vars => (Core /\ TellInv)'
    BY NextCore, ContractStep, TellStep
<1>3. Core /\ TellInv /\ [Next]_vars => [Contract!Next]_(Contract!vars)
    BY ContractStep DEF Heard, Contract!vars
<1> QED BY <1>1, <1>2, <1>3, PTL DEF Spec

-----------------------------------------------------------------------------
(* Stretches of a stream *)

\* es goes on after event a.
Run(es, a) == \A i \in 1 .. Len(es) : es[i] = a + i

First(c) == c.events[1]
Final(c) == c.events[Len(c.events)]

\* cs goes on after event a and ends with event b.
Chain(cs, a, b) ==
    /\ \A i \in 1 .. Len(cs) : Run(cs[i].events, First(cs[i]) - 1)
    /\ \A i \in 2 .. Len(cs) : First(cs[i]) = Final(cs[i - 1]) + 1
    /\ IF cs = <<>> THEN a = b ELSE First(cs[1]) = a + 1 /\ Final(cs[Len(cs)]) = b

\* From what was heard, h, over the events es and the chunks cs of a call of the
\* game thread, to the n-th event, the last the provider has sent.
Way(q, n, h, es, cs) ==
    /\ Run(h, 0) /\ Run(es, Len(h)) /\ Run(q.held, Len(h) + Len(es))
    /\ \E m \in 0 .. StreamLength :
        /\ Chain(cs, Len(h) + Len(es) + Len(q.held), m)
        /\ Chain(q.pending, m, n)

-----------------------------------------------------------------------------
(* A stream and its calls *)

\* The calls that read r's stream or wait to cancel it.
Mine(g, r) == g.kind \in {"drain", "response", "finish", "cancel"} /\ g.r = r
Own(s, r) == {g \in {At(s, d) : d \in Depths(s)} : Mine(g, r)}

Parsers(o) == {g \in o : g.kind \in {"drain", "finish"}}
ChunksOf(g) == IF g.kind = "drain" THEN g.chunks ELSE <<>>

\* Nested drains come from a cancellation; the others start a call.
Nested(s) ==
    \A d \in Depths(s) :
        At(s, d).kind = "drain" =>
            \/ d = 1
            \/ d = 3 /\ At(s, 2).kind = "response"
            \/ d > 1 /\ At(s, d - 1) = Frame("cancel", At(s, d).r)

\* A drain that is wanted is on its way.
Queued(q) ==
    /\ q.drainScheduled => q.posting \/ q.drains > 0
    /\ (q.pending # <<>> /\ q.status # "none") \/ q.overflowed => q.drainScheduled
    /\ (q.mode = "OneShot" \/ q.waiting) => q.pending = <<>> /\ ~q.overflowed /\ ~q.drainScheduled

\* Nothing is read of an attempt that has been given up, and the verdict is
\* over a whole response.
Judged(q, o) ==
    \A g \in o :
        g.kind # "cancel" =>
            /\ q.mode = "Stream" /\ ~q.waiting
            /\ g.kind # "drain" => ~q.overflowed
            /\ g.kind = "finish" => q.status = "ok"
            /\ g.kind = "response" => (g.outcome = "whole" => q.status = "ok")

\* An attempt is given up only before the caller has heard of it.
Unheard(q, h) ==
    q.mode = "Stream" /\ q.waiting => h = <<>> /\ q.held = <<>> /\ ~q.ended

Flows(q, o) ==
    /\ q.mode = "Stream" /\ ~q.waiting /\ ~q.overflowed /\ q.status # "error"
    /\ \A g \in o : g.kind # "cancel"

Ordered(q, n, h, o) ==
    /\ q.ended => Len(h) = StreamLength
    /\ \A g \in Parsers(o) :
        (g.kind = "drain" => g.code = "ok") /\ Way(q, n, h, g.events, ChunksOf(g))
    /\ Parsers(o) = {} => Way(q, n, h, <<>>, <<>>)

\* The handlers and the transport agree about the response's status.
Linked(q, w) ==
    /\ q.mode = "Stream" /\ w.open => q.status = w.status
    /\ q.mode = "OneShot" => q.status = "none"

Whole(q, w, h, o) ==
    /\ Queued(q) /\ Linked(q, w) /\ Judged(q, o) /\ Unheard(q, h)
    /\ Flows(q, o) => Ordered(q, w.sent, h, o)

Streams(r) ==
    /\ r \in active => Whole(req[r], wire[r], heard[r], Own(stack, r))
    /\ ~req[r].saw => heard[r] = <<>>

StreamInv == Nested(stack) /\ \A r \in Requests : Streams(r)

\* Who was told of a completion has heard everything.
EndInv ==
    \A r \in Requests :
        req[r].mode = "Stream" /\ told[r] = <<"Completed">> => heard[r] = [n \in Events |-> n]

-----------------------------------------------------------------------------
(* Lemmas on stretches *)

LEMMA RunTail ==
    ASSUME NEW es \in Seq(Events), es # <<>>, NEW a \in Nat, Run(es, a)
    PROVE  Head(es) = a + 1 /\ Run(Tail(es), a + 1) /\ Tail(es) \in Seq(Events)
BY DEF Run

LEMMA RunAppend ==
    ASSUME NEW h \in Seq(Events), Run(h, 0), NEW e \in Events, e = Len(h) + 1
    PROVE  Run(Append(h, e), 0) /\ Len(Append(h, e)) = Len(h) + 1
BY DEF Run

LEMMA RunOne == ASSUME NEW a, NEW e, e = a + 1 PROVE Run(<<e>>, a)
BY DEF Run

LEMMA Less ==
    ASSUME NEW k \in Nat \ {0}
    PROVE  k - 1 \in Nat /\ (k - 1) - 1 + 1 = k - 1 /\ (~(1 <= k - 1) => k - 1 = 0)
OBVIOUS

LEMMA RunFront ==
    ASSUME NEW es \in Seq(Events), es # <<>>, NEW a \in Nat, Run(es, a)
    PROVE  /\ Run(Front(es), a) /\ Len(Front(es)) = Len(es) - 1 /\ Front(es) \in Seq(Events)
           /\ Run(<<Last(es)>>, a + Len(Front(es))) /\ <<Last(es)>> \in Seq(Events)
<1>0. Len(es) \in Nat \ {0}
    OBVIOUS
<1> DEFINE n == Len(es) - 1
<1>2. n \in Int /\ 1 \in Int /\ \A i \in 1 .. n : es[i] \in Events
    BY <1>0
<1>8. Front(es) = SubSeq(es, 1, n)
    BY DEF Front
<1> HIDE DEF n
<1>9. /\ Front(es) \in Seq(Events) /\ Len(Front(es)) = IF 1 <= n THEN n - 1 + 1 ELSE 0
      /\ \A i \in 1 .. n - 1 + 1 : Front(es)[i] = es[1 + i - 1]
    BY <1>2, <1>8, SubSeqProperties
<1>1. Len(Front(es)) = Len(es) - 1 /\ \A i \in 1 .. Len(es) - 1 : Front(es)[i] = es[i]
    <2>1. n \in Nat /\ n = Len(es) - 1 /\ n - 1 + 1 = n /\ (~(1 <= n) => n = 0)
        BY <1>0, Less, Zenon DEF n
    <2>2. \A i \in 1 .. n : 1 + i - 1 = i
        BY <2>1
    <2>3. \A i \in 1 .. n : Front(es)[i] = es[i]
        BY <1>9, <2>1, <2>2
    <2>4. Len(Front(es)) = n
        BY <1>9, <2>1
    <2> QED BY <2>1, <2>3, <2>4
<1>3. Last(es) = a + Len(es) /\ Last(es) \in Events
    BY <1>0 DEF Last, Run
<1>4. Run(Front(es), a)
    BY <1>1, <1>9 DEF Run
<1>5. Last(es) = (a + Len(Front(es))) + 1
    BY <1>0, <1>1, <1>3
<1>6. Run(<<Last(es)>>, a + Len(Front(es)))
    BY <1>5, RunOne
<1>7. <<Last(es)>> \in Seq(Events)
    BY <1>3
<1> QED BY <1>1, <1>4, <1>6, <1>7, <1>9

LEMMA RunConcat ==
    ASSUME NEW x \in Seq(Events), NEW y \in Seq(Events), NEW a \in Nat,
           Run(x, a), Run(y, a + Len(x))
    PROVE  Run(x \o y, a) /\ x \o y \in Seq(Events) /\ Len(x \o y) = Len(x) + Len(y)
<1>1. x \o y \in Seq(Events) /\ Len(x \o y) = Len(x) + Len(y)
    OBVIOUS
<1>2. \A i \in 1 .. Len(x) + Len(y) :
        (x \o y)[i] = IF i <= Len(x) THEN x[i] ELSE y[i - Len(x)]
    OBVIOUS
<1>3. Len(x) \in Nat /\ Len(y) \in Nat
    OBVIOUS
<1> DEFINE z == x \o y
<1> HIDE DEF z
<1>4. ASSUME NEW i \in 1 .. Len(z) PROVE z[i] = a + i
    <2>1. CASE i <= Len(x)
        BY <1>1, <1>2, <1>3, <2>1 DEF Run, z
    <2>2. CASE ~(i <= Len(x))
        <3>1. i - Len(x) \in 1 .. Len(y)
            BY <1>1, <1>3, <2>2 DEF z
        <3> QED BY <1>1, <1>2, <1>3, <2>2, <3>1 DEF Run, z
    <2> QED BY <2>1, <2>2
<1> QED BY <1>1, <1>4 DEF Run, z

LEMMA ParsedRun ==
    ASSUME NEW q, q.held \in Seq(Events), NEW c \in FullChunks, NEW a \in Nat,
           Run(q.held, a), Run(c.events, a + Len(q.held))
    PROVE  LET p == Parsed(q, c) IN
           /\ p.events \in Seq(Events) /\ p.held \in Seq(Events)
           /\ Run(p.events, a) /\ Run(p.held, a + Len(p.events))
           /\ Len(p.events) + Len(p.held) = Len(q.held) + Len(c.events)
<1> DEFINE all == q.held \o c.events
<1>1. c.events \in Seq(Events) /\ c.events # <<>> /\ Len(c.events) > 0
    BY DEF FullChunks
<1>2. Run(all, a) /\ all \in Seq(Events) /\ Len(all) = Len(q.held) + Len(c.events)
    BY <1>1, RunConcat
<1>3. all # <<>>
    BY <1>1, <1>2
<1>4. Parsed(q, c) = IF c.open THEN [events |-> Front(all), held |-> <<Last(all)>>]
                     ELSE [events |-> all, held |-> <<>>]
    BY DEF Parsed
<1> HIDE DEF all
<1>5. /\ Run(Front(all), a) /\ Len(Front(all)) = Len(all) - 1 /\ Front(all) \in Seq(Events)
      /\ Run(<<Last(all)>>, a + Len(Front(all))) /\ <<Last(all)>> \in Seq(Events)
    BY <1>2, <1>3, RunFront
<1>6. Len(<<Last(all)>>) = 1 /\ <<>> \in Seq(Events) /\ Len(<<>>) = 0
    OBVIOUS
<1>10. Len(all) \in Nat
    <2>1. Len(q.held) \in Nat /\ Len(c.events) \in Nat
        BY <1>1
    <2>2. \A j, k \in Nat : j + k \in Nat
        OBVIOUS
    <2> QED BY <1>2, <2>1, <2>2, Zenon
<1> DEFINE p == Parsed(q, c)
<1>7. Run(<<>>, a + Len(all))
    BY DEF Run
<1>8. CASE c.open
    <2>1. p.events = Front(all) /\ p.held = <<Last(all)>>
        BY <1>4, <1>8
    <2>2. Len(Front(all)) + Len(<<Last(all)>>) = Len(all)
        BY <1>5, <1>6, <1>10
    <2> HIDE DEF p
    <2> QED BY <1>2, <1>5, <2>1, <2>2 DEF p
<1>9. CASE ~c.open
    <2>1. p.events = all /\ p.held = <<>>
        BY <1>4, <1>9
    <2>2. Len(all) + Len(<<>>) = Len(all)
        BY <1>6, <1>10
    <2> HIDE DEF p
    <2> QED BY <1>2, <1>6, <1>7, <2>1, <2>2 DEF p
<1> QED BY <1>8, <1>9

\* The bounds of a chunk.
LEMMA ChunkBounds ==
    ASSUME NEW c \in FullChunks, NEW a \in Nat
    PROVE  /\ c.events \in Seq(Events) /\ Len(c.events) \in Nat \ {0}
           /\ Run(c.events, a) <=> Run(c.events, First(c) - 1) /\ First(c) = a + 1
           /\ Run(c.events, a) => Final(c) = a + Len(c.events)
           /\ First(c) \in Nat /\ Final(c) \in Nat
<1>1. c.events \in Seq(Events) /\ Len(c.events) \in Nat \ {0}
    BY DEF FullChunks
<1>2. First(c) \in Events /\ Final(c) \in Events
    BY <1>1 DEF First, Final
<1>3. ASSUME Run(c.events, a) PROVE First(c) = a + 1 /\ Final(c) = a + Len(c.events)
    BY <1>1, <1>3 DEF Run, First, Final
<1>4. First(c) = a + 1 => First(c) - 1 = a
    BY <1>2 DEF Events
<1> QED BY <1>1, <1>2, <1>3, <1>4 DEF Events

LEMMA ChainHead ==
    ASSUME NEW cs \in Seq(FullChunks), cs # <<>>, NEW a \in Nat, NEW b \in Nat, Chain(cs, a, b)
    PROVE  /\ Head(cs) \in FullChunks /\ Run(Head(cs).events, a)
           /\ Tail(cs) \in Seq(FullChunks)
           /\ Chain(Tail(cs), a + Len(Head(cs).events), b)
<1> DEFINE t == Tail(cs)
           c == cs[1]
<1>1. Head(cs) = c /\ c \in FullChunks /\ Len(cs) \in Nat \ {0}
    OBVIOUS
<1>2. t \in Seq(FullChunks) /\ Len(t) = Len(cs) - 1 /\ \A i \in 1 .. Len(t) : t[i] = cs[i + 1]
    OBVIOUS
<1>3. Run(c.events, First(c) - 1) /\ First(c) = a + 1
    BY <1>1 DEF Chain
<1> HIDE DEF c, t
<1>4. Run(c.events, a) /\ Final(c) = a + Len(c.events) /\ Len(c.events) \in Nat
    BY <1>1, <1>3, ChunkBounds
<1>5. \A i \in 1 .. Len(t) : Run(t[i].events, First(t[i]) - 1)
    BY <1>1, <1>2 DEF Chain
<1>6. \A i \in 2 .. Len(t) : First(t[i]) = Final(t[i - 1]) + 1
    <2> SUFFICES ASSUME NEW i \in 2 .. Len(t) PROVE First(t[i]) = Final(t[i - 1]) + 1
        OBVIOUS
    <2>1. i - 1 \in 1 .. Len(t) /\ i + 1 \in 2 .. Len(cs) /\ i \in 1 .. Len(t)
        BY <1>1, <1>2
    <2>2. t[i] = cs[i + 1] /\ t[i - 1] = cs[(i - 1) + 1] /\ (i - 1) + 1 = (i + 1) - 1
        BY <1>2, <2>1
    <2>3. First(cs[i + 1]) = Final(cs[(i + 1) - 1]) + 1
        BY <2>1 DEF Chain
    <2> QED BY <2>2, <2>3
<1>7. Final(cs[Len(cs)]) = b
    BY DEF Chain
<1>8. CASE t = <<>>
    <2>1. Len(cs) = 1
        BY <1>1, <1>2, <1>8
    <2> QED BY <1>1, <1>2, <1>4, <1>5, <1>6, <1>7, <1>8, <2>1 DEF Chain, t, c
<1>9. CASE t # <<>>
    <2>1. Len(cs) >= 2 /\ Len(t) \in Nat \ {0} /\ t[1] = cs[2] /\ t[Len(t)] = cs[Len(cs)]
        <3>1. Len(t) \in Nat \ {0}
            BY <1>2, <1>9
        <3>2. 1 \in 1 .. Len(t) /\ Len(t) \in 1 .. Len(t) /\ Len(t) + 1 = Len(cs)
            BY <1>1, <1>2, <3>1
        <3> QED BY <1>2, <3>1, <3>2
    <2>2. First(cs[2]) = Final(cs[2 - 1]) + 1
        BY <1>1, <2>1 DEF Chain
    <2>3. First(t[1]) = a + Len(c.events) + 1
        BY <1>4, <2>1, <2>2 DEF c
    <2> QED BY <1>1, <1>2, <1>4, <1>5, <1>6, <1>7, <1>9, <2>1, <2>3 DEF Chain, t
<1> QED BY <1>8, <1>9

LEMMA ChainAppend ==
    ASSUME NEW cs \in Seq(FullChunks), NEW a \in Nat, NEW b \in Nat, Chain(cs, a, b),
           NEW c \in FullChunks, Run(c.events, b)
    PROVE  Chain(Append(cs, c), a, b + Len(c.events))
<1> DEFINE t == Append(cs, c)
<1>1. /\ t \in Seq(FullChunks) /\ Len(t) = Len(cs) + 1 /\ t # <<>> /\ Len(cs) \in Nat
      /\ t[Len(t)] = c /\ \A i \in 1 .. Len(cs) : t[i] = cs[i]
    OBVIOUS
<1> HIDE DEF t
<1>2. First(c) = b + 1 /\ Run(c.events, First(c) - 1) /\ Final(c) = b + Len(c.events)
    BY ChunkBounds
<1>3. \A i \in 1 .. Len(t) : Run(t[i].events, First(t[i]) - 1)
    <2> SUFFICES ASSUME NEW i \in 1 .. Len(t) PROVE Run(t[i].events, First(t[i]) - 1)
        OBVIOUS
    <2>1. i \in 1 .. Len(cs) \/ i = Len(t)
        BY <1>1
    <2> QED BY <1>1, <1>2, <2>1 DEF Chain
<1>4. \A i \in 2 .. Len(t) : First(t[i]) = Final(t[i - 1]) + 1
    <2> SUFFICES ASSUME NEW i \in 2 .. Len(t) PROVE First(t[i]) = Final(t[i - 1]) + 1
        OBVIOUS
    <2>1. CASE i \in 2 .. Len(cs)
        <3>1. t[i] = cs[i] /\ t[i - 1] = cs[i - 1]
            BY <1>1, <2>1
        <3> QED BY <2>1, <3>1 DEF Chain
    <2>2. CASE i = Len(t)
        <3>1. Len(cs) \in 1 .. Len(cs) /\ i - 1 = Len(cs) /\ cs # <<>>
            BY <1>1, <2>2
        <3>2. t[i - 1] = cs[Len(cs)] /\ Final(cs[Len(cs)]) = b
            BY <1>1, <3>1 DEF Chain
        <3> QED BY <1>1, <1>2, <2>2, <3>2
    <2>3. i \in 2 .. Len(cs) \/ i = Len(t)
        BY <1>1
    <2> QED BY <2>1, <2>2, <2>3
<1>5. First(t[1]) = a + 1
    <2>1. CASE cs = <<>>
        BY <1>1, <1>2, <2>1 DEF Chain
    <2>2. CASE cs # <<>>
        BY <1>1, <2>2 DEF Chain
    <2> QED BY <2>1, <2>2
<1> QED BY <1>1, <1>2, <1>3, <1>4, <1>5 DEF Chain, t

LEMMA ChainEmpty == \A a, b : Chain(<<>>, a, b) <=> a = b
BY DEF Chain

-----------------------------------------------------------------------------
(* What a handler does to a stream's way *)

Readable(q) == q.held \in Seq(Events) /\ q.pending \in Seq(FullChunks)

LEMMA WayBegins ==
    ASSUME NEW q, q.held = <<>>, q.pending = <<>> PROVE Way(q, 0, <<>>, <<>>, <<>>)
<1>1. Chain(<<>>, 0, 0)
    BY ChainEmpty
<1>2. Len(<<>>) = 0 /\ 0 \in 0 .. StreamLength /\ Len(<<>>) + Len(<<>>) = 0 /\ 0 + Len(q.held) = 0
    BY ServiceAssumption
<1>3. Run(<<>>, 0)
    BY DEF Run
<1>4. Run(q.held, Len(<<>>) + Len(<<>>))
    BY <1>2, <1>3
<1>5. Chain(<<>>, Len(<<>>) + Len(<<>>) + Len(q.held), 0) /\ Chain(q.pending, 0, 0)
    BY <1>1, <1>2
<1> QED BY <1>2, <1>3, <1>4, <1>5 DEF Way

LEMMA WaySame ==
    ASSUME NEW q, NEW c, c.held = q.held, c.pending = q.pending, NEW n, NEW h, NEW es, NEW cs,
           Way(q, n, h, es, cs)
    PROVE  Way(c, n, h, es, cs)
BY DEF Way

\* The drain takes the queue.
LEMMA WayDrains ==
    ASSUME NEW q, Readable(q), NEW c, c.held = q.held, c.pending = <<>>,
           NEW n \in 0 .. StreamLength, NEW h \in Seq(Events), Way(q, n, h, <<>>, <<>>)
    PROVE  Way(c, n, h, <<>>, q.pending)
<1>1. PICK m \in 0 .. StreamLength :
        Chain(<<>>, Len(h) + Len(<<>>) + Len(q.held), m) /\ Chain(q.pending, m, n)
    BY DEF Way
<1>2. m = Len(h) + Len(<<>>) + Len(q.held)
    BY <1>1, ChainEmpty
<1>3. Chain(q.pending, Len(h) + Len(<<>>) + Len(c.held), n) /\ Chain(c.pending, n, n)
    BY <1>1, <1>2, ChainEmpty
<1> QED BY <1>3 DEF Way

\* The caller hears the next event.
LEMMA WayHeard ==
    ASSUME NEW q, Readable(q), NEW c, c.held = q.held, c.pending = q.pending,
           NEW n, NEW h \in Seq(Events), NEW es \in Seq(Events), es # <<>>, NEW cs,
           Way(q, n, h, es, cs)
    PROVE  /\ Head(es) = Len(h) + 1 /\ Head(es) \in Events
           /\ Len(Append(h, Head(es))) = Len(h) + 1
           /\ Way(c, n, Append(h, Head(es)), Tail(es), cs)
<1> DEFINE e == Head(es)
           t == Tail(es)
           g == Append(h, e)
<1>1. Run(h, 0) /\ Run(es, Len(h)) /\ Run(q.held, Len(h) + Len(es))
    BY DEF Way
<1>2. Len(h) \in Nat /\ Len(es) \in Nat \ {0} /\ Len(t) = Len(es) - 1
    OBVIOUS
<1>3. e = Len(h) + 1 /\ e \in Events /\ Run(t, Len(h) + 1)
    BY <1>1, <1>2, RunTail
<1> HIDE DEF e, t
<1>4. Run(g, 0) /\ Len(g) = Len(h) + 1
    BY <1>1, <1>3, RunAppend
<1> HIDE DEF g
<1>5. Len(g) + Len(t) = Len(h) + Len(es)
    BY <1>2, <1>4
<1>6. Way(c, n, g, t, cs)
    BY <1>1, <1>3, <1>4, <1>5 DEF Way
<1> QED BY <1>3, <1>4, <1>6 DEF e, t, g

\* The parser takes a chunk.
LEMMA WayTaken ==
    ASSUME NEW q, Readable(q), NEW n \in 0 .. StreamLength, NEW h \in Seq(Events),
           NEW cs \in Seq(FullChunks), cs # <<>>, Way(q, n, h, <<>>, cs),
           NEW c, c.held = Parsed(q, Head(cs)).held, c.pending = q.pending
    PROVE  Way(c, n, h, Parsed(q, Head(cs)).events, Tail(cs))
<1> DEFINE p == Parsed(q, Head(cs))
           k == Head(cs)
           a == Len(h)
           t == Tail(cs)
<1>1. PICK m \in 0 .. StreamLength :
        Chain(cs, Len(h) + Len(<<>>) + Len(q.held), m) /\ Chain(q.pending, m, n)
    BY DEF Way
<1>2. Run(h, 0) /\ Run(q.held, Len(h) + Len(<<>>))
    BY DEF Way
<1>3. a \in Nat /\ Len(q.held) \in Nat /\ Len(<<>>) = 0 /\ m \in Nat
    BY ServiceAssumption DEF Readable
<1>4. a + Len(<<>>) = a /\ a + Len(<<>>) + Len(q.held) = a + Len(q.held) /\ a + Len(q.held) \in Nat
    BY <1>3
<1>5. Run(q.held, a) /\ Chain(cs, a + Len(q.held), m)
    BY <1>1, <1>2, <1>4
<1>6. k \in FullChunks /\ Run(k.events, a + Len(q.held)) /\ Chain(t, a + Len(q.held) + Len(k.events), m)
    BY <1>3, <1>4, <1>5, ChainHead
<1> HIDE DEF k, t, a
<1>7. /\ p.events \in Seq(Events) /\ p.held \in Seq(Events)
      /\ Run(p.events, a) /\ Run(p.held, a + Len(p.events))
      /\ Len(p.events) + Len(p.held) = Len(q.held) + Len(k.events)
    BY <1>3, <1>5, <1>6, ParsedRun DEF Readable, k
<1> HIDE DEF p
<1>8. Len(p.events) \in Nat /\ Len(p.held) \in Nat /\ Len(k.events) \in Nat
    <2>1. \A es \in Seq(Events) : Len(es) \in Nat
        OBVIOUS
    <2>2. k.events \in Seq(Events)
        BY <1>6 DEF FullChunks
    <2> QED BY <1>7, <2>1, <2>2, Zenon
<1>9. a + Len(p.events) + Len(p.held) = a + Len(q.held) + Len(k.events)
    <2> DEFINE x == Len(p.events)
               y == Len(p.held)
               u == Len(q.held)
               v == Len(k.events)
    <2>1. x \in Nat /\ y \in Nat /\ u \in Nat /\ v \in Nat /\ x + y = u + v /\ a \in Nat
        BY <1>3, <1>7, <1>8
    <2> HIDE DEF x, y, u, v
    <2>2. a + x + y = a + u + v
        BY <2>1
    <2> QED BY <2>2 DEF x, y, u, v
<1>10. Chain(t, a + Len(p.events) + Len(c.held), m) /\ Chain(c.pending, m, n)
    BY <1>1, <1>6, <1>9 DEF p, k
<1>11. c.held = p.held
    BY DEF p, k
<1> QED BY <1>2, <1>7, <1>10, <1>11 DEF Way, a, t, p, k

\* The parser gives up what it held back.
LEMMA WayFinishes ==
    ASSUME NEW q, Readable(q), NEW n, NEW h \in Seq(Events), Way(q, n, h, <<>>, <<>>),
           NEW c, c.held = <<>>, c.pending = q.pending
    PROVE  Way(c, n, h, q.held, <<>>)
<1>1. Len(h) \in Nat /\ Len(q.held) \in Nat /\ Len(<<>>) = 0
    BY DEF Readable
<1>2. Len(h) + Len(<<>>) = Len(h) /\ Len(h) + Len(<<>>) + Len(q.held) = Len(h) + Len(q.held)
      /\ Len(h) + Len(q.held) + Len(c.held) = Len(h) + Len(q.held)
    BY <1>1
<1>3. Run(c.held, Len(h) + Len(q.held))
    BY DEF Run
<1>4. Run(h, 0) /\ Run(q.held, Len(h))
    BY <1>2 DEF Way
<1> QED BY <1>2, <1>3, <1>4 DEF Way

\* The transport sends a chunk.
LEMMA WayGrows ==
    ASSUME NEW q, Readable(q), NEW n \in 0 .. StreamLength, NEW h, NEW es, NEW cs,
           Way(q, n, h, es, cs), NEW k \in FullChunks, Run(k.events, n),
           NEW c, c.held = q.held, c.pending = Append(q.pending, k)
    PROVE  Way(c, n + Len(k.events), h, es, cs)
<1>1. PICK m \in 0 .. StreamLength :
        Chain(cs, Len(h) + Len(es) + Len(q.held), m) /\ Chain(q.pending, m, n)
    BY DEF Way
<1>2. m \in Nat /\ n \in Nat
    BY ServiceAssumption
<1>3. Chain(c.pending, m, n + Len(k.events))
    BY <1>1, <1>2, ChainAppend DEF Readable
<1> QED BY <1>1, <1>3 DEF Way

LEMMA NextIsRun ==
    ASSUME NEW n \in 0 .. StreamLength, NEW k \in NextChunks(n)
    PROVE  /\ k \in FullChunks /\ Run(k.events, n)
           /\ Last(k.events) = n + Len(k.events) /\ Last(k.events) \in 0 .. StreamLength
<1>1. n \in Nat /\ StreamLength \in Nat
    BY ServiceAssumption
<1>2. PICK es \in {<<n + 1>>, <<n + 1, n + 2>>}, o \in BOOLEAN :
        Last(es) <= StreamLength /\ k = [events |-> es, open |-> o]
    BY DEF NextChunks
<1>5. k.events = es /\ (es \in Seq(Events) \ {<<>>} => k \in FullChunks)
    BY <1>2 DEF FullChunks
<1>6. Last(es) \in Nat => Last(es) \in 0 .. StreamLength
    BY <1>1, <1>2
<1>3. CASE es = <<n + 1>>
    <2>1. Last(es) = n + 1 /\ Len(es) = 1
        BY <1>3 DEF Last
    <2>2. n + 1 \in Events
        BY <1>1, <1>2, <2>1 DEF Events
    <2>3. es \in Seq(Events) \ {<<>>}
        BY <1>3, <2>2
    <2>4. Run(es, n)
        BY <1>3 DEF Run
    <2> QED BY <1>1, <1>5, <1>6, <2>1, <2>3, <2>4
<1>4. CASE es = <<n + 1, n + 2>>
    <2>1. Last(es) = n + 2 /\ Len(es) = 2
        BY <1>4 DEF Last
    <2>2. n + 1 \in Events /\ n + 2 \in Events
        BY <1>1, <1>2, <2>1 DEF Events
    <2>3. es \in Seq(Events) \ {<<>>}
        BY <1>4, <2>2
    <2>4. Run(es, n)
        BY <1>4 DEF Run
    <2> QED BY <1>1, <1>5, <1>6, <2>1, <2>3, <2>4
<1> QED BY <1>2, <1>3, <1>4

-----------------------------------------------------------------------------
(* What a step does to the calls of a stream *)

LEMMA OwnPush ==
    ASSUME NEW s \in Seq(Frames), NEW f \in Frames, NEW x
    PROVE  /\ Mine(f, x) => Own(<<f>> \o s, x) = Own(s, x) \union {f}
           /\ ~Mine(f, x) => Own(<<f>> \o s, x) = Own(s, x)
<1> DEFINE t == <<f>> \o s
<1>1. /\ t \in Seq(Frames) /\ Len(t) = Len(s) + 1 /\ Len(s) \in Nat
      /\ At(t, Len(t)) = f
      /\ \A d \in Depths(s) : At(t, d) = At(s, d)
    BY PushAt
<1> HIDE DEF t
<1>2. Depths(t) = Depths(s) \union {Len(t)}
    BY <1>1 DEF Depths
<1>3. {At(t, d) : d \in Depths(t)} = {At(s, d) : d \in Depths(s)} \union {f}
    BY <1>1, <1>2
<1> QED BY <1>3 DEF Own, t

LEMMA OwnPop ==
    ASSUME NEW s \in Seq(Frames), s # <<>>, NEW x
    PROVE  /\ Mine(Head(s), x) => Own(s, x) = Own(Tail(s), x) \union {Head(s)}
           /\ ~Mine(Head(s), x) => Own(s, x) = Own(Tail(s), x)
<1> DEFINE t == Tail(s)
<1>1. /\ t \in Seq(Frames) /\ Len(t) = Len(s) - 1 /\ Len(s) \in Nat \ {0}
      /\ Head(s) = At(s, Len(s))
      /\ \A d \in Depths(t) : At(t, d) = At(s, d)
    BY PopAt
<1> HIDE DEF t
<1>2. Depths(s) = Depths(t) \union {Len(s)}
    BY <1>1 DEF Depths
<1>3. {At(s, d) : d \in Depths(s)} = {At(t, d) : d \in Depths(t)} \union {Head(s)}
    BY <1>1, <1>2
<1> QED BY <1>3 DEF Own, t

LEMMA NoCalls == (\A x : Own(<<>>, x) = {}) /\ Nested(<<>>) /\ <<>> \in Seq(Frames)
BY DEF Own, Depths, Nested

\* Where a drain may run.
Drains(f, s) ==
    \/ s = <<>>
    \/ Len(s) = 2 /\ Head(s).kind = "response"
    \/ s # <<>> /\ Head(s) = Frame("cancel", f.r)

LEMMA NestedPush ==
    ASSUME NEW s \in Seq(Frames), Nested(s), NEW f \in Frames, f.kind = "drain" => Drains(f, s)
    PROVE  Nested(<<f>> \o s)
<1> DEFINE t == <<f>> \o s
<1>1. /\ t \in Seq(Frames) /\ Len(t) = Len(s) + 1 /\ Len(s) \in Nat
      /\ At(t, Len(t)) = f
      /\ \A d \in Depths(s) : At(t, d) = At(s, d)
    BY PushAt
<1>2. s # <<>> => Head(s) = At(s, Len(s)) /\ Len(s) \in Depths(s)
    BY PopAt DEF Depths
<1> HIDE DEF t
<1>3. ASSUME NEW d \in Depths(t), At(t, d).kind = "drain"
      PROVE  \/ d = 1
             \/ d = 3 /\ At(t, 2).kind = "response"
             \/ d > 1 /\ At(t, d - 1) = Frame("cancel", At(t, d).r)
    <2>1. CASE d \in Depths(s)
        <3>1. At(t, d) = At(s, d) /\ d \in Nat \ {0}
            BY <1>1, <2>1 DEF Depths
        <3>2. d = 3 => 2 \in Depths(s)
            BY <1>1, <2>1 DEF Depths
        <3>3. d > 1 => d - 1 \in Depths(s)
            BY <1>1, <2>1 DEF Depths
        <3>4. \/ d = 1
              \/ d = 3 /\ At(s, 2).kind = "response"
              \/ d > 1 /\ At(s, d - 1) = Frame("cancel", At(s, d).r)
            BY <1>3, <2>1, <3>1 DEF Nested
        <3> QED BY <1>1, <3>1, <3>2, <3>3, <3>4
    <2>2. CASE d = Len(t)
        <3>1. At(t, d) = f /\ Drains(f, s)
            BY <1>1, <1>3, <2>2
        <3>2. CASE s = <<>>
            BY <1>1, <2>2, <3>2
        <3>3. CASE Len(s) = 2 /\ Head(s).kind = "response"
            <4>1. s # <<>> /\ 2 \in Depths(s) /\ d = 3
                BY <1>1, <2>2, <3>3 DEF Depths
            <4> QED BY <1>1, <1>2, <3>3, <4>1
        <3>4. CASE s # <<>> /\ Head(s) = Frame("cancel", f.r)
            <4>1. d > 1 /\ d - 1 = Len(s)
                BY <1>1, <1>2, <2>2, <3>4 DEF Depths
            <4> QED BY <1>1, <1>2, <3>1, <3>4, <4>1
        <3> QED BY <3>1, <3>2, <3>3, <3>4 DEF Drains
    <2> QED BY <1>1, <2>1, <2>2 DEF Depths
<1>4. Nested(t)
    BY <1>3 DEF Nested
<1> QED BY <1>4 DEF t

LEMMA NestedPop ==
    ASSUME NEW s \in Seq(Frames), s # <<>>, Nested(s)
    PROVE  Nested(Tail(s)) /\ (Head(s).kind = "drain" => Drains(Head(s), Tail(s)))
<1> DEFINE t == Tail(s)
<1>1. /\ t \in Seq(Frames) /\ Len(t) = Len(s) - 1 /\ Len(s) \in Nat \ {0}
      /\ Head(s) = At(s, Len(s))
      /\ \A d \in Depths(t) : At(t, d) = At(s, d)
    BY PopAt
<1>3. t = <<>> <=> Len(t) = 0
    BY <1>1
<1> HIDE DEF t
<1>2. t # <<>> => Head(t) = At(t, Len(t)) /\ Len(t) \in Depths(t)
    <2>1. t # <<>> => Head(t) = At(t, Len(t)) /\ Len(t) \in Nat \ {0}
        BY <1>1, PopAt
    <2> QED BY <2>1 DEF Depths
<1>4. Nested(t)
    <2> SUFFICES ASSUME NEW d \in Depths(t), At(t, d).kind = "drain"
                 PROVE  \/ d = 1
                        \/ d = 3 /\ At(t, 2).kind = "response"
                        \/ d > 1 /\ At(t, d - 1) = Frame("cancel", At(t, d).r)
        BY DEF Nested
    <2>1. d \in Depths(s) /\ At(t, d) = At(s, d) /\ (d = 3 => 2 \in Depths(t)) /\ (d > 1 => d - 1 \in Depths(t))
        BY <1>1 DEF Depths
    <2> QED BY <1>1, <2>1 DEF Nested
<1>5. ASSUME Head(s).kind = "drain" PROVE Drains(Head(s), t)
    <2>1. \/ Len(s) = 1
          \/ Len(s) = 3 /\ At(s, 2).kind = "response"
          \/ Len(s) > 1 /\ At(s, Len(s) - 1) = Frame("cancel", Head(s).r)
        BY <1>1, <1>5 DEF Nested, Depths
    <2>2. CASE Len(s) = 1
        BY <1>1, <1>3, <2>2 DEF Drains
    <2>3. CASE Len(s) = 3 /\ At(s, 2).kind = "response"
        BY <1>1, <1>2, <1>3, <2>3 DEF Drains, Depths
    <2>4. CASE Len(s) > 1 /\ At(s, Len(s) - 1) = Frame("cancel", Head(s).r)
        BY <1>1, <1>2, <1>3, <2>4 DEF Drains, Depths
    <2> QED BY <2>1, <2>2, <2>3, <2>4
<1> QED BY <1>4, <1>5 DEF t

\* The stack s keeps the calls of all requests but r.
For(s, r) ==
    /\ s \in Seq(Frames) /\ Nested(s)
    /\ \A x \in Requests \ {r} : Own(s, x) = Own(stack, x)

LEMMA ForNow == ASSUME Core, StreamInv, NEW r PROVE For(stack, r)
BY DEF Core, WellStacked, StreamInv, For

LEMMA ForIdle == ASSUME Idle, NEW r PROVE For(<<>>, r)
BY NoCalls DEF For, Idle

LEMMA ForRest ==
    ASSUME Core, StreamInv, NEW k, Running(k), NEW r,
           k \in {"drain", "response", "finish", "cancel"} => Head(stack).r = r
    PROVE  /\ For(Rest, r)
           /\ k = "drain" => Drains(Head(stack), Rest)
           /\ Mine(Head(stack), r) => Own(stack, r) = Own(Rest, r) \union {Head(stack)}
           /\ ~Mine(Head(stack), r) => Own(stack, r) = Own(Rest, r)
<1>1. stack \in Seq(Frames) /\ stack # <<>> /\ Head(stack).kind = k /\ Nested(stack)
    BY DEF Core, WellStacked, StreamInv, Running, Idle
<1>2. Rest \in Seq(Frames)
    BY <1>1, PopAt DEF Rest
<1>3. \A x \in Requests \ {r} : ~Mine(Head(stack), x)
    BY <1>1 DEF Mine
<1> QED BY <1>1, <1>2, <1>3, OwnPop, NestedPop DEF For, Rest

LEMMA ForPush ==
    ASSUME NEW s, NEW r, For(s, r), NEW f \in Frames,
           f.kind \in {"drain", "response", "finish", "cancel"} => f.r = r,
           f.kind = "drain" => Drains(f, s)
    PROVE  /\ For(<<f>> \o s, r)
           /\ Mine(f, r) => Own(<<f>> \o s, r) = Own(s, r) \union {f}
           /\ ~Mine(f, r) => Own(<<f>> \o s, r) = Own(s, r)
<1>1. s \in Seq(Frames) /\ Nested(s)
    BY DEF For
<1>2. \A x \in Requests \ {r} : ~Mine(f, x)
    BY DEF Mine
<1>3. <<f>> \o s \in Seq(Frames)
    BY <1>1, PushAt
<1> QED BY <1>1, <1>2, <1>3, OwnPush, NestedPush DEF For

LEMMA ForPlain ==
    ASSUME NEW s, NEW r, For(s, r), NEW f \in Frames,
           f.kind \in {"delegate", "abort", "backoff", "settle", "pump"}
    PROVE  For(<<f>> \o s, r) /\ Own(<<f>> \o s, r) = Own(s, r)
<1>1. f.kind \notin {"drain", "response", "finish", "cancel"}
    OBVIOUS
<1> QED BY <1>1, ForPush DEF Mine

LEMMA PlainFrames ==
    ASSUME NEW r \in Requests
    PROVE  /\ Delegate(r) \in Frames /\ Delegate(r).kind = "delegate"
           /\ Settle(r) \in Frames /\ Settle(r).kind = "settle"
           /\ \A k \in {"abort", "cancel", "backoff"} :
                Frame(k, r) \in Frames /\ Frame(k, r).kind = k /\ Frame(k, r).r = r
BY DEF Delegate, Settle, Frame, Frames

LEMMA ForDelegate ==
    ASSUME NEW s, NEW r \in Requests, For(s, r)
    PROVE  For(<<Delegate(r)>> \o s, r) /\ Own(<<Delegate(r)>> \o s, r) = Own(s, r)
BY PlainFrames, ForPlain

LEMMA ForAbort ==
    ASSUME NEW s, NEW r \in Requests, For(s, r), NEW q PROVE For(Abort(r, q) \o s, r)
<1>1. CASE q.attached
    BY <1>1, PlainFrames, ForPlain DEF Abort
<1>2. CASE ~q.attached
    <2>1. Abort(r, q) \o s = s
        BY <1>2 DEF Abort, For
    <2> QED BY <2>1
<1> QED BY <1>1, <1>2

\* Beneath the parser that runs no other reads the stream, unless a
\* cancellation waits.
LEMMA Beneath ==
    ASSUME Core, StreamInv, NEW k \in {"drain", "finish"}, Running(k), NEW r, r = Head(stack).r,
           \A g \in Own(Rest, r) : g.kind # "cancel"
    PROVE  Parsers(Own(Rest, r)) = {} /\ (k = "finish" => Own(Rest, r) = {})
<1>1. WellStacked(stack) /\ stack \in Seq(Frames) /\ stack # <<>> /\ Head(stack).kind = k
    BY DEF Core, WellStacked, Running, Idle
<1>2. Rest \in Seq(Frames) /\ WellStacked(Rest)
    BY <1>1, Pop, PopAt DEF Rest
<1>3. \A x : <<Settle(x)>> \in Seq(Frames) => Own(<<Settle(x)>>, r) = {}
    <2> SUFFICES ASSUME NEW x, <<Settle(x)>> \in Seq(Frames) PROVE Own(<<Settle(x)>>, r) = {}
        OBVIOUS
    <2>1. At(<<Settle(x)>>, 1) = Settle(x) /\ Depths(<<Settle(x)>>) = {1}
        BY DEF At, Depths
    <2>2. ~Mine(Settle(x), r)
        BY DEF Mine, Settle, Frame
    <2> QED BY <2>1, <2>2 DEF Own
<1>4. CASE k = "finish"
    <2>1. Rest = <<Settle(r)>>
        BY <1>4, TopFrame DEF Core, Late
    <2> QED BY <1>2, <1>3, <2>1 DEF Parsers
<1>5. CASE k = "drain"
    <2>1. Drains(Head(stack), Rest)
        BY <1>1, <1>5, NestedPop DEF StreamInv, Rest
    <2>2. CASE Rest = <<>>
        BY <1>5, <2>2, NoCalls DEF Parsers
    <2>3. CASE Len(Rest) = 2 /\ Head(Rest).kind = "response"
        <3>1. Rest # <<>>
            BY <2>3
        <3>2. Tail(Rest) = <<Settle(Head(Rest).r)>> /\ Tail(Rest) \in Seq(Frames)
            BY <1>2, <2>3, <3>1, Pop, PopAt DEF Late
        <3>3. Own(Tail(Rest), r) = {}
            BY <1>3, <3>2
        <3>4. Own(Rest, r) \subseteq {Head(Rest)}
            BY <1>2, <3>1, <3>3, OwnPop
        <3> QED BY <1>5, <2>3, <3>4 DEF Parsers
    <2>4. CASE Rest # <<>> /\ Head(Rest) = Frame("cancel", r)
        <3>1. Mine(Head(Rest), r)
            BY <2>4 DEF Mine, Frame
        <3>2. Head(Rest) \in Own(Rest, r)
            BY <1>2, <2>4, <3>1, OwnPop
        <3> QED BY <2>4, <3>2 DEF Frame
    <2> QED BY <2>1, <2>2, <2>3, <2>4 DEF Drains
<1> QED BY <1>4, <1>5

\* A step about r leaves the streams of the others as they are.
LEMMA Aside ==
    ASSUME Core, StreamInv, NEW r \in Requests, For(stack', r), Streams(r)',
           \A x \in Requests \ {r} :
               /\ req'[x] = req[x] /\ wire'[x] = wire[x] /\ heard'[x] = heard[x]
               /\ x \in active' => x \in active
    PROVE  StreamInv'
<1>1. ASSUME NEW x \in Requests \ {r} PROVE Streams(x)'
    BY <1>1 DEF StreamInv, Streams, For
<1> QED BY <1>1 DEF StreamInv, For

-----------------------------------------------------------------------------
(* The shapes of a step *)

LEMMA GoodIsReadable ==
    ASSUME NEW q, GoodRequest(q)
    PROVE  /\ Readable(q) /\ q \in RequestType
           /\ q.mode \in {"OneShot", "Stream"} /\ q.waiting \in BOOLEAN /\ q.overflowed \in BOOLEAN
           /\ q.drainScheduled \in BOOLEAN /\ q.posting \in BOOLEAN /\ q.drains \in Nat
           /\ q.status \in Codes /\ q.ended \in BOOLEAN /\ q.saw \in BOOLEAN
BY DEF GoodRequest, Readable, RequestType

\* The wires of the others, and the caller, are left alone.
Calm(r) == heard' = heard /\ \A x \in Requests \ {r} : wire'[x] = wire[x]

LEMMA Replace ==
    ASSUME Core, StreamInv, NEW r \in Requests, NEW c, req' = [req EXCEPT ![r] = c], Calm(r),
           For(stack', r), active' \subseteq active \union {r}, c.saw = req[r].saw,
           r \in active' => Whole(c, wire'[r], heard[r], Own(stack', r))
    PROVE  StreamInv'
<1>1. req'[r] = c /\ \A x \in Requests \ {r} : req'[x] = req[x]
    BY DEF Core
<1>2. ~req[r].saw => heard[r] = <<>>
    BY DEF StreamInv, Streams
<1>3. Streams(r)'
    BY <1>1, <1>2 DEF Streams, Calm
<1> QED BY <1>1, <1>3, Aside DEF Calm

\* r ends.
LEMMA Finished ==
    ASSUME Core, StreamInv, NEW r \in Requests, NEW q \in RequestType, q.saw = req[r].saw,
           NEW how, NEW rest, For(rest, r), Complete(r, q, how, rest), Calm(r)
    PROVE  StreamInv'
<1> DEFINE c == Completed(q)
<1>1. c.saw = q.saw
    BY DEF Completed, RequestType
<1>2. req' = [req EXCEPT ![r] = c] /\ active' = active \ {r} /\ stack' = <<Delegate(r)>> \o rest
    BY DEF Complete
<1> HIDE DEF c
<1>3. For(stack', r)
    BY <1>2, ForDelegate
<1> QED BY <1>1, <1>2, <1>3, Replace

LEMMA FinishedAbort ==
    ASSUME Core, StreamInv, NEW r \in Requests, NEW q \in RequestType, q.saw = req[r].saw,
           NEW how, NEW rest, For(rest, r), NEW p, Complete(r, q, how, Abort(r, p) \o rest), Calm(r)
    PROVE  StreamInv'
<1>1. For(Abort(r, p) \o rest, r)
    BY ForAbort
<1> QED BY <1>1, Finished

\* Nothing of the stream changes.
Steady(c, q) ==
    /\ c.mode = q.mode /\ c.waiting = q.waiting /\ c.pending = q.pending /\ c.held = q.held
    /\ c.ended = q.ended /\ c.overflowed = q.overflowed /\ c.status = q.status
    /\ c.drainScheduled = q.drainScheduled
    /\ q.posting \/ q.drains > 0 => c.posting \/ c.drains > 0

Level(v, w) == v.sent = w.sent /\ v.status = w.status /\ (v.open => w.open)

LEMMA WholeSteady ==
    ASSUME NEW q, NEW c, Steady(c, q), NEW w, NEW v, Level(v, w), NEW h, NEW o, Whole(q, w, h, o)
    PROVE  Whole(c, v, h, o)
<1>1. Queued(c) /\ Linked(c, v) /\ Judged(c, o) /\ Unheard(c, h)
    BY DEF Steady, Level, Whole, Queued, Linked, Judged, Unheard
<1>2. ASSUME Flows(c, o) PROVE Ordered(c, v.sent, h, o)
    <2>1. Ordered(q, w.sent, h, o)
        BY <1>2 DEF Steady, Whole, Flows
    <2> QED BY <2>1, WaySame DEF Ordered, Steady, Level
<1> QED BY <1>1, <1>2 DEF Whole

LEMMA StreamSteady ==
    ASSUME Core, StreamInv, NEW r \in Requests, NEW c, req' = [req EXCEPT ![r] = c],
           c.saw = req[r].saw, Steady(c, req[r]), Calm(r), Level(wire'[r], wire[r]),
           For(stack', r), Own(stack', r) = Own(stack, r), active' \subseteq active
    PROVE  StreamInv'
<1>1. r \in active' => Whole(req[r], wire[r], heard[r], Own(stack', r))
    BY DEF StreamInv, Streams
<1>2. r \in active' => Whole(c, wire'[r], heard[r], Own(stack', r))
    BY <1>1, WholeSteady
<1> QED BY <1>2, Replace

\* Only the stack changes, and there nothing of a stream.
LEMMA StreamStack ==
    ASSUME Core, StreamInv, UNCHANGED <<req, heard>>, active' \subseteq active,
           \A x \in Requests : Level(wire'[x], wire[x]),
           NEW r, For(stack', r), Own(stack', r) = Own(stack, r)
    PROVE  StreamInv'
<1>1. ASSUME NEW x \in Requests PROVE Streams(x)'
    <2>1. Own(stack', x) = Own(stack, x)
        BY DEF For
    <2>2. Steady(req[x], req[x])
        BY DEF Steady
    <2>3. x \in active' => Whole(req[x], wire'[x], heard[x], Own(stack', x))
        BY <1>1, <2>1, <2>2, WholeSteady DEF StreamInv, Streams
    <2> QED BY <1>1, <2>3 DEF StreamInv, Streams
<1> QED BY <1>1 DEF StreamInv, For

\* A call about a request that has ended returns.
LEMMA StreamEnded ==
    ASSUME Core, StreamInv, UNCHANGED <<req, heard, active>>, NEW r \in Requests, Calm(r),
           For(stack', r), r \notin active
    PROVE  StreamInv'
<1>1. Streams(r)'
    BY DEF StreamInv, Streams
<1> QED BY <1>1, Aside DEF Calm

LEMMA DrainIsFrame ==
    ASSUME NEW r \in Requests, NEW cs \in Seq(FullChunks), NEW es \in Seq(Events),
           NEW k \in {"ok", "error"}
    PROVE  LET f == DrainFrame(r, cs, es, k) IN
           /\ f \in Frames /\ f.kind = "drain" /\ f.r = r
           /\ f.chunks = cs /\ f.events = es /\ f.code = k
BY DEF DrainFrame, Frames

\* A drain of r on top of s.
LEMMA StreamDrain ==
    ASSUME Core, StreamInv, NEW r \in Requests, NEW q, GoodRequest(q), q.saw = req[r].saw,
           q.terminal = req[r].terminal,
           NEW s, For(s, r), \A f : f.r = r => Drains(f, s), Drain(r, q, s), Calm(r),
           r \in active =>
               /\ (q.mode = "OneShot" \/ q.waiting => Queued(q))
               /\ Linked(q, wire'[r]) /\ Unheard(q, heard[r])
               /\ ~q.overflowed => Judged(q, Own(s, r))
               /\ Flows(q, Own(s, r)) =>
                    Ordered(q, wire'[r].sent, heard[r], Own(s, r)) /\ Parsers(Own(s, r)) = {},
           wire'[r].sent \in 0 .. StreamLength
    PROVE  StreamInv'
<1> DEFINE drained == [q EXCEPT !.pending = <<>>, !.drainScheduled = FALSE]
           quiet == [q EXCEPT !.drainScheduled = FALSE]
           o == Own(s, r)
           w == wire'[r]
           h == heard[r]
<1>1. Readable(q) /\ q \in RequestType
      /\ q.mode \in {"OneShot", "Stream"} /\ q.status \in Codes /\ q.waiting \in BOOLEAN
      /\ h \in Seq(Events)
    BY GoodIsReadable DEF Core, RestType
<1>2. /\ drained.mode = q.mode /\ drained.waiting = q.waiting /\ drained.held = q.held
      /\ drained.ended = q.ended /\ drained.overflowed = q.overflowed /\ drained.status = q.status
      /\ drained.saw = q.saw /\ drained.pending = <<>> /\ drained.drainScheduled = FALSE
    BY <1>1 DEF RequestType
<1>3. /\ quiet.mode = q.mode /\ quiet.waiting = q.waiting /\ quiet.held = q.held
      /\ quiet.ended = q.ended /\ quiet.overflowed = q.overflowed /\ quiet.status = q.status
      /\ quiet.saw = q.saw /\ quiet.pending = q.pending /\ quiet.drainScheduled = FALSE
    BY <1>1 DEF RequestType
<1>4. drained \in RequestType
    <2>1. \A e \in Seq(Chunks) : [q EXCEPT !.pending = e, !.drainScheduled = FALSE] \in RequestType
        BY <1>1 DEF RequestType
    <2>2. <<>> \in Seq(Chunks)
        OBVIOUS
    <2> QED BY <2>1, <2>2
<1>5. r \in active => ~req[r].terminal
    BY RunningFit
<1> HIDE DEF drained, quiet, w, h, o
<1>6. CASE /\ r \notin active \/ q.terminal \/ q.waiting
           /\ req' = [req EXCEPT ![r] = q] /\ stack' = s /\ UNCHANGED active
    <2>1. ASSUME r \in active PROVE Whole(q, w, h, o)
        <3>1. q.waiting /\ Queued(q)
            BY <1>5, <1>6, <2>1
        <3>2. ~Flows(q, o) /\ ~q.overflowed
            BY <3>1 DEF Flows, Queued
        <3> QED BY <2>1, <3>1, <3>2 DEF Whole, w, h, o
    <2> QED BY <1>6, <2>1, Replace DEF w, h, o
<1>7. CASE /\ r \in active /\ ~q.waiting /\ q.status = "none" /\ ~q.overflowed
           /\ req' = [req EXCEPT ![r] = quiet] /\ stack' = s /\ UNCHANGED active
    <2>1. Queued(quiet)
        BY <1>3, <1>7 DEF Queued
    <2>2. Linked(quiet, w) /\ Unheard(quiet, h) /\ Judged(quiet, o)
        BY <1>3, <1>7 DEF Linked, Unheard, Judged, w, h, o
    <2>3. ASSUME Flows(quiet, o) PROVE Ordered(quiet, w.sent, h, o)
        <3>1. Flows(q, o)
            BY <1>3, <2>3 DEF Flows
        <3>2. Ordered(q, w.sent, h, o)
            BY <1>7, <3>1 DEF w, h, o
        <3> QED BY <1>3, <3>2, WaySame DEF Ordered
    <2>4. Whole(quiet, w, h, o)
        BY <2>1, <2>2, <2>3 DEF Whole
    <2> QED BY <1>3, <1>7, <2>4, Replace DEF w, h, o
<1>8. CASE r \in active /\ Complete(r, drained, "Failed", Abort(r, q) \o s)
    BY <1>2, <1>4, <1>8, FinishedAbort
<1>9. CASE /\ r \in active /\ ~q.waiting /\ q.status # "none" /\ ~q.overflowed
           /\ req' = [req EXCEPT ![r] = drained]
           /\ stack' = <<DrainFrame(r, q.pending, <<>>, q.status)>> \o s /\ UNCHANGED active
    <2> DEFINE f == DrainFrame(r, q.pending, <<>>, q.status)
    <2>1. /\ f \in Frames /\ f.kind = "drain" /\ f.r = r
          /\ f.chunks = q.pending /\ f.events = <<>> /\ f.code = q.status
        <3>1. q.status \in {"ok", "error"} /\ <<>> \in Seq(Events) /\ q.pending \in Seq(FullChunks)
            BY <1>1, <1>9 DEF Codes, Readable
        <3>2. \A k \in {"ok", "error"}, cs \in Seq(FullChunks), es \in Seq(Events) :
                /\ DrainFrame(r, cs, es, k) \in Frames
                /\ DrainFrame(r, cs, es, k).kind = "drain" /\ DrainFrame(r, cs, es, k).r = r
                /\ DrainFrame(r, cs, es, k).chunks = cs /\ DrainFrame(r, cs, es, k).events = es
                /\ DrainFrame(r, cs, es, k).code = k
            BY DrainIsFrame
        <3>3. PICK es \in Seq(Events) : es = <<>>
            BY <3>1
        <3>4. /\ DrainFrame(r, q.pending, es, q.status) \in Frames
              /\ DrainFrame(r, q.pending, es, q.status).kind = "drain"
              /\ DrainFrame(r, q.pending, es, q.status).r = r
              /\ DrainFrame(r, q.pending, es, q.status).chunks = q.pending
              /\ DrainFrame(r, q.pending, es, q.status).events = es
              /\ DrainFrame(r, q.pending, es, q.status).code = q.status
            BY <3>1, <3>2
        <3> QED BY <3>3, <3>4
    <2>2. stack' = <<f>> \o s
        BY <1>9
    <2> HIDE DEF f
    <2>3. For(stack', r) /\ Own(stack', r) = o \union {f}
        BY <2>1, <2>2, ForPush DEF Mine, o
    <2>4. q.mode = "Stream" /\ Linked(q, w) /\ Unheard(q, h) /\ Judged(q, o)
        BY <1>1, <1>9 DEF Linked, w, h, o
    <2>5. Queued(drained)
        BY <1>2, <1>9 DEF Queued
    <2>6. Linked(drained, w) /\ Unheard(drained, h) /\ Judged(drained, o \union {f})
        BY <1>2, <1>9, <2>1, <2>4 DEF Linked, Unheard, Judged
    <2>7. ASSUME Flows(drained, o \union {f}) PROVE Ordered(drained, w.sent, h, o \union {f})
        <3>1. Flows(q, o)
            BY <1>2, <2>7 DEF Flows
        <3>2. Ordered(q, w.sent, h, o) /\ Parsers(o) = {}
            BY <1>9, <3>1 DEF w, h, o
        <3>3. Way(q, w.sent, h, <<>>, <<>>)
            BY <3>2 DEF Ordered
        <3>4. Way(drained, w.sent, h, <<>>, q.pending)
            BY <1>1, <1>2, <3>3, WayDrains DEF w
        <3>5. Parsers(o \union {f}) = {f}
            BY <2>1, <3>2 DEF Parsers
        <3>6. f.code = "ok"
            BY <1>1, <1>9, <2>1, <3>1 DEF Flows, Codes
        <3>7. Way(drained, w.sent, h, f.events, ChunksOf(f))
            BY <2>1, <3>4 DEF ChunksOf
        <3> QED BY <1>2, <3>2, <3>5, <3>6, <3>7 DEF Ordered
    <2>8. Whole(drained, w, h, o \union {f})
        BY <2>5, <2>6, <2>7 DEF Whole
    <2> QED BY <1>2, <1>9, <2>3, <2>8, Replace DEF w, h, o
<1>10. \/ /\ r \notin active \/ q.terminal \/ q.waiting
          /\ req' = [req EXCEPT ![r] = q] /\ stack' = s /\ UNCHANGED active
       \/ /\ r \in active /\ ~q.waiting /\ q.status = "none" /\ ~q.overflowed
          /\ req' = [req EXCEPT ![r] = quiet] /\ stack' = s /\ UNCHANGED active
       \/ r \in active /\ Complete(r, drained, "Failed", Abort(r, q) \o s)
       \/ /\ r \in active /\ ~q.waiting /\ q.status # "none" /\ ~q.overflowed
          /\ req' = [req EXCEPT ![r] = drained]
          /\ stack' = <<DrainFrame(r, q.pending, <<>>, q.status)>> \o s /\ UNCHANGED active
    BY Zenon DEF Drain, drained, quiet
<1> QED BY <1>6, <1>7, <1>8, <1>9, <1>10

-----------------------------------------------------------------------------
(* Attempts begin and are given up *)

LEMMA OwnUnserved == ASSUME NEW s, NEW r, r \notin Served(s) PROVE Own(s, r) = {}
BY DEF Served, Serves, Own, Mine

LEMMA StreamAttempt ==
    ASSUME Core, StreamInv, NEW r \in Requests, NEW q, GoodRequest(q), q.saw = req[r].saw,
           AttemptStarts(r, q), Own(stack, r) = {}, UNCHANGED <<heard, stack>>,
           active' \subseteq active \union {r},
           q.mode = "Stream" => heard[r] = <<>>,
           q.mode = "OneShot" =>
               q.status = "none" /\ q.pending = <<>> /\ ~q.overflowed /\ ~q.drainScheduled
    PROVE  StreamInv'
<1> DEFINE s == [q EXCEPT !.retryTicker = FALSE, !.waiting = FALSE, !.attempt = @ + 1,
                          !.attached = TRUE, !.physical = @ + 1]
           c == IF q.mode = "Stream" THEN ResetStreamAttempt(s, TRUE) ELSE s
           w == [NoWire EXCEPT !.open = TRUE]
<1>1. q \in RequestType /\ q.mode \in {"Stream", "OneShot"}
    BY GoodIsReadable
<1>2. req' = [req EXCEPT ![r] = c] /\ wire' = [wire EXCEPT ![r] = w]
    BY DEF AttemptStarts
<1>3. w.open /\ w.sent = 0 /\ w.status = "none"
    BY DEF NoWire
<1>4. /\ c.mode = q.mode /\ c.saw = q.saw /\ c.waiting = FALSE /\ c.pending = <<>>
      /\ c.status = "none" /\ c.drainScheduled = FALSE /\ c.overflowed = FALSE
      /\ q.mode = "Stream" => c.held = <<>> /\ c.ended = FALSE
    BY <1>1 DEF RequestType, ResetStreamAttempt
<1> HIDE DEF c, w
<1>5. wire'[r] = w /\ \A x \in Requests \ {r} : wire'[x] = wire[x]
    BY <1>2 DEF Core, RestType
<1>6. For(stack', r) /\ Own(stack', r) = {}
    BY ForNow
<1>7. Queued(c) /\ Linked(c, w) /\ Judged(c, {}) /\ Unheard(c, heard[r])
    BY <1>3, <1>4 DEF Queued, Linked, Judged, Unheard
<1>8. ASSUME Flows(c, {}) PROVE Ordered(c, w.sent, heard[r], {})
    <2>1. q.mode = "Stream"
        BY <1>4, <1>8 DEF Flows
    <2>2. Way(c, 0, <<>>, <<>>, <<>>)
        BY <1>4, <2>1, WayBegins
    <2> QED BY <1>3, <1>4, <2>1, <2>2 DEF Ordered, Parsers
<1>9. Whole(c, w, heard[r], {})
    BY <1>7, <1>8 DEF Whole
<1> QED BY <1>2, <1>4, <1>5, <1>6, <1>9, Replace DEF Calm

\* An attempt that is not sent ends the request.
LEMMA StreamNotSent ==
    ASSUME Core, StreamInv, NEW r \in Requests, NEW q, GoodRequest(q), q.saw = req[r].saw,
           NEW s, For(s, r), AttemptFails(r, q, s), UNCHANGED <<heard, wire>>
    PROVE  StreamInv'
<1> DEFINE c == [q EXCEPT !.waiting = FALSE, !.retryTicker = FALSE]
<1>0. q \in RequestType
    BY GoodIsReadable
<1>1. c \in RequestType /\ c.saw = q.saw
    BY <1>0 DEF RequestType
<1>2. Complete(r, c, "Failed", s)
    BY DEF AttemptFails
<1> HIDE DEF c
<1> QED BY <1>1, <1>2, Finished DEF Calm

LEMMA StreamStart == ASSUME Core, StreamInv, NEW r \in Requests, Start(r) PROVE StreamInv'
<1>1. CASE Reject(r)
    <2>1. For(stack', r) /\ Own(stack', r) = Own(stack, r)
        BY <1>1, ForNow, ForDelegate DEF Reject
    <2>2. \A x \in Requests : Level(wire'[x], wire[x])
        BY <1>1 DEF Reject, Level
    <2> QED BY <1>1, <2>1, <2>2, StreamStack DEF Reject
<1>2. CASE ~req[r].accepted /\ \E mode \in Modes : Admit(r, mode)
    <2> PICK mode \in Modes : Admit(r, mode)
        BY <1>2
    <2> DEFINE q == [req[r] EXCEPT !.accepted = TRUE, !.mode = mode]
    <2>1. req[r] = NewRequest /\ GoodRequest(req[r]) /\ req[r] \in RequestType
        BY <1>2, UnacceptedIsNew DEF Core, Sounds, Sound
    <2>2. r \notin Served(stack) /\ For(stack, r)
        BY <1>2, ForNow DEF Core
    <2>3. Own(stack, r) = {}
        BY <2>2, OwnUnserved
    <2>4. q.saw = req[r].saw /\ ~q.saw /\ q.status = "none" /\ q.pending = <<>>
          /\ q.held = <<>> /\ ~q.overflowed /\ ~q.drainScheduled
        BY <2>1 DEF NewRequest
    <2>5. heard[r] = <<>>
        BY <2>1, <2>4 DEF StreamInv, Streams
    <2>6. GoodRequest(q) /\ q \in RequestType
        <3>1. q \in RequestType
            BY <2>1, ServiceAssumption DEF RequestType
        <3>2. <<>> \in Seq(FullChunks) /\ Len(<<>>) = 0 /\ 0 <= QueueCapacity /\ 0 <= 1
            BY ServiceAssumption
        <3> HIDE DEF q
        <3> QED BY <2>4, <3>1, <3>2 DEF GoodRequest
    <2>7. UNCHANGED heard
        BY DEF Admit
    <2>8. \/ AttemptStarts(r, q) /\ active' = active \union {r} /\ UNCHANGED stack
          \/ AttemptFails(r, q, stack) /\ UNCHANGED wire
        BY DEF Admit
    <2> HIDE DEF q
    <2>9. CASE AttemptStarts(r, q) /\ active' = active \union {r} /\ UNCHANGED stack
        BY <2>3, <2>4, <2>5, <2>6, <2>7, <2>9, StreamAttempt
    <2>10. CASE AttemptFails(r, q, stack) /\ UNCHANGED wire
        BY <2>2, <2>4, <2>6, <2>7, <2>10, StreamNotSent
    <2> QED BY <2>8, <2>9, <2>10
<1> QED BY <1>1, <1>2 DEF Start

LEMMA StreamRetry ==
    ASSUME Core, StreamInv, NEW r \in active, NEW q, GoodRequest(q), q.saw = req[r].saw,
           NEW s, For(s, r), Own(s, r) = {}, RetryOrFail(r, q, s), Calm(r), ~wire'[r].open,
           q.mode = "OneShot" => Queued(q) /\ q.status = "none"
    PROVE  StreamInv'
<1>1. q \in RequestType /\ q.mode \in {"Stream", "OneShot"} /\ r \in Requests
    BY GoodIsReadable, RunningFit
<1>2. CASE Complete(r, q, "Failed", s)
    BY <1>1, <1>2, Finished
<1>3. CASE TryScheduleRetry(r, q, s)
    <2> DEFINE v == [q EXCEPT !.retries = @ + 1, !.waiting = TRUE]
               c == IF q.mode = "Stream" THEN ResetStreamAttempt(v, FALSE) ELSE v
    <2>1. req' = [req EXCEPT ![r] = c] /\ UNCHANGED active
          /\ stack' = <<Delegate(r), Frame("backoff", r)>> \o s
        BY <1>3 DEF TryScheduleRetry
    <2>2. /\ c.mode = q.mode /\ c.saw = q.saw /\ c.waiting = TRUE
          /\ q.mode = "Stream" =>
                /\ c.pending = <<>> /\ c.held = <<>> /\ c.ended = FALSE
                /\ c.drainScheduled = FALSE /\ c.overflowed = FALSE
          /\ q.mode = "OneShot" =>
                /\ c.pending = q.pending /\ c.status = q.status
                /\ c.drainScheduled = q.drainScheduled /\ c.overflowed = q.overflowed
        BY <1>1 DEF RequestType, ResetStreamAttempt
    <2> HIDE DEF c
    <2>3. For(stack', r) /\ Own(stack', r) = {}
        <3>1. s \in Seq(Frames) /\ Delegate(r) \in Frames /\ Frame("backoff", r) \in Frames
              /\ Frame("backoff", r).kind = "backoff"
            BY <1>1, PlainFrames DEF For
        <3>2. stack' = <<Delegate(r)>> \o (<<Frame("backoff", r)>> \o s)
            BY <2>1, <3>1, TwoOver
        <3>3. For(<<Frame("backoff", r)>> \o s, r) /\ Own(<<Frame("backoff", r)>> \o s, r) = {}
            BY <3>1, ForPlain
        <3> QED BY <1>1, <3>2, <3>3, ForDelegate
    <2>4. q.mode = "Stream" => heard[r] = <<>>
        BY <1>1, <1>3 DEF TryScheduleRetry, StreamInv, Streams
    <2>5. Queued(c) /\ Linked(c, wire'[r]) /\ Judged(c, {}) /\ Unheard(c, heard[r]) /\ ~Flows(c, {})
        BY <1>1, <2>2, <2>4 DEF Queued, Linked, Judged, Unheard, Flows
    <2>6. Whole(c, wire'[r], heard[r], {})
        BY <2>5 DEF Whole
    <2> QED BY <1>1, <2>1, <2>2, <2>3, <2>6, Replace
<1> QED BY <1>2, <1>3 DEF RetryOrFail

LEMMA StreamResume ==
    ASSUME Core, StreamInv, NEW r \in Requests, ResumeRequestAfterBackoff(r) PROVE StreamInv'
<1>1. /\ Idle /\ GoodRequest(req[r]) /\ r \in active /\ req[r].waiting /\ UNCHANGED heard
      /\ req[r].mode \in {"Stream", "OneShot"}
    BY WaitingFit, GoodIsReadable DEF ResumeRequestAfterBackoff, Sounds, Sound
<1>2. Own(stack, r) = {} /\ For(<<>>, r)
    BY <1>1, NoCalls, ForIdle DEF Idle
<1>3. Whole(req[r], wire[r], heard[r], {})
    BY <1>1, <1>2 DEF StreamInv, Streams
<1>4. CASE AttemptStarts(r, req[r]) /\ UNCHANGED <<active, stack, told>>
    BY <1>1, <1>2, <1>3, <1>4, StreamAttempt DEF Whole, Unheard, Queued, Linked
<1>5. CASE AttemptFails(r, req[r], <<>>) /\ UNCHANGED wire
    BY <1>1, <1>2, <1>5, StreamNotSent
<1> QED BY <1>4, <1>5 DEF ResumeRequestAfterBackoff

-----------------------------------------------------------------------------
(* Drains and the end of a transport *)

LEMMA StreamDrainTask == ASSUME Core, StreamInv, NEW r \in Requests, DrainTask(r) PROVE StreamInv'
<1> DEFINE q == [req[r] EXCEPT !.drains = @ - 1]
<1>1. /\ Idle /\ Drain(r, q, <<>>) /\ UNCHANGED <<wire, heard>> /\ req[r].drains > 0
      /\ GoodRequest(req[r]) /\ req[r] \in RequestType
    BY GoodIsReadable DEF DrainTask, Core, Sounds, Sound
<1>2. GoodRequest(q)
    <2>1. \A n \in Nat : GoodRequest([req[r] EXCEPT !.drains = n])
        BY <1>1, Fields
    <2>2. req[r].drains - 1 \in Nat
        BY <1>1 DEF RequestType
    <2> QED BY <2>1, <2>2, Zenon
<1>3. /\ q.saw = req[r].saw /\ q.terminal = req[r].terminal /\ q.mode = req[r].mode
      /\ q.waiting = req[r].waiting /\ q.pending = req[r].pending /\ q.held = req[r].held
      /\ q.overflowed = req[r].overflowed /\ q.drainScheduled = req[r].drainScheduled
      /\ q.status = req[r].status /\ q.ended = req[r].ended
    BY <1>1 DEF RequestType
<1> HIDE DEF q
<1>4. /\ For(<<>>, r) /\ Own(<<>>, r) = {} /\ Own(stack, r) = {} /\ Calm(r)
      /\ \A f : Drains(f, <<>>)
    BY <1>1, ForIdle, NoCalls DEF Idle, Drains, Calm
<1>5. ASSUME r \in active
      PROVE  /\ q.mode = "OneShot" \/ q.waiting => Queued(q)
             /\ Linked(q, wire'[r]) /\ Unheard(q, heard[r]) /\ Judged(q, {})
             /\ Flows(q, {}) => Ordered(q, wire'[r].sent, heard[r], {}) /\ Parsers({}) = {}
    <2>1. Whole(req[r], wire[r], heard[r], {})
        BY <1>4, <1>5 DEF StreamInv, Streams
    <2>2. q.mode = "OneShot" \/ q.waiting => Queued(q)
        BY <1>3, <2>1 DEF Whole, Queued
    <2>3. Linked(q, wire'[r]) /\ Unheard(q, heard[r]) /\ Judged(q, {})
        BY <1>1, <1>3, <2>1 DEF Whole, Linked, Unheard, Judged
    <2>4. Flows(q, {}) => Ordered(q, wire'[r].sent, heard[r], {})
        BY <1>1, <1>3, <2>1, WaySame DEF Whole, Flows, Ordered, Parsers
    <2> QED BY <2>2, <2>3, <2>4 DEF Parsers
<1>6. wire'[r].sent \in 0 .. StreamLength
    BY <1>1 DEF Core, RestType, WireType
<1> QED BY <1>1, <1>2, <1>3, <1>4, <1>5, <1>6, StreamDrain

\* The frames a transport's completion begins with.
LEMMA ForResponse ==
    ASSUME Idle, NEW r \in Requests, NEW o \in Outcomes
    PROVE  LET f == ResponseFrame(r, o)
               s == <<f, Settle(r)>>
           IN /\ For(<<Settle(r)>>, r) /\ Own(<<Settle(r)>>, r) = {}
              /\ For(s, r) /\ Own(s, r) = {f} /\ \A g : Drains(g, s)
              /\ f.kind = "response" /\ f.outcome = o
<1> DEFINE f == ResponseFrame(r, o)
<1>1. f \in Frames /\ f.kind = "response" /\ f.r = r /\ f.outcome = o
    BY DEF ResponseFrame, Frames
<1>2. For(<<>>, r) /\ Own(<<>>, r) = {} /\ Settle(r) \in Frames /\ Settle(r).kind = "settle"
    BY ForIdle, NoCalls, PlainFrames
<1>3. <<Settle(r)>> \o <<>> = <<Settle(r)>>
    OBVIOUS
<1>4. For(<<Settle(r)>>, r) /\ Own(<<Settle(r)>>, r) = {}
    <2> DEFINE g == Settle(r)
    <2>1. g.kind \in {"delegate", "abort", "backoff", "settle", "pump"} /\ g \in Frames
        BY <1>2
    <2> HIDE DEF g
    <2>2. For(<<g>> \o <<>>, r) /\ Own(<<g>> \o <<>>, r) = {}
        BY <1>2, <2>1, ForPlain
    <2> QED BY <1>3, <2>2 DEF g
<1>5. <<f>> \o <<Settle(r)>> = <<f, Settle(r)>>
    BY TwoFrames
<1>6. \A g : Drains(g, <<f, Settle(r)>>)
    <2>1. Len(<<f, Settle(r)>>) = 2 /\ Head(<<f, Settle(r)>>) = f
        OBVIOUS
    <2> QED BY <1>1, <2>1 DEF Drains
<1> HIDE DEF f
<1>7. For(<<f>> \o <<Settle(r)>>, r) /\ Own(<<f>> \o <<Settle(r)>>, r) = {f}
    BY <1>1, <1>4, ForPush DEF Mine
<1> QED BY <1>1, <1>4, <1>5, <1>6, <1>7 DEF f

LEMMA StreamResponds ==
    ASSUME Core, StreamInv, NEW r \in Requests, Idle, wire[r].open, req[r].mode = "Stream",
           wire' = [wire EXCEPT ![r].open = FALSE], NEW outcome \in Possible(r),
           HandleStreamResponse(r, outcome), UNCHANGED heard
    PROVE  StreamInv'
<1> DEFINE f == ResponseFrame(r, outcome)
           s == <<f, Settle(r)>>
           k == CodeOf(outcome, req[r].status)
           q == [req[r] EXCEPT !.status = k]
<1>1. /\ GoodRequest(req[r]) /\ req[r] \in RequestType /\ ~req[r].waiting
      /\ (r \in active <=> ~req[r].terminal) /\ outcome \in Outcomes
    BY ClosingFit DEF Possible
<1>2. /\ For(<<Settle(r)>>, r) /\ Own(<<Settle(r)>>, r) = {}
      /\ For(s, r) /\ Own(s, r) = {f} /\ \A g : Drains(g, s)
      /\ f.kind = "response" /\ f.outcome = outcome
    BY <1>1, ForResponse
<1>3. /\ Calm(r) /\ ~wire'[r].open /\ wire'[r].sent = wire[r].sent
      /\ wire[r].sent \in 0 .. StreamLength
    BY DEF Calm, Core, RestType, WireType
<1>4. k \in Codes /\ (outcome = "whole" => k = "ok")
    BY <1>1 DEF CodeOf, Codes, RequestType, Outcomes
<1>5. wire[r].status = "error" => CodeOf(outcome, "error") = "error"
    BY DEF Possible
<1>6. Own(stack, r) = {}
    BY NoCalls DEF Idle
<1>7. CASE r \in active /\ Drain(r, q, s)
    <2>1. Whole(req[r], wire[r], heard[r], {})
        BY <1>6, <1>7 DEF StreamInv, Streams
    <2>2. req[r].status = wire[r].status
        BY <2>1 DEF Whole, Linked
    <2>3. req[r].status = "error" => k = "error"
        BY <1>5, <2>2
    <2> HIDE DEF k, f
    <2>4. GoodRequest(q)
        BY <1>1, <1>4, Fields
    <2>5. /\ q.saw = req[r].saw /\ q.terminal = req[r].terminal /\ q.mode = req[r].mode
          /\ q.waiting = req[r].waiting /\ q.pending = req[r].pending /\ q.held = req[r].held
          /\ q.overflowed = req[r].overflowed /\ q.ended = req[r].ended /\ q.status = k
        BY <1>1 DEF RequestType
    <2> HIDE DEF q, s
    <2>6. Linked(q, wire'[r]) /\ Unheard(q, heard[r]) /\ ~(q.mode = "OneShot" \/ q.waiting)
        BY <1>1, <1>3, <2>5 DEF Linked, Unheard
    <2>7. ~q.overflowed => Judged(q, {f})
        BY <1>1, <1>2, <1>4, <2>5 DEF Judged
    <2>8. Parsers({f}) = {} /\ Parsers({}) = {}
        BY <1>2 DEF Parsers
    <2>9. ASSUME Flows(q, {f}) PROVE Ordered(q, wire'[r].sent, heard[r], {f})
        <3>1. Flows(req[r], {})
            BY <1>1, <2>3, <2>5, <2>9 DEF Flows
        <3>2. Ordered(req[r], wire[r].sent, heard[r], {})
            BY <2>1, <3>1 DEF Whole
        <3>3. Way(q, wire[r].sent, heard[r], <<>>, <<>>)
            BY <2>5, <2>8, <3>2, WaySame DEF Ordered
        <3> QED BY <1>3, <2>5, <2>8, <3>2, <3>3 DEF Ordered
    <2> QED BY <1>2, <1>3, <1>7, <2>4, <2>5, <2>6, <2>7, <2>8, <2>9, StreamDrain
<1>8. CASE r \notin active /\ stack' = <<Settle(r)>> /\ UNCHANGED <<req, active, told>>
    BY <1>2, <1>3, <1>8, StreamEnded
<1> QED BY <1>1, <1>7, <1>8 DEF HandleStreamResponse

LEMMA StreamChat ==
    ASSUME Core, StreamInv, NEW r \in Requests, Idle, wire[r].open, req[r].mode # "Stream",
           wire' = [wire EXCEPT ![r].open = FALSE], NEW outcome \in Possible(r),
           HandleChatCompletionResponse(r, outcome), UNCHANGED heard
    PROVE  StreamInv'
<1> DEFINE q == [req[r] EXCEPT !.attached = FALSE]
<1>1. /\ GoodRequest(req[r]) /\ req[r] \in RequestType /\ outcome \in Outcomes
    BY ClosingFit DEF Possible
<1>2. For(<<Settle(r)>>, r) /\ Own(<<Settle(r)>>, r) = {}
    BY <1>1, ForResponse
<1>3. Calm(r) /\ ~wire'[r].open
    BY DEF Calm, Core, RestType, WireType
<1>4. GoodRequest(q) /\ q \in RequestType
    <2>1. GoodRequest(q)
        BY <1>1, Fields
    <2> QED BY <2>1 DEF GoodRequest
<1>5. /\ q.saw = req[r].saw /\ q.mode = req[r].mode /\ q.waiting = req[r].waiting
      /\ q.pending = req[r].pending /\ q.overflowed = req[r].overflowed /\ q.status = req[r].status
      /\ q.drainScheduled = req[r].drainScheduled /\ q.posting = req[r].posting
      /\ q.drains = req[r].drains /\ q.terminal = req[r].terminal
    BY <1>1 DEF RequestType
<1>6. r \notin active \/ q.terminal => r \notin active
    BY <1>5, RunningFit
<1> HIDE DEF q
<1>7. r \in active => Queued(q) /\ (q.mode = "OneShot" => q.status = "none")
    BY <1>5 DEF StreamInv, Streams, Whole, Queued, Linked
<1>8. CASE r \notin active /\ stack' = <<Settle(r)>> /\ UNCHANGED <<req, active, told>>
    BY <1>2, <1>3, <1>8, StreamEnded
<1>9. CASE r \in active /\ RetryOrFail(r, q, <<Settle(r)>>)
    BY <1>2, <1>3, <1>4, <1>5, <1>7, <1>9, StreamRetry
<1>10. CASE Complete(r, q, "Completed", <<Settle(r)>>)
    BY <1>2, <1>3, <1>4, <1>5, <1>10, Finished
<1> QED BY <1>6, <1>8, <1>9, <1>10 DEF HandleChatCompletionResponse, q

LEMMA StreamTransport ==
    ASSUME Core, StreamInv, NEW r \in Requests, TransportCompletes(r) PROVE StreamInv'
<1>1. PICK outcome \in Possible(r) :
        IF req[r].mode = "Stream" THEN HandleStreamResponse(r, outcome)
        ELSE HandleChatCompletionResponse(r, outcome)
    BY DEF TransportCompletes
<1>2. Idle /\ wire[r].open /\ wire' = [wire EXCEPT ![r].open = FALSE] /\ UNCHANGED heard
    BY DEF TransportCompletes
<1> QED BY <1>1, <1>2, StreamResponds, StreamChat

-----------------------------------------------------------------------------
(* The calls that read a stream *)

\* What a running call knows of its stream.
LEMMA Reading ==
    ASSUME Core, StreamInv, NEW k \in {"drain", "response", "finish"}, Running(k),
           NEW r, r = Head(stack).r, r \in active
    PROVE  LET f == Head(stack) IN
           /\ f \in Frames /\ f.kind = k /\ For(Rest, r) /\ Own(stack, r) = Own(Rest, r) \union {f}
           /\ Whole(req[r], wire[r], heard[r], Own(stack, r))
           /\ req[r].mode = "Stream" /\ ~req[r].waiting
           /\ r \in Requests /\ GoodRequest(req[r]) /\ req[r] \in RequestType
           /\ wire[r].sent \in 0 .. StreamLength /\ heard[r] \in Seq(Events)
<1> DEFINE f == Head(stack)
<1>1. f \in Frames /\ f.kind = k
    BY TopFrame DEF Core
<1>2. For(Rest, r) /\ Own(stack, r) = Own(Rest, r) \union {f}
    BY <1>1, ForRest DEF Mine
<1>3. r \in Requests /\ GoodRequest(req[r]) /\ req[r] \in RequestType
    BY RunningFit
<1>4. Whole(req[r], wire[r], heard[r], Own(stack, r))
    BY <1>3 DEF StreamInv, Streams
<1>5. f \in Own(stack, r)
    BY <1>2
<1>6. req[r].mode = "Stream" /\ ~req[r].waiting
    BY <1>1, <1>4, <1>5 DEF Whole, Judged
<1>7. wire[r].sent \in 0 .. StreamLength /\ heard[r] \in Seq(Events)
    BY <1>3 DEF Core, RestType, WireType
<1> QED BY <1>1, <1>2, <1>3, <1>4, <1>6, <1>7

\* The caller hears the next event of the call that parses.
LEMMA StreamHear ==
    ASSUME Core, StreamInv, NEW k \in {"drain", "finish"}, Running(k),
           NEW r \in active, r = Head(stack).r, Head(stack).events # <<>>, ProcessSseEvent(Head(stack)), UNCHANGED wire
    PROVE  StreamInv'
<1> DEFINE f == Head(stack)
           n == Head(f.events)
           g == [f EXCEPT !.events = Tail(@)]
           q == [req[r] EXCEPT !.saw = TRUE, !.ended = @ \/ n = StreamLength]
           o == Own(Rest, r)
           h == Append(heard[r], n)
<1>1. /\ f \in Frames /\ f.kind = k /\ For(Rest, r) /\ Own(stack, r) = o \union {f}
      /\ Whole(req[r], wire[r], heard[r], Own(stack, r))
      /\ req[r].mode = "Stream" /\ ~req[r].waiting
      /\ r \in Requests /\ GoodRequest(req[r]) /\ req[r] \in RequestType
      /\ wire[r].sent \in 0 .. StreamLength /\ heard[r] \in Seq(Events)
    BY Reading
<1>2. f.events \in Seq(Events) /\ Tail(f.events) \in Seq(Events)
    BY <1>1, FrameKinds
<1>3. /\ g \in Frames /\ g.kind = k /\ g.r = r /\ g.events = Tail(f.events)
      /\ k = "drain" => g.chunks = f.chunks /\ g.code = f.code
    BY <1>1, <1>2 DEF Frames
<1>4. /\ stack' = <<Delegate(r), g>> \o Rest /\ req' = [req EXCEPT ![r] = q]
      /\ heard' = [heard EXCEPT ![r] = h] /\ UNCHANGED active
    BY DEF ProcessSseEvent
<1>5. k = "drain" => Drains(g, Rest)
    BY <1>1, <1>3, ForRest DEF Drains
<1>6. /\ q.mode = req[r].mode /\ q.waiting = req[r].waiting /\ q.pending = req[r].pending
      /\ q.held = req[r].held /\ q.overflowed = req[r].overflowed /\ q.status = req[r].status
      /\ q.drainScheduled = req[r].drainScheduled /\ q.posting = req[r].posting
      /\ q.drains = req[r].drains /\ q.saw = TRUE
      /\ q.ended <=> req[r].ended \/ n = StreamLength
    BY <1>1 DEF RequestType
<1> HIDE DEF g, q
<1>7. /\ req'[r] = q /\ heard'[r] = h
      /\ \A x \in Requests \ {r} : req'[x] = req[x] /\ heard'[x] = heard[x]
    BY <1>1, <1>4 DEF Core, RestType
<1> HIDE DEF h
<1>8. For(stack', r) /\ Own(stack', r) = o \union {g}
    <2>1. For(<<g>> \o Rest, r) /\ Own(<<g>> \o Rest, r) = o \union {g}
        BY <1>1, <1>3, <1>5, ForPush DEF Mine
    <2>2. stack' = <<Delegate(r)>> \o (<<g>> \o Rest)
        <3>1. Rest \in Seq(Frames) /\ Delegate(r) \in Frames
            BY <1>1, PlainFrames DEF For
        <3> QED BY <1>3, <1>4, <3>1, TwoOver
    <2> QED BY <1>1, <2>1, <2>2, ForDelegate
<1>9. Queued(q) /\ Linked(q, wire[r]) /\ Unheard(q, h) /\ Judged(q, o \union {g})
    BY <1>1, <1>3, <1>6 DEF Whole, Queued, Linked, Unheard, Judged
<1>10. ASSUME Flows(q, o \union {g}) PROVE Ordered(q, wire[r].sent, h, o \union {g})
    <2>1. Flows(req[r], o \union {f}) /\ \A x \in o : x.kind # "cancel"
        BY <1>1, <1>3, <1>6, <1>10 DEF Flows
    <2>2. Ordered(req[r], wire[r].sent, heard[r], o \union {f})
        BY <1>1, <2>1 DEF Whole
    <2>3. Parsers(o) = {}
        BY <2>1, Beneath
    <2>4. f \in Parsers(o \union {f}) /\ Parsers(o \union {g}) = {g}
        BY <1>1, <1>3, <2>3 DEF Parsers
    <2>5. ChunksOf(g) = ChunksOf(f) /\ (g.kind = "drain" => g.code = "ok")
        BY <1>1, <1>3, <2>2, <2>4 DEF ChunksOf, Ordered
    <2>6. Way(req[r], wire[r].sent, heard[r], f.events, ChunksOf(f))
        BY <2>2, <2>4 DEF Ordered
    <2>7. /\ n = Len(heard[r]) + 1 /\ n \in Events /\ Len(h) = Len(heard[r]) + 1
          /\ Way(q, wire[r].sent, h, Tail(f.events), ChunksOf(f))
        <3>1. Readable(req[r])
            BY <1>1, GoodIsReadable
        <3> QED BY <1>1, <1>2, <1>6, <2>6, <3>1, WayHeard DEF h
    <2>8. q.ended => Len(h) = StreamLength
        <3>1. req[r].ended => Len(heard[r]) = StreamLength
            BY <2>2 DEF Ordered
        <3>2. StreamLength \in Nat
            BY ServiceAssumption
        <3>3. ~req[r].ended
            BY <2>7, <3>1, <3>2 DEF Events
        <3> QED BY <1>6, <2>7, <3>3
    <2> QED BY <1>3, <2>4, <2>5, <2>7, <2>8 DEF Ordered
<1>11. Whole(q, wire[r], h, o \union {g})
    BY <1>9, <1>10 DEF Whole
<1>12. Streams(r)'
    BY <1>6, <1>7, <1>8, <1>11 DEF Streams
<1> QED BY <1>1, <1>4, <1>7, <1>8, <1>12, Aside

LEMMA StreamGivenUp ==
    ASSUME Core, StreamInv, NEW k \in {"drain", "finish"}, Running(k), Head(stack).r \in active,
           StreamFails(Head(stack)), UNCHANGED wire
    PROVE  StreamInv'
<1> DEFINE r == Head(stack).r
<1>1. For(Rest, r) /\ r \in Requests /\ req[r] \in RequestType
    BY Reading
<1>2. Complete(r, req[r], "Failed", Abort(r, req[r]) \o Rest) /\ Calm(r)
    BY DEF StreamFails, Calm
<1> HIDE DEF r
<1> QED BY <1>1, <1>2, FinishedAbort

\* The parser takes the next chunk, or keeps it as the error's body.
LEMMA StreamTake ==
    ASSUME Core, StreamInv, Running("drain"), Head(stack).r \in active,
           Head(stack).events = <<>>, Head(stack).chunks # <<>>, TakeChunk(Head(stack)),
           UNCHANGED wire
    PROVE  StreamInv'
<1> DEFINE f == Head(stack)
           r == Head(stack).r
           p == IF f.code = "error" THEN [events |-> <<>>, held |-> req[r].held]
                ELSE Parsed(req[r], Head(f.chunks))
           g == [f EXCEPT !.chunks = Tail(@), !.events = p.events]
           q == [req[r] EXCEPT !.held = p.held]
           o == Own(Rest, r)
<1>1. /\ f \in Frames /\ f.kind = "drain" /\ For(Rest, r) /\ Own(stack, r) = o \union {f}
      /\ Whole(req[r], wire[r], heard[r], Own(stack, r))
      /\ req[r].mode = "Stream" /\ ~req[r].waiting
      /\ r \in Requests /\ GoodRequest(req[r]) /\ req[r] \in RequestType
      /\ wire[r].sent \in 0 .. StreamLength /\ heard[r] \in Seq(Events)
    BY Reading
<1>2. f.chunks \in Seq(FullChunks) /\ Head(f.chunks) \in FullChunks /\ Tail(f.chunks) \in Seq(FullChunks)
    BY <1>1, FrameKinds
<1>3. p.events \in Seq(Events) /\ p.held \in Seq(Events)
    <2>1. CASE f.code = "error"
        BY <1>1, <2>1 DEF GoodRequest, RequestType
    <2>2. CASE f.code # "error"
        BY <1>1, <1>2, <2>2, ParsedType
    <2> QED BY <2>1, <2>2
<1>4. f.code # "error" => p = Parsed(req[r], Head(f.chunks))
    OBVIOUS
<1>5. req' = [req EXCEPT ![r] = q] /\ stack' = <<g>> \o Rest /\ UNCHANGED <<active, heard>>
    BY DEF TakeChunk
<1> HIDE DEF p
<1>6. /\ g \in Frames /\ g.kind = "drain" /\ g.r = r /\ g.events = p.events
      /\ g.chunks = Tail(f.chunks) /\ g.code = f.code
    <2>1. ASSUME NEW es \in Seq(Events), NEW cs \in Seq(FullChunks)
          PROVE  LET x == [f EXCEPT !.chunks = cs, !.events = es] IN
                 /\ x \in Frames /\ x.kind = "drain" /\ x.r = r /\ x.events = es
                 /\ x.chunks = cs /\ x.code = f.code
        BY <1>1 DEF Frames
    <2>2. g = [f EXCEPT !.chunks = Tail(f.chunks), !.events = p.events]
        OBVIOUS
    <2> QED BY <1>2, <1>3, <2>1, <2>2
<1>7. /\ q.mode = req[r].mode /\ q.waiting = req[r].waiting /\ q.pending = req[r].pending
      /\ q.overflowed = req[r].overflowed /\ q.status = req[r].status /\ q.ended = req[r].ended
      /\ q.drainScheduled = req[r].drainScheduled /\ q.posting = req[r].posting
      /\ q.drains = req[r].drains /\ q.saw = req[r].saw /\ q.held = p.held
    BY <1>1 DEF RequestType
<1> HIDE DEF g, q
<1>8. For(stack', r) /\ Own(stack', r) = o \union {g}
    <2>1. Drains(g, Rest)
        BY <1>1, <1>6, ForRest DEF Drains
    <2> QED BY <1>1, <1>5, <1>6, <2>1, ForPush DEF Mine
<1>9. Queued(q) /\ Linked(q, wire[r]) /\ Unheard(q, heard[r]) /\ Judged(q, o \union {g})
    BY <1>1, <1>6, <1>7 DEF Whole, Queued, Linked, Unheard, Judged
<1>10. ASSUME Flows(q, o \union {g}) PROVE Ordered(q, wire[r].sent, heard[r], o \union {g})
    <2>1. Flows(req[r], o \union {f}) /\ \A x \in o : x.kind # "cancel"
        BY <1>1, <1>6, <1>7, <1>10 DEF Flows
    <2>2. Ordered(req[r], wire[r].sent, heard[r], o \union {f})
        BY <1>1, <2>1 DEF Whole
    <2>3. Parsers(o) = {}
        BY <2>1, Beneath
    <2>4. f \in Parsers(o \union {f}) /\ Parsers(o \union {g}) = {g}
        BY <1>1, <1>6, <2>3 DEF Parsers
    <2>5. f.code = "ok" /\ Way(req[r], wire[r].sent, heard[r], <<>>, f.chunks)
        BY <1>1, <2>2, <2>4 DEF Ordered, ChunksOf
    <2>6. Way(q, wire[r].sent, heard[r], p.events, Tail(f.chunks))
        <3>1. Readable(req[r])
            BY <1>1, GoodIsReadable
        <3>2. p = Parsed(req[r], Head(f.chunks))
            BY <1>4, <2>5
        <3>3. q.held = Parsed(req[r], Head(f.chunks)).held
            BY <1>7, <3>2
        <3>4. Way(q, wire[r].sent, heard[r], Parsed(req[r], Head(f.chunks)).events, Tail(f.chunks))
            BY <1>1, <1>2, <1>7, <2>5, <3>1, <3>3, WayTaken
        <3> QED BY <3>2, <3>4
    <2> QED BY <1>6, <1>7, <2>2, <2>4, <2>5, <2>6 DEF Ordered, ChunksOf
<1>11. Whole(q, wire[r], heard[r], o \union {g})
    BY <1>9, <1>10 DEF Whole
<1> QED BY <1>1, <1>5, <1>7, <1>8, <1>11, Replace DEF Calm

LEMMA StreamDrainStep == ASSUME Core, StreamInv, DrainStep PROVE StreamInv'
<1> DEFINE f == Head(stack)
           r == Head(stack).r
<1>1. Running("drain") /\ UNCHANGED wire /\ f \in Frames /\ r \in Requests
    BY TopFrame, FrameKinds DEF DrainStep, Core
<1>2. CASE r \notin active /\ stack' = Rest /\ UNCHANGED <<req, active, heard>>
    <2>1. For(Rest, r)
        BY <1>1, ForRest
    <2> QED BY <1>1, <1>2, <2>1, StreamEnded DEF Calm
<1>3. CASE /\ r \in active /\ f.events = <<>> /\ f.chunks = <<>> /\ stack' = Rest
           /\ UNCHANGED <<req, active, heard>>
    <2> DEFINE o == Own(Rest, r)
    <2>1. /\ f.kind = "drain" /\ For(Rest, r) /\ Own(stack, r) = o \union {f}
          /\ Whole(req[r], wire[r], heard[r], o \union {f})
        BY <1>1, <1>3, Reading
    <2>2. Queued(req[r]) /\ Linked(req[r], wire[r]) /\ Unheard(req[r], heard[r]) /\ Judged(req[r], o)
        BY <2>1 DEF Whole, Judged
    <2>3. ASSUME Flows(req[r], o) PROVE Ordered(req[r], wire[r].sent, heard[r], o)
        <3>1. Flows(req[r], o \union {f}) /\ \A x \in o : x.kind # "cancel"
            BY <2>1, <2>3 DEF Flows
        <3>2. Ordered(req[r], wire[r].sent, heard[r], o \union {f})
            BY <2>1, <3>1 DEF Whole
        <3>3. Parsers(o) = {}
            BY <1>1, <3>1, Beneath
        <3>4. f \in Parsers(o \union {f}) /\ ChunksOf(f) = <<>>
            BY <1>3, <2>1 DEF Parsers, ChunksOf
        <3>5. Way(req[r], wire[r].sent, heard[r], <<>>, <<>>)
            BY <1>3, <3>2, <3>4 DEF Ordered
        <3> QED BY <3>2, <3>3, <3>5 DEF Ordered
    <2>4. Whole(req[r], wire[r], heard[r], o)
        BY <2>2, <2>3 DEF Whole
    <2>5. req' = [req EXCEPT ![r] = req[r]]
        BY <1>3 DEF Core
    <2> HIDE DEF r, f
    <2> QED BY <1>1, <1>3, <2>1, <2>4, <2>5, Replace DEF Calm
<1>4. CASE r \in active /\ f.events # <<>> /\ ProcessSseEvent(f)
    BY <1>1, <1>4, StreamHear
<1>5. CASE r \in active /\ StreamFails(f)
    BY <1>1, <1>5, StreamGivenUp
<1>6. CASE r \in active /\ f.events = <<>> /\ f.chunks # <<>> /\ TakeChunk(f)
    BY <1>1, <1>6, StreamTake
<1> QED BY <1>2, <1>3, <1>4, <1>5, <1>6 DEF DrainStep

-----------------------------------------------------------------------------
(* The verdict on a stream *)

\* The parser is told that the stream has ended.
LEMMA StreamVerdict ==
    ASSUME Core, StreamInv, Running("response"), NEW r \in active, r = Head(stack).r,
           Head(stack).outcome = "whole", NEW q, q = [req[r] EXCEPT !.attached = FALSE],
           req' = [req EXCEPT ![r] = [q EXCEPT !.held = <<>>]],
           stack' = <<[kind |-> "finish", r |-> r, events |-> q.held]>> \o Rest,
           UNCHANGED <<active, wire, heard>>, Own(Rest, r) = {}
    PROVE  StreamInv'
<1> DEFINE f == Head(stack)
           g == [kind |-> "finish", r |-> r, events |-> q.held]
           c == [q EXCEPT !.held = <<>>]
<1>1. /\ f \in Frames /\ f.kind = "response" /\ For(Rest, r) /\ Own(stack, r) = Own(Rest, r) \union {f}
      /\ Whole(req[r], wire[r], heard[r], Own(stack, r))
      /\ req[r].mode = "Stream" /\ ~req[r].waiting
      /\ r \in Requests /\ GoodRequest(req[r]) /\ req[r] \in RequestType
      /\ wire[r].sent \in 0 .. StreamLength /\ heard[r] \in Seq(Events)
    BY Reading
<1>2. /\ c.mode = req[r].mode /\ c.waiting = req[r].waiting /\ c.pending = req[r].pending
      /\ c.overflowed = req[r].overflowed /\ c.status = req[r].status /\ c.ended = req[r].ended
      /\ c.drainScheduled = req[r].drainScheduled /\ c.posting = req[r].posting
      /\ c.drains = req[r].drains /\ c.saw = req[r].saw /\ c.held = <<>> /\ q.held = req[r].held
    BY <1>1 DEF RequestType
<1>3. g \in Frames /\ g.kind = "finish" /\ g.r = r /\ g.events = req[r].held
    BY <1>1, <1>2 DEF Frames, RequestType
<1>4. req' = [req EXCEPT ![r] = c] /\ stack' = <<g>> \o Rest
    OBVIOUS
<1> HIDE DEF g, c
<1>5. For(stack', r) /\ Own(stack', r) = {g}
    <2>1. For(<<g>> \o Rest, r) /\ Own(<<g>> \o Rest, r) = Own(Rest, r) \union {g}
        BY <1>1, <1>3, ForPush DEF Mine
    <2> QED BY <1>4, <2>1
<1>6. f \in Own(stack, r) /\ Own(stack, r) = {f}
    BY <1>1
<1>7. Queued(c) /\ Linked(c, wire[r]) /\ Unheard(c, heard[r])
    BY <1>1, <1>2 DEF Whole, Queued, Linked, Unheard
<1>8. Judged(c, {g})
    BY <1>1, <1>2, <1>3, <1>6 DEF Whole, Judged
<1>9. ASSUME Flows(c, {g}) PROVE Ordered(c, wire[r].sent, heard[r], {g})
    <2>1. Flows(req[r], {f})
        BY <1>1, <1>2, <1>9 DEF Flows
    <2>2. Ordered(req[r], wire[r].sent, heard[r], {f}) /\ Parsers({f}) = {}
        BY <1>1, <1>6, <2>1 DEF Whole, Parsers
    <2>3. Way(req[r], wire[r].sent, heard[r], <<>>, <<>>)
        BY <2>2 DEF Ordered
    <2>4. Way(c, wire[r].sent, heard[r], req[r].held, <<>>)
        <3>1. Readable(req[r])
            BY <1>1, GoodIsReadable
        <3> QED BY <1>1, <1>2, <2>3, <3>1, WayFinishes
    <2>5. Parsers({g}) = {g} /\ ChunksOf(g) = <<>>
        BY <1>3 DEF Parsers, ChunksOf
    <2> QED BY <1>2, <1>3, <2>2, <2>4, <2>5 DEF Ordered
<1>10. Whole(c, wire'[r], heard[r], Own(stack', r))
    BY <1>5, <1>7, <1>8, <1>9 DEF Whole
<1>11. Calm(r) /\ active' \subseteq active \union {r} /\ c.saw = req[r].saw
    BY <1>2 DEF Calm
<1>12. req' = [req EXCEPT ![r] = c]
    BY <1>4
<1> QED BY <1>1, <1>5, <1>10, <1>11, <1>12, Replace

LEMMA OwnBase == ASSUME NEW r \in Requests, NEW x, Rest = <<Settle(r)>> PROVE Own(Rest, x) = {}
<1>1. Depths(Rest) = {1} /\ At(Rest, 1) = Settle(r)
    BY DEF Depths, At
<1> QED BY <1>1 DEF Own, Mine, Settle, Frame

LEMMA StreamResponseStep == ASSUME Core, StreamInv, ResponseStep PROVE StreamInv'
<1> DEFINE f == Head(stack)
<1>1. PICK r : r = Head(stack).r
    OBVIOUS
<1> DEFINE q == [req[r] EXCEPT !.attached = FALSE]
<1>2. /\ Running("response") /\ UNCHANGED <<wire, heard>> /\ f \in Frames /\ r \in Requests
      /\ Rest = <<Settle(r)>>
    BY <1>1, TopFrame, FrameKinds DEF ResponseStep, Core, Late
<1>3. For(Rest, r) /\ Own(Rest, r) = {} /\ Calm(r)
    BY <1>1, <1>2, ForRest, OwnBase DEF Calm
<1>4. \/ r \notin active /\ stack' = Rest /\ UNCHANGED <<req, active, told>>
      \/ r \in active /\ RetryOrFail(r, q, Rest)
      \/ r \in active /\ Complete(r, q, "Failed", Rest)
      \/ /\ r \in active /\ f.outcome = "whole"
         /\ req' = [req EXCEPT ![r] = [q EXCEPT !.held = <<>>]]
         /\ stack' = <<[kind |-> "finish", r |-> r, events |-> q.held]>> \o Rest
         /\ UNCHANGED <<active, told>>
    BY <1>1 DEF ResponseStep
<1>5. ASSUME r \in active
      PROVE  /\ req[r].mode = "Stream" /\ GoodRequest(req[r]) /\ req[r] \in RequestType
             /\ ~wire'[r].open
    BY <1>1, <1>2, <1>5, Reading, SettlingFit DEF Fit
<1>6. ASSUME r \in active
      PROVE  GoodRequest(q) /\ q \in RequestType /\ q.saw = req[r].saw /\ q.mode = "Stream"
    <2>1. GoodRequest(q)
        BY <1>5, <1>6, Fields
    <2>2. q.saw = req[r].saw /\ q.mode = req[r].mode
        BY <1>5, <1>6 DEF RequestType
    <2> QED BY <1>5, <1>6, <2>1, <2>2 DEF GoodRequest
<1>7. CASE r \notin active /\ stack' = Rest /\ UNCHANGED <<req, active, told>>
    BY <1>2, <1>3, <1>7, StreamEnded
<1>8. CASE /\ r \in active /\ f.outcome = "whole"
           /\ req' = [req EXCEPT ![r] = [q EXCEPT !.held = <<>>]]
           /\ stack' = <<[kind |-> "finish", r |-> r, events |-> q.held]>> \o Rest
           /\ UNCHANGED <<active, told>>
    BY <1>1, <1>2, <1>3, <1>8, StreamVerdict
<1> HIDE DEF q
<1>9. CASE r \in active /\ RetryOrFail(r, q, Rest)
    BY <1>3, <1>5, <1>6, <1>9, StreamRetry
<1>10. CASE r \in active /\ Complete(r, q, "Failed", Rest)
    BY <1>2, <1>3, <1>6, <1>10, Finished
<1> QED BY <1>4, <1>7, <1>8, <1>9, <1>10

LEMMA StreamFinishStep == ASSUME Core, StreamInv, FinishStep PROVE StreamInv'
<1> DEFINE f == Head(stack)
<1>1. PICK r : r = Head(stack).r
    OBVIOUS
<1>2. /\ Running("finish") /\ UNCHANGED wire /\ f \in Frames /\ r \in Requests
      /\ Rest = <<Settle(r)>>
    BY <1>1, TopFrame, FrameKinds DEF FinishStep, Core, Late
<1>3. For(Rest, r) /\ Own(Rest, r) = {}
    BY <1>1, <1>2, ForRest, OwnBase
<1>4. ASSUME r \in active
      PROVE  /\ req[r].mode = "Stream" /\ GoodRequest(req[r]) /\ req[r] \in RequestType
             /\ ~wire'[r].open
    BY <1>1, <1>2, <1>4, Reading, SettlingFit DEF Fit
<1>5. CASE r \notin active /\ stack' = Rest /\ UNCHANGED <<req, active, heard, told>>
    BY <1>2, <1>3, <1>5, StreamEnded DEF Calm
<1>6. CASE r \in active /\ f.events # <<>> /\ ProcessSseEvent(f)
    BY <1>1, <1>2, <1>6, StreamHear
<1>7. CASE r \in active /\ StreamFails(f)
    BY <1>1, <1>2, <1>7, StreamGivenUp
<1>8. CASE r \in active /\ UNCHANGED heard /\ Complete(r, req[r], "Completed", Rest)
    BY <1>2, <1>3, <1>4, <1>8, Finished DEF Calm
<1>9. CASE r \in active /\ UNCHANGED heard /\ RetryOrFail(r, req[r], Rest)
    BY <1>2, <1>3, <1>4, <1>9, StreamRetry DEF Calm
<1> QED BY <1>1, <1>5, <1>6, <1>7, <1>8, <1>9 DEF FinishStep
-----------------------------------------------------------------------------
(* The HTTP thread *)

LEMMA Scheduled ==
    ASSUME NEW q, q \in RequestType
    PROVE  LET c == ScheduleDrain(q) IN
           /\ c.mode = q.mode /\ c.waiting = q.waiting /\ c.pending = q.pending /\ c.held = q.held
           /\ c.overflowed = q.overflowed /\ c.status = q.status /\ c.ended = q.ended
           /\ c.saw = q.saw /\ c.drainScheduled = TRUE /\ c.drains = q.drains
           /\ c.posting = (q.posting \/ ~q.drainScheduled)
BY DEF ScheduleDrain, RequestType

\* The stream of a request whose transport is open.
LEMMA Receiving ==
    ASSUME Core, StreamInv, NEW r \in Requests, wire[r].open
    PROVE  /\ GoodRequest(req[r]) /\ req[r] \in RequestType /\ ~req[r].waiting
           /\ wire[r].sent \in 0 .. StreamLength /\ wire[r].status \in Codes
           /\ r \in active => Whole(req[r], wire[r], heard[r], Own(stack, r))
           /\ \A g \in Own(stack, r) : g.kind \in {"drain", "cancel"}
<1>1. Sounds(r) /\ req[r].accepted
    BY DEF Core, Sounds, Sound, NoWire
<1>2. ~Settling(stack, r) /\ ~req[r].waiting /\ GoodRequest(req[r])
    BY <1>1 DEF Sounds, Sound, Fit
<1>3. ASSUME NEW g \in Own(stack, r) PROVE g.kind \in {"drain", "cancel"}
    <2>1. PICK d \in Depths(stack) : g = At(stack, d) /\ Mine(g, r)
        BY DEF Own
    <2>2. g.kind \notin Late
        BY <1>2, <2>1 DEF Core, WellStacked, Settling, Mine, Depths
    <2> QED BY <2>1, <2>2 DEF Mine, Late
<1>4. wire[r].sent \in 0 .. StreamLength /\ wire[r].status \in Codes
    BY DEF Core, RestType, WireType
<1> QED BY <1>2, <1>3, <1>4 DEF GoodRequest, StreamInv, Streams

LEMMA StreamChunk == ASSUME Core, StreamInv, NEW r \in Requests, ReceiveChunk(r) PROVE StreamInv'
<1>1. PICK chunk \in NextChunks(wire[r].sent) :
        /\ wire' = [wire EXCEPT ![r].sent = Last(chunk.events)]
        /\ LET q == req[r]
           IN req' = [req EXCEPT ![r] = ScheduleDrain(
                         IF Len(q.pending) >= QueueCapacity
                         THEN [q EXCEPT !.accept = FALSE, !.overflowed = TRUE]
                         ELSE [q EXCEPT !.pending = Append(@, chunk)])]
    BY DEF ReceiveChunk
<1>2. /\ GoodRequest(req[r]) /\ req[r] \in RequestType /\ ~req[r].waiting
      /\ wire[r].sent \in 0 .. StreamLength
      /\ r \in active => Whole(req[r], wire[r], heard[r], Own(stack, r))
      /\ \A g \in Own(stack, r) : g.kind \in {"drain", "cancel"}
      /\ wire[r].open /\ req[r].mode = "Stream" /\ UNCHANGED <<active, stack, heard>>
    BY Receiving DEF ReceiveChunk
<1>3. /\ chunk \in FullChunks /\ Run(chunk.events, wire[r].sent)
      /\ Last(chunk.events) = wire[r].sent + Len(chunk.events)
    BY <1>2, NextIsRun
<1> DEFINE full == Len(req[r].pending) >= QueueCapacity
           d == IF full THEN [req[r] EXCEPT !.accept = FALSE, !.overflowed = TRUE]
                ELSE [req[r] EXCEPT !.pending = Append(@, chunk)]
           c == ScheduleDrain(d)
           n == wire[r].sent + Len(chunk.events)
           o == Own(stack, r)
<1>4. req' = [req EXCEPT ![r] = c]
    BY <1>1
<1>5. d \in RequestType
    <2>1. chunk \in Chunks
        BY <1>3 DEF FullChunks, Chunks
    <2>2. \A cs \in Seq(Chunks) : [req[r] EXCEPT !.pending = cs] \in RequestType
        BY <1>2 DEF RequestType
    <2>3. Append(req[r].pending, chunk) \in Seq(Chunks)
        BY <1>2, <2>1 DEF RequestType
    <2>4. [req[r] EXCEPT !.pending = Append(req[r].pending, chunk)] \in RequestType
        BY <2>2, <2>3, Zenon
    <2>5. [req[r] EXCEPT !.accept = FALSE, !.overflowed = TRUE] \in RequestType
        BY <1>2 DEF RequestType
    <2> QED BY <2>4, <2>5
<1>6. /\ d.mode = "Stream" /\ ~d.waiting /\ d.held = req[r].held /\ d.status = req[r].status
      /\ d.ended = req[r].ended /\ d.saw = req[r].saw /\ d.drains = req[r].drains
      /\ d.posting = req[r].posting /\ d.drainScheduled = req[r].drainScheduled
      /\ full => d.overflowed
      /\ ~full => d.overflowed = req[r].overflowed /\ d.pending = Append(req[r].pending, chunk)
    BY <1>2 DEF RequestType
<1> HIDE DEF d, full
<1>7. /\ c.mode = "Stream" /\ ~c.waiting /\ c.pending = d.pending /\ c.held = req[r].held
      /\ c.overflowed = d.overflowed /\ c.status = req[r].status /\ c.ended = req[r].ended
      /\ c.saw = req[r].saw /\ c.drainScheduled = TRUE /\ c.drains = req[r].drains
      /\ c.posting = (req[r].posting \/ ~req[r].drainScheduled)
    BY <1>5, <1>6, Scheduled
<1> HIDE DEF c
<1>8. Calm(r) /\ wire'[r].sent = n /\ wire'[r].status = wire[r].status /\ wire'[r].open
    BY <1>1, <1>2, <1>3 DEF Calm, Core, RestType, WireType
<1>9. ASSUME r \in active PROVE Whole(c, wire'[r], heard[r], o)
    <2>1. Whole(req[r], wire[r], heard[r], o)
        BY <1>2, <1>9
    <2>2. Queued(c)
        BY <1>7, <2>1 DEF Whole, Queued
    <2>3. Linked(c, wire'[r]) /\ Unheard(c, heard[r]) /\ Judged(c, o)
        BY <1>2, <1>7, <1>8, <2>1 DEF Whole, Linked, Unheard, Judged
    <2>4. ASSUME Flows(c, o) PROVE Ordered(c, n, heard[r], o)
        <3>1. ~full /\ Flows(req[r], o)
            BY <1>2, <1>6, <1>7, <2>4 DEF Flows
        <3>2. Ordered(req[r], wire[r].sent, heard[r], o) /\ Readable(req[r])
            BY <1>2, <2>1, <3>1, GoodIsReadable DEF Whole
        <3>3. c.held = req[r].held /\ c.pending = Append(req[r].pending, chunk)
            BY <1>6, <1>7, <3>1
        <3>4. ASSUME NEW es, NEW cs, Way(req[r], wire[r].sent, heard[r], es, cs)
              PROVE  Way(c, n, heard[r], es, cs)
            BY <1>2, <1>3, <3>2, <3>3, <3>4, WayGrows
        <3> HIDE DEF n, o
        <3> QED BY <1>7, <3>2, <3>4 DEF Ordered
    <2> QED BY <1>8, <2>2, <2>3, <2>4 DEF Whole
<1>10. For(stack', r)
    BY <1>2, ForNow
<1> QED BY <1>2, <1>4, <1>7, <1>8, <1>9, <1>10, Replace

LEMMA StreamStatus == ASSUME Core, StreamInv, NEW r \in Requests, ReceiveStatus(r) PROVE StreamInv'
<1>1. PICK code \in {"ok", "error"} :
        /\ wire' = [wire EXCEPT ![r].status = code]
        /\ LET q == [req[r] EXCEPT !.status = code]
           IN req' = [req EXCEPT ![r] = IF q.pending # <<>> THEN ScheduleDrain(q) ELSE q]
    BY DEF ReceiveStatus
<1>2. /\ GoodRequest(req[r]) /\ req[r] \in RequestType /\ ~req[r].waiting
      /\ r \in active => Whole(req[r], wire[r], heard[r], Own(stack, r))
      /\ \A g \in Own(stack, r) : g.kind \in {"drain", "cancel"}
      /\ wire[r].open /\ req[r].mode = "Stream" /\ wire[r].status = "none"
      /\ UNCHANGED <<active, stack, heard>>
    BY Receiving DEF ReceiveStatus
<1> DEFINE d == [req[r] EXCEPT !.status = code]
           c == IF d.pending # <<>> THEN ScheduleDrain(d) ELSE d
           o == Own(stack, r)
<1>3. req' = [req EXCEPT ![r] = c]
    BY <1>1
<1>4. d \in RequestType
    BY <1>2 DEF RequestType, Codes
<1>5. /\ d.mode = "Stream" /\ ~d.waiting /\ d.held = req[r].held /\ d.status = code
      /\ d.pending = req[r].pending /\ d.overflowed = req[r].overflowed
      /\ d.ended = req[r].ended /\ d.saw = req[r].saw /\ d.drains = req[r].drains
      /\ d.posting = req[r].posting /\ d.drainScheduled = req[r].drainScheduled
    BY <1>2 DEF RequestType
<1> HIDE DEF d
<1>6. /\ c.mode = "Stream" /\ ~c.waiting /\ c.pending = req[r].pending /\ c.held = req[r].held
      /\ c.overflowed = req[r].overflowed /\ c.status = code /\ c.ended = req[r].ended
      /\ c.saw = req[r].saw /\ c.drains = req[r].drains
      /\ \/ c.drainScheduled = req[r].drainScheduled /\ c.posting = req[r].posting /\ c.pending = <<>>
         \/ c.drainScheduled = TRUE /\ c.posting = (req[r].posting \/ ~req[r].drainScheduled)
    BY <1>4, <1>5, Scheduled
<1> HIDE DEF c
<1>7. /\ Calm(r) /\ wire'[r].sent = wire[r].sent /\ wire'[r].status = code
    BY <1>1, <1>2 DEF Calm, Core, RestType, WireType
<1>8. ASSUME r \in active PROVE Whole(c, wire'[r], heard[r], o)
    <2>1. Whole(req[r], wire[r], heard[r], o)
        BY <1>2, <1>8
    <2>2. Queued(c)
        BY <1>6, <2>1 DEF Whole, Queued
    <2>3. Linked(c, wire'[r]) /\ Unheard(c, heard[r]) /\ Judged(c, o)
        BY <1>2, <1>6, <1>7, <2>1 DEF Whole, Linked, Unheard, Judged
    <2>4. ASSUME Flows(c, o) PROVE Ordered(c, wire[r].sent, heard[r], o)
        <3>1. Flows(req[r], o)
            BY <1>2, <1>6, <2>1, <2>4 DEF Flows, Whole, Linked
        <3>2. Ordered(req[r], wire[r].sent, heard[r], o)
            BY <2>1, <3>1 DEF Whole
        <3> QED BY <1>6, <3>2, WaySame DEF Ordered
    <2> QED BY <1>7, <2>2, <2>3, <2>4 DEF Whole
<1>9. For(stack', r)
    BY <1>2, ForNow
<1> QED BY <1>2, <1>3, <1>6, <1>7, <1>8, <1>9, Replace

-----------------------------------------------------------------------------
(* Cancellation, deadlines and shutdown *)

LEMMA StreamCancel == ASSUME Core, StreamInv, NEW r \in Requests, CancelRequest(r) PROVE StreamInv'
<1>1. /\ r \in active /\ UNCHANGED <<wire, heard>> /\ Calm(r) /\ For(stack, r)
      /\ GoodRequest(req[r]) /\ req[r] \in RequestType
      /\ Whole(req[r], wire[r], heard[r], Own(stack, r))
    BY RunningFit, ForNow DEF CancelRequest, Calm, StreamInv, Streams
<1>2. CASE Drain(r, req[r], <<Frame("cancel", r)>> \o stack)
    <2> DEFINE f == Frame("cancel", r)
               s == <<f>> \o stack
    <2>1. f \in Frames /\ f.kind = "cancel" /\ f.r = r
        BY PlainFrames
    <2>2. stack \in Seq(Frames)
        BY <1>1 DEF For
    <2>3. Head(s) = f /\ s # <<>>
        BY <2>2
    <2>4. \A g : g.r = r => Drains(g, s)
        BY <2>3 DEF Drains
    <2>5. Drain(r, req[r], s)
        BY <1>2
    <2> HIDE DEF f
    <2>6. For(s, r) /\ Own(s, r) = Own(stack, r) \union {f}
        BY <1>1, <2>1, ForPush DEF Mine
    <2> HIDE DEF s
    <2>7. Queued(req[r]) /\ Linked(req[r], wire'[r]) /\ Unheard(req[r], heard[r])
          /\ Judged(req[r], Own(s, r)) /\ ~Flows(req[r], Own(s, r))
        BY <1>1, <2>1, <2>6 DEF Whole, Judged, Flows
    <2>8. wire'[r].sent \in 0 .. StreamLength
        BY <1>1 DEF Core, RestType, WireType
    <2> QED BY <1>1, <2>4, <2>5, <2>6, <2>7, <2>8, StreamDrain
<1>3. CASE FinishCancel(r, req[r], stack)
    BY <1>1, <1>3, FinishedAbort DEF FinishCancel
<1> QED BY <1>2, <1>3 DEF CancelRequest

LEMMA StreamCancelStep == ASSUME Core, StreamInv, CancelStep PROVE StreamInv'
<1>1. PICK r : r = Head(stack).r
    OBVIOUS
<1>2. Running("cancel") /\ UNCHANGED <<wire, heard>> /\ r \in Requests /\ For(Rest, r)
    <2>1. Running("cancel") /\ UNCHANGED <<wire, heard>>
        BY DEF CancelStep
    <2> QED BY <1>1, <2>1, TopFrame, FrameKinds, ForRest DEF Core
<1>3. CASE r \in active /\ FinishCancel(r, req[r], Rest)
    BY <1>2, <1>3, RunningFit, FinishedAbort DEF FinishCancel, Calm
<1>4. CASE r \notin active /\ stack' = Rest /\ UNCHANGED <<req, active, told>>
    BY <1>2, <1>4, StreamEnded DEF Calm
<1> QED BY <1>1, <1>3, <1>4 DEF CancelStep

LEMMA StreamPumpStep == ASSUME Core, StreamInv, PumpStep PROVE StreamInv'
<1> DEFINE f == Head(stack)
<1>1. Running("pump") /\ UNCHANGED <<wire, heard>>
    BY DEF PumpStep
<1>2. f \in Frames /\ f.kind = "pump" /\ f.due \in SUBSET Requests /\ f.ticker \in 1 .. MaxTickers
    BY <1>1, TopFrame, FrameKinds DEF Core
<1>3. \A r : For(Rest, r) /\ Own(Rest, r) = Own(stack, r)
    BY <1>1, <1>2, ForRest DEF Mine
<1>4. \A x \in Requests : Level(wire'[x], wire[x])
    BY <1>1 DEF Level
<1>5. CASE stack' = Rest /\ UNCHANGED <<req, active>>
    BY <1>1, <1>3, <1>4, <1>5, StreamStack
<1>6. ASSUME NEW r \in f.due,
             LET after == <<[f EXCEPT !.due = @ \ {r}]>> \o Rest
             IN IF req[r].terminal
                THEN stack' = after /\ UNCHANGED <<req, active, told>>
                ELSE Complete(r, req[r], "Failed", Abort(r, req[r]) \o after)
      PROVE  StreamInv'
    <2> DEFINE g == [f EXCEPT !.due = @ \ {r}]
               after == <<g>> \o Rest
    <2>1. g \in Frames /\ g.kind = "pump"
        BY <1>2 DEF Frames
    <2>2. r \in Requests /\ req[r] \in RequestType
        BY <1>2 DEF Core
    <2> HIDE DEF g
    <2>3. For(after, r) /\ Own(after, r) = Own(stack, r)
        BY <1>3, <2>1, ForPlain
    <2>4. CASE stack' = after /\ UNCHANGED <<req, active, told>>
        <3> HIDE DEF after
        <3> QED BY <1>1, <1>4, <2>3, <2>4, StreamStack
    <2>5. CASE Complete(r, req[r], "Failed", Abort(r, req[r]) \o after)
        <3> HIDE DEF after
        <3> QED BY <1>1, <2>2, <2>3, <2>5, FinishedAbort DEF Calm
    <2> QED BY <1>6, <2>4, <2>5 DEF g, after
<1> QED BY <1>5, <1>6 DEF PumpStep

LEMMA StreamPump == ASSUME Core, StreamInv, NEW t \in tickers, PumpDeadlines(t) PROVE StreamInv'
<1>1. Idle /\ UNCHANGED <<req, active, wire, heard>> /\ t \in 1 .. MaxTickers
    BY DEF PumpDeadlines, Core, RestType
<1>2. \A r : For(stack, r) /\ stack = <<>> /\ Own(stack, r) = {}
    BY <1>1, ForNow, NoCalls DEF Idle
<1>3. \A x \in Requests : Level(wire'[x], wire[x])
    BY <1>1 DEF Level
<1>4. CASE stack' = stack
    BY <1>1, <1>2, <1>3, <1>4, StreamStack
<1>5. CASE stack' = <<PumpFrame(t, Expired)>>
    <2> DEFINE f == PumpFrame(t, Expired)
    <2>1. f \in Frames /\ f.kind = "pump"
        <3>1. Expired \in SUBSET Requests
            BY DEF Expired, Core, RestType
        <3> QED BY <1>1, <3>1 DEF PumpFrame, Frames
    <2>2. <<f>> \o <<>> = <<f>>
        OBVIOUS
    <2> HIDE DEF f
    <2>3. \A r : For(<<f>> \o <<>>, r) /\ Own(<<f>> \o <<>>, r) = Own(<<>>, r)
        BY <1>2, <2>1, ForPlain
    <2>4. stack' = <<f>>
        BY <1>5 DEF f
    <2> QED BY <1>1, <1>2, <1>3, <2>2, <2>3, <2>4, StreamStack
<1> QED BY <1>4, <1>5 DEF PumpDeadlines

LEMMA StreamShutdown == ASSUME Core, StreamInv, Shutdown PROVE StreamInv'
<1>1. active' = {} /\ UNCHANGED <<stack, heard>>
    BY DEF Shutdown
<1>2. ASSUME NEW x \in Requests PROVE req'[x].saw = req[x].saw
    <2>1. req[x] \in RequestType
        BY DEF Core
    <2>2. Closed(req[x]).saw = req[x].saw
        BY <2>1 DEF Closed, RequestType
    <2> QED BY <2>2 DEF Shutdown
<1> QED BY <1>1, <1>2 DEF StreamInv, Streams

\* The calls that touch no stream.
LEMMA StreamQuiet ==
    ASSUME Core, StreamInv,
           \/ BackoffStep \/ SettleStep \/ AbortStep \/ DelegateReturns
           \/ \E r \in Requests : PostDrain(r) \/ DeadlinePasses(r)
           \/ \E n \in Limits : SetLimits(n)
           \/ UNCHANGED vars
    PROVE  StreamInv'
<1>1. \A x \in Requests : req[x] \in RequestType
    BY DEF Core
<1>2. CASE BackoffStep
    <2>1. PICK r : r = Head(stack).r
        OBVIOUS
    <2> DEFINE c == [req[r] EXCEPT !.retryTicker = r \in active]
    <2>2. /\ Running("backoff") /\ stack' = Rest /\ UNCHANGED <<active, wire, heard>>
          /\ req' = [req EXCEPT ![r] = c]
        BY <1>2, <2>1 DEF BackoffStep
    <2>3. r \in Requests
        BY <2>1, <2>2, TopFrame, FrameKinds DEF Core
    <2>4. For(stack', r) /\ Own(stack', r) = Own(stack, r)
        BY <2>2, ForRest DEF Mine, Running
    <2>5. c.saw = req[r].saw /\ Steady(c, req[r])
        BY <1>1, <2>3 DEF RequestType, Steady
    <2> HIDE DEF c
    <2> QED BY <2>2, <2>3, <2>4, <2>5, StreamSteady DEF Calm, Level
<1>3. CASE SettleStep
    <2>1. PICK r : r = Head(stack).r
        OBVIOUS
    <2> DEFINE c == [req[r] EXCEPT !.physical = @ - 1]
    <2>2. /\ Running("settle") /\ stack' = Rest /\ UNCHANGED <<active, wire, heard>>
          /\ req' = [req EXCEPT ![r] = c]
        BY <1>3, <2>1 DEF SettleStep
    <2>3. r \in Requests
        BY <2>1, <2>2, TopFrame, FrameKinds DEF Core
    <2>4. For(stack', r) /\ Own(stack', r) = Own(stack, r)
        BY <2>2, ForRest DEF Mine, Running
    <2>5. c.saw = req[r].saw /\ Steady(c, req[r])
        BY <1>1, <2>3 DEF RequestType, Steady
    <2> HIDE DEF c
    <2> QED BY <2>2, <2>3, <2>4, <2>5, StreamSteady DEF Calm, Level
<1>4. CASE AbortStep
    <2>1. PICK r : r = Head(stack).r
        OBVIOUS
    <2>2. /\ Running("abort") /\ stack' = Rest /\ UNCHANGED <<req, active, heard>>
          /\ wire' = [wire EXCEPT ![r].cancelled = TRUE]
        BY <1>4, <2>1 DEF AbortStep
    <2>3. For(stack', r) /\ Own(stack', r) = Own(stack, r)
        BY <2>2, ForRest DEF Mine, Running
    <2>4. \A x \in Requests : Level(wire'[x], wire[x])
        <3>1. ASSUME NEW w \in WireType PROVE Level([w EXCEPT !.cancelled = TRUE], w)
            BY DEF WireType, Level
        <3>2. \A w : Level(w, w)
            BY DEF Level
        <3>3. \A x \in Requests :
                wire'[x] = wire[x] \/ wire'[x] = [wire[x] EXCEPT !.cancelled = TRUE]
            BY <2>2 DEF Core, RestType
        <3> QED BY <3>1, <3>2, <3>3 DEF Core, RestType
    <2> QED BY <2>2, <2>3, <2>4, StreamStack
<1>5. CASE DelegateReturns
    <2>1. PICK r : r = Head(stack).r
        OBVIOUS
    <2>2. Running("delegate") /\ stack' = Rest /\ UNCHANGED <<req, active, heard, wire>>
        BY <1>5 DEF DelegateReturns
    <2>3. For(stack', r) /\ Own(stack', r) = Own(stack, r)
        BY <2>2, ForRest DEF Mine, Running
    <2>4. \A x \in Requests : Level(wire'[x], wire[x])
        BY <2>2 DEF Level
    <2> QED BY <2>2, <2>3, <2>4, StreamStack
<1>6. ASSUME NEW r \in Requests, PostDrain(r) PROVE StreamInv'
    <2> DEFINE c == [req[r] EXCEPT !.posting = FALSE, !.drains = @ + 1]
    <2>1. req' = [req EXCEPT ![r] = c] /\ UNCHANGED <<active, wire, stack, heard>>
        BY <1>6 DEF PostDrain, Core
    <2>2. For(stack', r) /\ Own(stack', r) = Own(stack, r)
        BY <2>1, ForNow
    <2>3. c.saw = req[r].saw /\ Steady(c, req[r])
        <3>1. req[r].drains \in Nat
            BY <1>1 DEF RequestType
        <3>2. req[r].drains + 1 > 0
            BY <3>1
        <3>3. c.drains = req[r].drains + 1
            BY <1>1 DEF RequestType
        <3> QED BY <1>1, <3>2, <3>3 DEF RequestType, Steady
    <2> HIDE DEF c
    <2> QED BY <2>1, <2>2, <2>3, StreamSteady DEF Calm, Level
<1>7. ASSUME NEW r \in Requests, DeadlinePasses(r) PROVE StreamInv'
    <2> DEFINE c == [req[r] EXCEPT !.expired = TRUE]
    <2>1. req' = [req EXCEPT ![r] = c] /\ UNCHANGED <<active, wire, stack, heard>>
        BY <1>7 DEF DeadlinePasses, Core
    <2>2. For(stack', r) /\ Own(stack', r) = Own(stack, r)
        BY <2>1, ForNow
    <2>3. c.saw = req[r].saw /\ Steady(c, req[r])
        BY <1>1 DEF RequestType, Steady
    <2> HIDE DEF c
    <2> QED BY <2>1, <2>2, <2>3, StreamSteady DEF Calm, Level
<1>8. ASSUME UNCHANGED <<req, active, wire, stack, heard>> PROVE StreamInv'
    BY <1>8, ForNow, StreamStack DEF Level
<1> QED BY <1>2, <1>3, <1>4, <1>5, <1>6, <1>7, <1>8 DEF SetLimits, vars

LEMMA StreamNext == ASSUME Core, StreamInv, [Next]_vars PROVE StreamInv'
<1>1. ASSUME NEW r \in Requests,
             \/ Start(r) \/ DrainTask(r) \/ TransportCompletes(r)
             \/ ResumeRequestAfterBackoff(r) \/ CancelRequest(r)
             \/ ReceiveChunk(r) \/ ReceiveStatus(r) \/ PostDrain(r) \/ DeadlinePasses(r)
      PROVE  StreamInv'
    BY <1>1, StreamStart, StreamDrainTask, StreamTransport, StreamResume, StreamCancel,
       StreamChunk, StreamStatus, StreamQuiet
<1>2. CASE GameThread
    BY <1>2, StreamDrainStep, StreamResponseStep, StreamFinishStep, StreamCancelStep,
       StreamPumpStep, StreamQuiet DEF GameThread
<1> QED BY <1>1, <1>2, StreamPump, StreamShutdown, StreamQuiet DEF Next

-----------------------------------------------------------------------------
(* The end of a stream *)

LEMMA InitStream == Init => StreamInv /\ EndInv
<1> SUFFICES ASSUME Init PROVE StreamInv /\ EndInv
    OBVIOUS
<1>1. Nested(stack)
    BY NoCalls DEF Init
<1>2. ASSUME NEW r \in Requests PROVE Streams(r) /\ told[r] # <<"Completed">>
    BY DEF Init, Streams
<1> QED BY <1>1, <1>2 DEF StreamInv, EndInv

AllEvents == [n \in Events |-> n]

\* A completion that is told follows the whole stream.
Genuine ==
    \A x \in Requests :
        told'[x] = <<"Completed">>
        => told[x] = <<"Completed">> \/ req[x].mode # "Stream" \/ heard[x] = AllEvents

LEMMA GenuineSame == ASSUME UNCHANGED told PROVE Genuine
BY DEF Genuine

\* Other ends are no completion.
LEMMA GenuineEnd ==
    ASSUME Core, TellInv, NEW r \in active, NEW q, NEW how, NEW rest, Complete(r, q, how, rest),
           how # "Completed" \/ req[r].mode # "Stream" \/ heard[r] = AllEvents
    PROVE  Genuine
<1>1. r \in Requests /\ told[r] = <<>> /\ Append(told[r], how) = <<how>>
    BY FirstOf DEF Core, RestType, TellInv
<1>2. told' = [told EXCEPT ![r] = <<how>>]
    BY <1>1 DEF Complete
<1>3. \A x \in Requests : told'[x] = IF x = r THEN <<how>> ELSE told[x]
    BY <1>2 DEF Core, RestType
<1>4. <<how>> = <<"Completed">> => how = "Completed"
    OBVIOUS
<1> QED BY <1>3, <1>4 DEF Genuine

LEMMA GenuineDrain ==
    ASSUME Core, TellInv, NEW r, NEW q, NEW rest, Drain(r, q, rest) PROVE Genuine
BY GenuineSame, GenuineEnd DEF Drain

LEMMA GenuineRetry ==
    ASSUME Core, TellInv, NEW r \in active, NEW q, NEW rest, RetryOrFail(r, q, rest) PROVE Genuine
BY GenuineSame, GenuineEnd DEF RetryOrFail, TryScheduleRetry

\* The verdict is over everything the provider sent.
LEMMA FinishedIsWhole ==
    ASSUME Core, StreamInv, Running("finish"), NEW r \in active, r = Head(stack).r, req[r].ended
    PROVE  heard[r] = AllEvents
<1> DEFINE f == Head(stack)
<1>1. /\ f \in Frames /\ f.kind = "finish" /\ Own(stack, r) = Own(Rest, r) \union {f}
      /\ Whole(req[r], wire[r], heard[r], Own(stack, r))
      /\ req[r].mode = "Stream" /\ ~req[r].waiting
      /\ r \in Requests /\ heard[r] \in Seq(Events)
    BY Reading
<1>2. Rest = <<Settle(r)>>
    BY TopFrame DEF Core, Late
<1>3. Own(stack, r) = {f}
    BY <1>1, <1>2, OwnBase
<1>4. Flows(req[r], {f})
    BY <1>1, <1>3 DEF Whole, Judged, Flows
<1>5. Ordered(req[r], wire[r].sent, heard[r], {f}) /\ f \in Parsers({f})
    BY <1>1, <1>3, <1>4 DEF Whole, Parsers
<1>6. Len(heard[r]) = StreamLength /\ Run(heard[r], 0)
    BY <1>5 DEF Ordered, Way
<1>7. \A h : h \in Seq(Events) /\ Len(h) = StreamLength /\ Run(h, 0) => h = AllEvents
    <2> SUFFICES ASSUME NEW h, h \in Seq(Events), Len(h) = StreamLength, Run(h, 0)
                 PROVE  h = AllEvents
        OBVIOUS
    <2>1. h = [i \in 1 .. StreamLength |-> h[i]]
        OBVIOUS
    <2>2. \A i \in 1 .. StreamLength : h[i] = i
        BY ServiceAssumption DEF Run
    <2> QED BY <2>1, <2>2 DEF AllEvents, Events
<1> QED BY <1>1, <1>6, <1>7

LEMMA GenuineParse ==
    ASSUME Core, TellInv, NEW f, f.r \in active,
           ProcessSseEvent(f) \/ StreamFails(f) \/ TakeChunk(f)
    PROVE  Genuine
BY GenuineSame, GenuineEnd DEF ProcessSseEvent, StreamFails, TakeChunk

LEMMA GenuineStart == ASSUME Core, TellInv, NEW r \in Requests, Start(r) PROVE Genuine
<1>1. \/ UNCHANGED told
      \/ told' = [told EXCEPT ![r] = Append(@, "Failed")]
    BY DEF Start, Reject, Admit, AttemptFails, Complete
<1>2. told[r] = <<>> /\ Append(told[r], "Failed") = <<"Failed">>
    BY FirstOf DEF Start
<1>3. <<"Failed">> # <<"Completed">>
    OBVIOUS
<1> QED BY <1>1, <1>2, <1>3, GenuineSame DEF Genuine, Core, RestType

LEMMA GenuineStep == ASSUME Core, TellInv, StreamInv, [Next]_vars PROVE Genuine
<1>1. ASSUME NEW r \in Requests, ResumeRequestAfterBackoff(r) PROVE Genuine
    BY <1>1, GenuineSame, GenuineEnd DEF ResumeRequestAfterBackoff, AttemptFails
<1>2. ASSUME NEW r \in Requests, CancelRequest(r) PROVE Genuine
    BY <1>2, GenuineEnd, GenuineDrain DEF CancelRequest, FinishCancel
<1>3. ASSUME NEW r \in Requests, DrainTask(r) PROVE Genuine
    BY <1>3, GenuineDrain DEF DrainTask
<1>4. ASSUME NEW r \in Requests, TransportCompletes(r) PROVE Genuine
    <2>1. PICK outcome \in Outcomes :
            \/ HandleStreamResponse(r, outcome)
            \/ req[r].mode # "Stream" /\ HandleChatCompletionResponse(r, outcome)
        BY <1>4 DEF TransportCompletes, Possible
    <2>2. CASE HandleStreamResponse(r, outcome)
        BY <2>2, GenuineDrain, GenuineSame DEF HandleStreamResponse
    <2>3. CASE req[r].mode # "Stream" /\ HandleChatCompletionResponse(r, outcome)
        BY <2>3, GenuineRetry, GenuineEnd, GenuineSame DEF HandleChatCompletionResponse
    <2> QED BY <2>1, <2>2, <2>3
<1>5. ASSUME NEW r \in Requests,
             ReceiveChunk(r) \/ ReceiveStatus(r) \/ PostDrain(r) \/ DeadlinePasses(r)
      PROVE  Genuine
    BY <1>5, GenuineSame DEF ReceiveChunk, ReceiveStatus, PostDrain, DeadlinePasses
<1>6. ASSUME DrainStep PROVE Genuine
    BY <1>6, GenuineParse, GenuineSame DEF DrainStep
<1>7. ASSUME ResponseStep PROVE Genuine
    BY <1>7, GenuineRetry, GenuineEnd, GenuineSame DEF ResponseStep
<1>8. ASSUME FinishStep PROVE Genuine
    <2>1. PICK r : r = Head(stack).r
        OBVIOUS
    <2>2. \/ UNCHANGED told
          \/ /\ r \in active
             /\ \/ ProcessSseEvent(Head(stack)) \/ StreamFails(Head(stack))
                \/ req[r].ended /\ Complete(r, req[r], "Completed", Rest)
                \/ RetryOrFail(r, req[r], Rest)
        BY <1>8, <2>1 DEF FinishStep
    <2>3. CASE r \in active /\ req[r].ended /\ Complete(r, req[r], "Completed", Rest)
        <3>1. heard[r] = AllEvents
            BY <1>8, <2>1, <2>3, FinishedIsWhole DEF FinishStep
        <3> QED BY <2>3, <3>1, GenuineEnd
    <2> QED BY <2>1, <2>2, <2>3, GenuineParse, GenuineRetry, GenuineSame
<1>9. ASSUME CancelStep PROVE Genuine
    BY <1>9, GenuineEnd, GenuineSame DEF CancelStep, FinishCancel
<1>10. ASSUME PumpStep PROVE Genuine
    <2> DEFINE f == Head(stack)
    <2>1. f.due \in SUBSET Requests /\ f.due \subseteq Served(stack)
        BY <1>10, TopFrame, FrameKinds DEF PumpStep, Core, Serves
    <2>2. ASSUME NEW r \in f.due, ~req[r].terminal PROVE r \in active
        BY <2>1, <2>2 DEF Core, Sounds, Sound
    <2>3. \/ UNCHANGED told
          \/ \E r \in f.due : \E rest :
                ~req[r].terminal /\ Complete(r, req[r], "Failed", rest)
        BY <1>10 DEF PumpStep
    <2> QED BY <2>2, <2>3, GenuineEnd, GenuineSame
<1>11. ASSUME BackoffStep \/ SettleStep \/ AbortStep \/ DelegateReturns PROVE Genuine
    BY <1>11, GenuineSame DEF BackoffStep, SettleStep, AbortStep, DelegateReturns
<1>12. ASSUME NEW t \in tickers, PumpDeadlines(t) PROVE Genuine
    BY <1>12, GenuineSame DEF PumpDeadlines
<1>13. ASSUME NEW n \in Limits, SetLimits(n) PROVE Genuine
    BY <1>13, GenuineSame DEF SetLimits
<1>14. ASSUME Shutdown PROVE Genuine
    <2>1. \A r \in active : Append(told[r], "Closed") = <<"Closed">>
        BY FirstOf DEF TellInv, Core, RestType
    <2>2. <<"Closed">> # <<"Completed">>
        OBVIOUS
    <2> QED BY <1>14, <2>1, <2>2 DEF Shutdown, Genuine
<1>15. ASSUME UNCHANGED vars PROVE Genuine
    BY <1>15, GenuineSame DEF vars
<1> QED BY <1>1, <1>2, <1>3, <1>4, <1>5, <1>6, <1>7, <1>8, <1>9, <1>10, <1>11, <1>12, <1>13,
           <1>14, <1>15, GenuineStart DEF Next, GameThread

\* Who has been told its end hears no more, and a request keeps its mode.
LEMMA EndStep == ASSUME Core, TellInv, StreamInv, EndInv, [Next]_vars PROVE EndInv'
<1> SUFFICES ASSUME NEW x \in Requests, req'[x].mode = "Stream", told'[x] = <<"Completed">>
             PROVE  heard'[x] = AllEvents
    BY DEF EndInv, AllEvents
<1>1. told[x] = <<"Completed">> \/ req[x].mode # "Stream" \/ heard[x] = AllEvents
    BY GenuineStep DEF Genuine
<1>2. heard'[x] = heard[x]
    <2>1. CASE UNCHANGED heard
        BY <2>1
    <2>2. CASE \E r \in Requests, n \in Events : Contract!Hear(r, n)
        <3>1. PICK r \in Requests, n \in Events : Contract!Hear(r, n)
            BY <2>2
        <3>2. r \in active /\ told[r] = <<>> /\ UNCHANGED told
            BY <3>1 DEF Contract!Hear, TellInv
        <3>3. x # r
            BY <3>2
        <3> QED BY <3>1, <3>3 DEF Contract!Hear, Core, RestType
    <2> QED BY <2>1, <2>2, ContractStep
            DEF Heard, Contract!Next, Contract!Begin, Contract!Refuse, Contract!End, Contract!Close
<1>3. req[x].mode = "Stream"
    <2>1. CASE Keeps(x)
        BY <2>1 DEF Keeps
    <2>2. ASSUME NEW r \in Requests, NEW mode \in Modes, ~req[r].accepted, told[r] = <<>>, Admit(r, mode)
          PROVE  req[x].mode = "Stream"
        <3>1. \A y \in Requests \ {r} : req'[y] = req[y]
            BY <2>2, AdmissionIsNew
        <3>2. UNCHANGED told \/ told' = [told EXCEPT ![r] = Append(@, "Failed")]
            BY <2>2 DEF Admit, AttemptFails, Complete
        <3>3. Append(told[r], "Failed") = <<"Failed">>
            BY <2>2, FirstOf
        <3>4. <<"Failed">> # <<"Completed">> /\ <<>> # <<"Completed">>
            OBVIOUS
        <3>5. told'[r] # <<"Completed">>
            BY <2>2, <3>2, <3>3, <3>4 DEF Core, RestType
        <3> QED BY <3>1, <3>5
    <2> QED BY <2>1, <2>2, StepKeeps
<1> QED BY <1>1, <1>2, <1>3 DEF EndInv, AllEvents

\* A stream reported Completed delivered every event the provider sent, once and
\* in its order, and no data or overflow is left in the queue of a running stream
\* without a drain on its way: whatever the delegates call, wherever the chunks
\* and the status fall between the drains, and however often it was retried.
THEOREM StreamsComplete == Spec => []StreamsAreWhole
<1>1. Init => Core /\ TellInv /\ StreamInv /\ EndInv
    BY InitCore, InitStream DEF Init, TellInv
<1>2. Core /\ TellInv /\ StreamInv /\ EndInv /\ [Next]_vars
      => (Core /\ TellInv /\ StreamInv /\ EndInv)'
    BY NextCore, ContractStep, TellStep, StreamNext, EndStep
<1>3. Core /\ StreamInv /\ EndInv => StreamsAreWhole
    <2> SUFFICES ASSUME Core, StreamInv, EndInv PROVE StreamsAreWhole
        OBVIOUS
    <2>1. ASSUME NEW r \in active PROVE Queued(req[r])
        BY <2>1 DEF StreamInv, Streams, Whole, Core, RestType
    <2>2. QueuedDataIsDrained
        BY <2>1 DEF QueuedDataIsDrained, Queued
    <2>3. CompletedStreamsAreWhole
        BY DEF EndInv, CompletedStreamsAreWhole
    <2> QED BY <2>2, <2>3, CoreType DEF StreamsAreWhole
<1> QED BY <1>1, <1>2, <1>3, PTL DEF Spec

=============================================================================
