----------------------- MODULE OAuthBrowserAuthorization -----------------------
(***************************************************************************)
(* FUnrealAIOAuthAuthorizationKernel::AuthorizeBrowserPkce up to the code   *)
(* exchange, with the loopback browser: threads that authorize at once with *)
(* one redirect port, the browser tabs they open, which may call back at    *)
(* any time and again, and other programs that connect to the port.         *)
(***************************************************************************)
EXTENDS Naturals, Sequences

CONSTANTS Authorizations,
          States,                 \* what the random source yields; it may repeat
          MaxAcceptedConnections, \* per launch
          MaxReplayDigests        \* consumed states that are remembered

VARIABLES auth,     \* the thread of each authorization
          port,     \* who listens on the redirect port, or "free"
          tabs,     \* the authorizations whose URL a browser tab holds
          consumed  \* every state consumed since the caches were cleared, in order

vars == <<auth, port, tabs, consumed>>

\* over: its context is cancelled or timed out.  serving: whose request the
\* accepted connection carries.  callback: whose tab was believed.
Idle == [at |-> "new", over |-> FALSE, state |-> "none", accepted |-> 0,
         serving |-> "nobody", callback |-> "none", denied |-> FALSE, result |-> "none"]

Init ==
    /\ auth = [a \in Authorizations |-> Idle]
    /\ port = "free" /\ tabs = {} /\ consumed = <<>>

At(a, place) == auth[a].at = place

Goes(a, place) == auth' = [auth EXCEPT ![a].at = place]

\* Every return but the last: the listener closes with the frame that holds it.
Returns(a, result) ==
    /\ auth' = [auth EXCEPT ![a].at = "returned", ![a].result = result]
    /\ port' = IF port = a THEN "free" ELSE port
    /\ UNCHANGED <<tabs, consumed>>

\* ObserveContext, which every seam call is followed by.
Observes(a, Then) ==
    /\ auth[a].over => Returns(a, "ended")
    /\ ~auth[a].over => Then

Begin(a) ==
    /\ At(a, "new") /\ Goes(a, "discovering")
    /\ UNCHANGED <<port, tabs, consumed>>

\* Cancellation, or the deadline of the request.
Expire(a) ==
    /\ ~auth[a].over /\ ~At(a, "new") /\ ~At(a, "returned")
    /\ auth' = [auth EXCEPT ![a].over = TRUE]
    /\ UNCHANGED <<port, tabs, consumed>>

\* The discovery document is fetched and must be the trusted server's.
Discover(a) ==
    /\ At(a, "discovering")
    /\ Observes(a, \/ Returns(a, "failed")
                   \/ Goes(a, "generating") /\ UNCHANGED <<port, tabs, consumed>>)

\* State, nonce, verifier and challenge; the launch that carries them.
Generate(a) ==
    /\ At(a, "generating")
    /\ Observes(a, \/ Returns(a, "failed")
                   \/ /\ \E s \in States : auth' = [auth EXCEPT ![a].state = s, ![a].at = "listening"]
                      /\ UNCHANGED <<port, tabs, consumed>>)

-----------------------------------------------------------------------------
(* The loopback browser *)

Listen(a) ==
    /\ At(a, "listening")
    /\ Observes(a, IF port # "free" THEN Returns(a, "busy")
                   ELSE Goes(a, "launching") /\ port' = a /\ UNCHANGED <<tabs, consumed>>)

LaunchSystemBrowser(a) ==
    /\ At(a, "launching")
    /\ \/ Returns(a, "failed")
       \/ Goes(a, "accepting") /\ tabs' = tabs \cup {a} /\ UNCHANGED <<port, consumed>>

\* A connection: from a tab, from a program that closes it without a request
\* of this redirect, or from one that keeps it open and says nothing.
Accept(a) ==
    /\ At(a, "accepting") /\ ~auth[a].over
    /\ auth[a].accepted < MaxAcceptedConnections
    /\ \E who \in tabs \cup {"stranger", "silent"} :
          auth' = [auth EXCEPT ![a].accepted = @ + 1, ![a].serving = who, ![a].at = "reading"]
    /\ UNCHANGED <<port, tabs, consumed>>

\* The head of the accept loop otherwise: the context, then the bound.
StopAccepting(a) ==
    /\ At(a, "accepting")
    /\ auth[a].over \/ auth[a].accepted = MaxAcceptedConnections
    /\ Returns(a, IF auth[a].over THEN "ended" ELSE "unanswered")

PeerCloses(a) ==
    /\ At(a, "reading") /\ auth[a].serving = "silent"
    /\ auth' = [auth EXCEPT ![a].serving = "stranger"]
    /\ UNCHANGED <<port, tabs, consumed>>

\* Mutant: waits for the header whatever the context says.
ReadForever(a) ==
    /\ At(a, "reading") /\ auth[a].serving # "silent" /\ Goes(a, "parsing")
    /\ UNCHANGED <<port, tabs, consumed>>

ReadBoundedHeader(a) ==
    /\ At(a, "reading")
    /\ auth[a].over \/ auth[a].serving # "silent"
    /\ Observes(a, Goes(a, "parsing") /\ UNCHANGED <<port, tabs, consumed>>)

\* Mutant: the state is left to the kernel to compare.
AnyTab(a) == auth[a].serving # "stranger"

\* ParseLoopbackRequest and TryParseRequestTarget: path, parameters, issuer
\* and, above all, the state of this launch.
IsCallback(a) ==
    /\ auth[a].serving # "stranger"
    /\ auth[auth[a].serving].state = auth[a].state

\* A request that is no callback of this launch is answered 400 and dropped.
Parse(a) ==
    /\ At(a, "parsing")
    /\ IF ~IsCallback(a)
       THEN /\ auth' = [auth EXCEPT ![a].serving = "nobody", ![a].at = "accepting"]
            /\ UNCHANGED port
       ELSE /\ \E denied \in BOOLEAN :
                  auth' = [auth EXCEPT ![a].callback = auth[a].serving, ![a].serving = "nobody",
                                       ![a].denied = denied, ![a].at = "answered"]
            /\ port' = "free"
    /\ UNCHANGED <<tabs, consumed>>

-----------------------------------------------------------------------------
(* The kernel again *)

Remembered ==
    {consumed[i] : i \in {i \in DOMAIN consumed : i > Len(consumed) - MaxReplayDigests}}

CheckCallback(a) ==
    /\ At(a, "answered")
    /\ Observes(a, IF auth[auth[a].callback].state # auth[a].state THEN Returns(a, "invalid")
                   ELSE Goes(a, "consuming") /\ UNCHANGED <<port, tabs, consumed>>)

\* Mutant: looks and remembers in two critical sections.
ConsumeInTwoSteps(a) ==
    \/ /\ At(a, "consuming")
       /\ Observes(a, IF auth[a].state \in Remembered THEN Returns(a, "replayed")
                      ELSE Goes(a, "remembering") /\ UNCHANGED <<port, tabs, consumed>>)
    \/ /\ At(a, "remembering")
       /\ Goes(a, "consumed") /\ consumed' = Append(consumed, auth[a].state)
       /\ UNCHANGED <<port, tabs>>

MarkCallbackStateConsumed(a) ==
    /\ At(a, "consuming")
    /\ Observes(a, IF auth[a].state \in Remembered THEN Returns(a, "replayed")
                   ELSE /\ Goes(a, "consumed") /\ consumed' = Append(consumed, auth[a].state)
                        /\ UNCHANGED <<port, tabs>>)

\* The issuer gives tokens for a code whose verifier this is.
ExchangeAuthorizationCode(a) ==
    /\ At(a, "consumed")
    /\ IF auth[a].denied THEN Returns(a, "failed")
       ELSE Observes(a, \/ Returns(a, "failed")
                        \/ auth[a].callback = a /\ Returns(a, "granted"))

ClearCaches ==
    /\ consumed # <<>> /\ consumed' = <<>>
    /\ UNCHANGED <<auth, port, tabs>>

-----------------------------------------------------------------------------
Step(a) ==
    \/ Discover(a) \/ Generate(a) \/ Listen(a) \/ LaunchSystemBrowser(a) \/ StopAccepting(a)
    \/ ReadBoundedHeader(a) \/ Parse(a) \/ CheckCallback(a) \/ MarkCallbackStateConsumed(a)
    \/ ExchangeAuthorizationCode(a)

Next ==
    \/ \E a \in Authorizations : Begin(a) \/ Expire(a) \/ Accept(a) \/ PeerCloses(a) \/ Step(a)
    \/ ClearCaches

Spec == Init /\ [][Next]_vars

\* The thread runs on, and deadlines pass; nobody need connect to the port.
Fairness == \A a \in Authorizations : WF_vars(Step(a)) /\ WF_vars(Expire(a))

-----------------------------------------------------------------------------
(* Properties *)

\* A tab of another sign-in, still open and calling back on the shared port, is
\* turned away at the listener: the kernel's own check of the state never fails, and
\* a sign-in finds its state consumed only if the random source gave it to another
\* one too, so that no tab spends a state that is not its own.  (Each such call
\* costs a connection, and MaxAcceptedConnections of them end a sign-in unanswered.)
OtherTabsAreTurnedAway ==
    \A a \in Authorizations :
        /\ auth[a].result # "invalid"
        /\ auth[a].result = "replayed" =>
              \E b \in Authorizations \ {a} : auth[b].state = auth[a].state

\* A state is not exchanged again before MaxReplayDigests others were, also
\* when two threads hold it at once.
NoStateIsReplayed ==
    \A i, j \in DOMAIN consumed :
        i < j /\ consumed[i] = consumed[j] => j - i > MaxReplayDigests

\* Every authorization returns, though a program connects to the port and
\* never says anything.
Underway(a) == At(a, "discovering")
Over(a) == At(a, "returned")
AuthorizationsReturn == \A a \in Authorizations : Underway(a) ~> Over(a)

=============================================================================
