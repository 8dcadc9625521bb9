# UnrealAI in TLA+

Specifications of the concurrent core of the UnrealAI plugin: how it obtains,
refreshes and revokes the credentials of a model provider, how it signs
accounts in and out, and how it executes model requests and decodes what the
providers stream back. Paths below are relative to `src/`; `Private/` paths are
those of the module named with them. `PROJECT.json` maps every definition that
models code to its lines.

## 1. The system

UnrealAI is an Unreal Engine plugin for calling language models. It has three
layers.

* **UnrealAIAccess** (`Source/UnrealAIAccess`): value types and primitives.
  Accounts, connections and endpoint profiles, credential leases with a
  freshness source, cancellation tokens, terminal guards, a circuit breaker,
  the contract of a secret store.
* **UnrealAI** (`Source/UnrealAI`, with `Source/UnrealAITransport`): executes
  model requests, parses server-sent events, speaks the providers' protocols.
* **UnrealAIAuth** (`Source/Addons/UnrealAIAuth`, with an experimental add-on):
  OAuth and API-key providers and brokers over platform secret stores.

A request obtains a *lease* from a credential *broker*, dispatches it to a
transport, and hears stream events and one terminal callback. A broker keeps
one stored envelope per account and refreshes it. An *account provider* creates
that envelope by a sign-in, removes it by a sign-out, and quarantines the broker
while the two disagree.

### Components

| Component | State it keeps | Operations | What makes it correct |
|---|---|---|---|
| Refresh coordinator (`UnrealAICredentialRefreshCoordinator.cpp`) | live flight and generation per account, next flight id, shutdown | BeginOrJoin, Complete, Invalidate, BeginShutdown | one leader per flight; a ticket of an ended flight settles nothing, also when ids run out; the joiner bound is real |
| Credential broker (`UnrealAIOAuthCredentialBroker.cpp`) | bindings with epoch, quarantine and force flag; freshness sources; flights; active and physical operations; result guards | Resolve (run and monitor thread), Cancel, Invalidate\* , ForceRefresh, Quarantine, NotifyCredentialReplaced, BeginShutdown | exactly one result; one refresh at a time; no lost follower; no stale commit; no lease outlives its binding; slots returned |
| Freshness and leases (`UnrealAIProviderAccess.cpp`) | generation, revocation request, dispatch permits, one-shot claim | Invalidate, BeginShutdown, TryDispatch | no dispatch after a revocation returned; one dispatch per context |
| API-key broker and provisioner | leases, active and physical operations, revision epoch; one stored key | Resolve, Provision, Delete, Quarantine, BeginShutdown | a lease in hand holds the stored key; none survives a quarantine; tables hold what they count |
| Device account provider (`UnrealAIDeviceOAuthAccountProvider.cpp`) | status, session epoch, local quarantine, operations, pending events, one stored record | StartSignIn, StartSignOut, Cancel, StartStoredSessionRecovery, SetCredentialBroker, BeginShutdown | status tells the truth about the store; an unclaimed grant is removed or fenced; events in order |
| Device drivers (experimental add-on) | the exchange under way, polls, deadlines | Authorize, Refresh | what is reported is what the issuer or the clock said; no request outlives the call |
| Browser account provider | as the device provider, with a bounded cleanup and a restore | SignIn, SignOut, Recover, Cancel, BeginShutdown | ready means a record of one's own; a sign-out is final; an abandoned grant is fenced |
| Durable transaction (`UnrealAIOAuthDurableAccountTransaction.cpp`) | a fence per account (generation, count) | Begin, store, reconcile, compensate, revoke, End | an authorization superseded by a newer one stores nothing; a failed one leaves nothing |
| Authorization coordinator | active operations, physical ids | Authorize, PumpDeadlines, Cancel, BeginShutdown | one terminal; an unfinished operation is reachable; executor threads are bounded |
| Authorization kernel, loopback browser | one-use states, a replay cache, a listening socket, a key cache | AuthorizeBrowserPkce, accept, verify an identity token | a callback is consumed once and only by its own sign-in; a published key is accepted, a withdrawn one forgotten |
| Execution service (`UnrealAIExecutionService.cpp`, `UnrealAIStreamChunkQueue.h`) | active requests, retry and deadline tickers, chunk queue shared with the HTTP thread, physical attempts | SendChatRequest, StreamChatRequest, CancelRequest, Shutdown, SetLimits, HTTP callbacks, PumpDeadlines | events in order and once, exactly one terminal callback, no replay, no lost wake-up, limits count transports |
| Native SSE provider (`UnrealAINativeSseModelProvider.cpp`) | admission slots, budget permits, leases, an event queue per operation | Start, transport events, Tick, Cancel, BeginShutdown | a sink hears one stream and one end; a refused start gave everything back |
| HTTP transports (macOS) | a request's ownership between delegate queue, deadline and cancellation | StartRequest, Cancel, delegate callbacks, PumpDeadlines, BeginShutdown | one completion, told when the native session is gone; what runs is counted |
| Circuit breaker (`UnrealAIProviderReliability.cpp`) | state, generation, failures and probes per partition | TryAcquire, Complete, Reset | a stale permit changes nothing; probes are bounded |
| Cancellation, guard, budget (`Runtime/`) | flags with a reason, parent links; terminal kind; permits | RequestCancellation, TryComplete, TryAcquire, Release | a cancellation reaches every token below it; one terminal |
| Secret stores (memory, macOS keychain, platform) | record and revision per handle | Load, Store, Delete by compare-and-swap | an old revision never replaces a newer record |
| Provider protocols (Responses, Chat Completions, Anthropic Messages, Gemini Interactions) | items open in the streamed response, text and arguments so far, a continuation | ProcessEvent, Complete | items open once, close once, in order; what is reported was streamed |
| Response API (`UnrealAIResponse*.cpp`) | one output of items, its events, the history of a conversation | BuildRequest, ProcessFrame, Complete, append to history | the items, the events and the next request agree |
| Chat component, client, async actions | handles of requests the owner has running | Send, Stream, Cancel, owner destroyed | no callback after the owner ended the request |
| Registries, catalogs | maps under a lock | Register, Unregister, Find | registries that must agree do |

How they interact: the execution service calls application delegates on the
game thread, and these may call it again from within; the HTTP module calls it
from its own thread. The native provider is entered by the transport's delegate
queue, a deadline ticker, a pool thread and its caller at once. The broker and
the account providers each start two threads per operation, meet at one mutex
and at a compare-and-swap guard, and call out to store, provider and sink
without the mutex. A provider tells the broker of quarantine and of replaced
credentials; each of these calls cancels the broker's operations. Broker and
provider write the same record, held together only by revisions.

What is hard here: calls out of a lock whose result is used under a later lock;
several threads that may end one operation; physical work that goes on after the
logical answer; re-entrant delegates; a store whose answer is lost; revisions
that restart after a delete; a shutdown between any two of these steps; wire
events in an order nobody expected. The list with lines is `hazards` in
`PROJECT.json`.

## 2. The modules

| Module | Models | Checked by | Proved in |
|---|---|---|---|
| `CredentialRefreshCoordinator` | the coordinator | `access_units` | `CredentialRefreshCoordinatorProofs` |
| `CredentialAccess` | freshness source, tokens, access contexts | `access_units` | |
| `ModelEventStream` | what any decoder promises the application | | |
| `OpenAIResponsesProtocol`, `OpenAICompatibleChatProtocol`, `AnthropicMessagesProtocol`, `GeminiInteractionsProtocol`, streams in `ProtocolsMC` | the stream decoders | `access_units` | |
| `ResponseStream` | the Response API's adapter, history included | `access_units` | |
| `OAuthCredentialBroker`, topologies in `OAuthCredentialBrokerMC` | the broker, its store and its issuer | `broker_*` | `OAuthCredentialBrokerProofs` |
| `ApiKeyCredentials` | the API-key broker and provisioner over one store | `broker_units` | `ApiKeyCredentialsProofs` |
| `OidcKeyCache` | verification of identity tokens and the key cache | `broker_units` | |
| `MacUrlSessionTransport` | the HTTPS transport of model requests | `broker_units`, `runtime_live` | |
| `ExecutionContract` | what the execution service promises a caller | `runtime_live` | `ExecutionServiceProofs` (safety) |
| `ExecutionService`, instances in `ExecutionServiceMC` | the execution service, the HTTP thread, the game thread | `runtime_*`, `execution_order` | `ExecutionServiceProofs` |
| `ProviderReliability` | the circuit registry and its permits | `runtime_safety` | `ProviderReliabilityProofs` |
| `Cancellation` | a tree of cancellation states and queries on it | `runtime_safety` | |
| `MemorySecretStore` | the in-memory store under concurrent clients | `account_units` | |
| `KeychainSecretStore` | one Keychain record, its writers in several processes | `account_units` | `KeychainSecretStoreProofs` |
| `NativeSseModelProvider` | admission and the life of one streamed operation | `runtime_*` | |
| `OAuthAuthorizationCoordinator` | authorization and revocation operations | `runtime_*` | `OAuthAuthorizationCoordinatorProofs` |
| `OAuthBrowserAuthorization` | AuthorizeBrowserPkce, the loopback listener, tabs | `runtime_live` | |
| `MacOAuthHttpTransport`, above it `OpenAIDeviceOAuthDriver` and `XAIDeviceOAuthDriver` | the OAuth transport and the two device drivers | `runtime_live`, `account_units` | |
| `DeviceOAuthAccountProvider`, operations in `DeviceOAuthAccountProviderMC` | the device provider, with a view of broker and store | `account_units` | `DeviceOAuthAccountProviderProofs` |
| `OAuthDurableAccountTransaction` | fences, lost answers, compensation | `account_units` | |
| `BrowserOAuthAccountProvider` | the browser provider, over the transaction's outcomes | `account_units` | |

`UnitsMC`, `BrokerUnitsMC`, `RuntimeUnitsMC` and `AccountUnitsMC` host components
that share no state: a variable `unit`, fixed from the start, names the one that runs, and the variables of the others rest at their initial value.
The state space is the disjoint union of the units', so a hosted property is
checked over its component exactly as in a run of its own; where a property is
written `unit = "x" => ...`, the other units' behaviours do not concern it. A
component may appear as several units: the same module with different constants,
each small in another dimension. A hosted property is stated in the component's
own module and only named in the host.

Operators that end in a bug's description (`InvalidateKeepsFlight`,
`MonitorIgnoresDeadline`, ...) are alternatives to the definition after them,
used to confirm that each property notices a plausible mistake; no specification
refers to them. `PROJECT.json` pairs them with properties under `mutants`.

### CredentialRefreshCoordinator

One action per public call; each takes the mutex for its whole body, so a call
is one step. A caller keeps the ticket it got. Word-sized counters have
`MaxWord` as their largest value and wrap to zero, which the code reads as
exhausted. `retired` is history: callers whose ticket's flight ended.

### CredentialAccess

A step is one atomic access or a stretch under one lock. A dispatch holds the
read lock; `Invalidate` and `BeginShutdown` only try the write lock, and leave a
request to the reader that leaves last. The clock is external: a lease may be
found expired whenever it is looked at. `quiet` is history: the generations whose
revocation was answered true.

### OAuthCredentialBroker

`pc` is the run thread of a resolve, one value per place where it is between two
sections of the mutex, two store calls, or inside the provider. `Publish` is
three steps, as in the code: win the guard, leave the table, enqueue the result;
the thread that won is `publisher` and the place `stage`. A bulk call
(`InvalidateAccounts` and its callers, `BeginShutdown`) changes the tables in one
section and then cancels the operations it collected one by one (`collected`).
`NotifyCredentialReplaced` is verified and published in two sections
(`VerifyReplacement`, `PublishReplacement`).

Abstractions. An envelope is its revision, the grant it descends from, its
refresh-token generation and whether it is near expiry. The issuer accepts one
refresh-token generation per account, the newest, and rotates it on each
refresh: a refresh may succeed, fail, or lose its answer after the rotation.
`ObserveLogicalTerminal() || !IsSnapshotCurrent()` reads two things in a row and
does the same whichever of them is bad; the two reads are alternatives of a
step. An encode failure is one of the ways a commit fails. The checks that a
connection alias fits the account are static and left out. A freshness source is
revoked at once; that a dispatch in progress delays the revocation belongs to
`CredentialAccess`. A cancellation token is a flag with a reason: the first of
caller, parent or deadline to arrive is kept; the tree of states behind it is
`Cancellation`. A record deleted and stored again within one refresh could meet
its compare-and-swap at the restarted revision; in the code a quarantine cancels
that refresh (see `SignedInGrantIsStored`, section 4), and `broker_replace`, which
has no quarantine, has no delete.

### ApiKeyCredentials and OidcKeyCache

The first is one key: the broker's resolves, the provisioner's stores and
deletes, and one store between them, with lost answers. Revisions are abstracted
to key values, and exhaustion of the epoch is the shutdown the code makes of it
(so that a later `BeginShutdown` returns at once). The second is the kernel's
verification: the issuer rotates and withdraws keys while threads fetch the set.

### The transports

`MacUrlSessionTransport` splits admission as the code does: reserve, prepare the
native objects, commit, activate. A shutdown, a deadline or the session's end may
fall between any two of these; whoever ends an operation closes its session, and
its sink hears when the session is gone. A callback that finds its operation
unbound or settled changes nothing. A session that is abandoned, never resumed,
is not counted once its identifier is released. `Finish`'s branch for an operation
without session cannot be reached by an admitted one.

`MacOAuthHttpTransport` is the simpler one of the OAuth calls. `Finish` is four
steps: win the guard, queue the completion, close the session, leave the table.
Places for requests are reused once free, since identifiers are fresh.

### The execution layers

`ExecutionService`: the game thread is a stack of suspended calls. The top frame
runs; a `delegate` frame is the application, which may start, cancel, shut down
or change limits before it returns. The HTTP thread appends chunks under the
queue's mutex and schedules a drain; a drain is in turn a posted task. Deadline
tickers have identities, because the service holds a handle to one while the core
ticker may be calling another. A provider stream is the numbers
`1 .. StreamLength`, the last one being the protocol's terminal event; one event
is one server-sent event frame, and a chunk carries one or two events, the last
possibly unfinished. Byte limits appear as the bound of the queue or as a failure
the parser may report. Which statuses are retryable and how long a retry waits are
left open. `CancelRequest` of the HTTP module is asynchronous: a cancelled
transport completes later.

`ExecutionContract` is the caller's view: a call that cannot run fails at once, a
request that runs is heard from only while it runs, ends with one terminal
callback, and a shutdown ends it silently; every request ends. It leaves the
order of events open, because the code does not keep it when a delegate cancels
(section 4); what was reported complete is whole and in order, which
`StreamsAreWhole` states. `RefinesContract` is the refinement, with
`running <- active` and the two histories mapped by name.

`NativeSseModelProvider`: `stage` is the thread that starts an operation, `op`
the operation, `transport` what the HTTPS transport does with it, `pending` the
events queued to the pool thread. A step is one critical section with the one-shot
notifications it leads to. The budget and the terminal guard of
`Runtime/` are inlined here, where their users are.

`ProviderReliability`, `Cancellation`: one action per call of the first, whose calls
hold the mutex throughout; one action per atomic load of the second, since a token
reads its chain without a lock.

### The secret stores

`MemorySecretStore`: check, copy and decision are separate steps of a call, the last
one under the lock. `KeychainSecretStore` is one record of the platform's and its
users in several processes: the mutex orders the writers of one process, the query
of an update or delete names the revision it expects, and the context is checked
before and after the platform's call but not undone. A platform call is one step,
as the Keychain makes it. A process may end at any point and keeps nothing.

### The decoders

Each decoder's handler runs to its end or to the first failure, so it is an
operator on the decoder's record that stops at a terminal one; the wire is
whatever sequence of events the instance offers. Shapes, byte budgets and
sequence numbers that do not fit are one event, `Malformed`, because the code
fails the stream on each of them alike. Text and arguments are sequences of
pieces. `ModelEventStream` is the abstract stream: one terminal, last; calls
numbered, opened and closed in order; arguments whole. All four decoders
implement it (`RefinesStream`), the chat decoder through the bridge into the
Responses decoder, as the code composes them.

`ResponseStream` is the other consumer, the Response API: it builds the request
from the conversation, folds four dialects' frames into items and events, and
makes the history of the next request. Assumed of a provider: an item keeps its
kind, lifecycle frames precede the items, an Anthropic block starts once. Not in
it: an "incomplete" status of a native block, usage, provider identifiers and
the request's other fields.

### Authorization

`OAuthAuthorizationCoordinator`: a run thread inside a blocking executor and a
monitor thread per operation; `PumpDeadlines`, `Cancel` and the shutdown come from
others, each a worker of its own, and whoever wins the terminal calls the sink. `OAuthBrowserAuthorization`:
threads that authorize at once with one redirect port, the tabs they open, which
may call back at any time and again, and programs that connect and never speak;
a state may be drawn twice, so that the replay cache matters. A tab of another sign-in is
turned away, but costs one of `MaxAcceptedConnections`: enough of them end a sign-in unanswered.
`OpenAIDeviceOAuthDriver`: one call of `Authorize` or `Refresh`, whose exchanges run
over the transport's own steps; time is two flags, the exchange's deadline and the
authorization's, and a body can be read or not. `XAIDeviceOAuthDriver` is the other
one: each call reads the issuer's discovery document first, the poll brings the
tokens, and the status of an answer stands for all it says, a narrower scope included; a 403
refuses a sign-in, but tells a refresh that a policy denies the account its use.

### The account providers

`DeviceOAuthAccountProvider`: run threads, `stage` and `publisher` as in the
broker. The record of the store is its revision and the operation whose grant it
descends from. The broker is seen from outside: it is quarantined or not, and a
refresh that loaded the record may still commit. Quarantine, invalidation and
replacement drop that refresh, because they cancel the broker's operations
and both stores check cancellation again under their mutation lock. Store calls
may fail, and a store may be applied with its answer lost. The driver authorizes
or does not. A call that builds an operation context fails the way the call it
is for fails. `GetStatus` merges its two reads. `SetCredentialBroker` comes
before the first operation or recovery, as the composition root does it. `Cancel`
is split into the signal and the publication of the terminal, which any thread
that observes the signal may do.

`OAuthDurableAccountTransaction` has the steps of a browser sign-in's commit:
fence, authorize, store with a lost answer, read back, compensate, revoke; the
broker may rotate a stored grant and a sign-out may delete it meanwhile.
`BrowserOAuthAccountProvider` sees the transaction as its outcome and has the
provider's threads above it: sign-ins, sign-outs, the recovery of a stored session,
each with a monitor. Assumed there: the time limit of a cleanup passes only while
another thread is inside a call to transaction, store or issuer (`Overdue`), since a
thread stalled without calling anything could otherwise lift the quarantine after a
timed-out sign-out, which nobody restores (a shutdown ends the wait at once); a recovery starts before any operation;
`BeginShutdown` makes its calls out of the lock at once. A record left "uncertain"
(`AuthPersistenceFailed`) is exempt from the properties, as the code says so to its
caller. `SetRecoveryFailureIfCurrent` is left out.

## 3. The runs

Deadlock is not checked: each model ends when its finite set of requests,
callers or operations has been used up, which is a legal end. States are distinct
states; a host's are the sum over its units.

| Run | Units and bounds | Properties |
|---|---|---|
| `access_units` (`UnitsMC`; 1.17 M) | coordinator: 3 callers, 3 keys with room for 2, 2 joiners, words of two bits. access: one credentialed and one anonymous context, 2 dispatchers, 2 administrators of which one dispatches too. protocols: 4 to 7 wire events, 2 items or calls. responses: four dialects, 3 to 5 frames, 2 items, arguments of 2 letters, 2 turns | `TypeOK`, `StaleTicketNeverCurrent`, `OneLiveLeader` of the coordinator; `CredentialUseIsBounded`, `RevokedIsNeverGranted`; `RefinesStream`, `AnswersAreWhole`, `ContinuationsHoldTheCalls`; `ResponsesAreWhole` |
| `broker_interrupt` (1.05 M) | 2 resolves of one account, one interrupted; deadline, parent, Cancel, shutdown | `TypeOK`, `ResolvesAreAnsweredOnce`, `LateRefreshNeverCommits` |
| `broker_invalidate` (1.12 M) | 2 resolves of one connection; invalidation of account, connection and profile, force, quarantine | `LiveLeaseIsCurrent` |
| `broker_replace` (1.68 M) | 2 resolves; login, damage, clock, lost answers, store faults | `CommitNeverOverwritesNewerGrant` |
| `broker_live` (186 000) | 2 resolves; deadlines, a deleted record | `AdmittedEnds` |
| `broker_units` (`BrokerUnitsMC`; 1.75 M) | broker: 3 resolves, two with one identifier, capacity 2, quarantine. API keys: 2 resolves and a quarantine with two identifiers and with one, a resolve and a change of the key. key cache: 2 verifications of an issuer that reuses its key identifier, 1 of one that does not. network: 2 requests for one slot, and 2 of one identifier | `SingleFlightRefresh`, `FollowersAreNotStranded`, `PhysicalTableIsExact`; `KeyLeasesAreCurrent`; `CachedKeysAreCurrent`; `NetworkRequestsAreAccounted` |
| `runtime_live` (`RuntimeUnitsMC`; 288 000) | execution: 1 request, 3 events, queue of 2, 1 retry. One native stream with 2 transport events, one authorization, two browser sign-ins with 2 states and 2 connections each, one network request, one device sign-in or refresh with one poll | `RefinesContract`, `PhysicallySettles`, `StreamsAreWhole`; `SinksGetOneStream`; `AnswersAreGenuine`; `WorkEnds` |
| `runtime_safety` (`RuntimeUnitsMC`; 2.15 M) | execution: 2 streams of 1 event, limits 1 and 2, 2 tickers. circuit: two policies, 2 permits, time 3. tokens: 3 states. 2 native streams with two identifiers and with one; 2 authorizations likewise | `TransportsAreAccounted`; `ProbesAreOutstanding`, `JudgedByItsOwnRequests`; `CancellationReachesEveryToken`; `StartsAreCounted`; `AuthorizationsAreAccounted` |
| `account_units` (`AccountUnitsMC`; 1.84 M) | device: 2 operations, 1 interrupted, store faults, broker refreshes, shutdown; and with a recovery. transaction: 2 sign-ins, one with faults, and a sign-out; 3 sign-ins; 2 accounts for one fence. browser: 2 sign-ins and a sign-out; 2 sign-ins, or one and a sign-out, with one stopped; one of each with faults and a recovery. memory store: 2 clients, 2 handles, room for 1. Keychain: 2 threads of one process, and 2 processes; 3 writes. driver: one call of the xAI driver, every status | `AccountIsTrue`, `GrantsAreFenced`, `EventsInOrder`; `FailedSignInsLeaveNothing`, `FencedSignInsTouchNothing`; `BrowserAccountIsTrue`; `ServicesAnswerTruly` |
| `broker_refresh_twice`, `broker_forced`, `execution_order` | as small as the disagreement allows | section 4 |

Several properties are conjunctions of named parts that one host states together;
the parts, with what each is about, are in the components' modules
(`GrantsAreFenced` is `UnclaimedGrantIsFenced` and `SignOutKeepsBrokerFenced`;
`ServicesAnswerTruly` is two of each store's and three of the driver's).

Why the bounds suffice. The races are between the two threads of one resolve,
between two resolves of an account, and between these and an outside call; two
resolves show them all, and the third in `broker_units` is there to reuse an
identifier while the first one's thread runs. Epochs and revisions stop at 2,
one change after the start: the code compares them for equality only. The
coordinator's three keys exceed its capacity, its words wrap in three steps. Three
events are the fewest that let a drain be suspended with one event before it and
one after; the second request of `runtime_safety` is the one a delegate starts
while the first is still on the stack. Two device operations are an old and a
new one; `MaxInterrupts = 1` ends one of them early, or shuts the provider down,
and a sign-out already ends the other. Two items, two calls and two turns are the
fewest with an order, an overlap, a repetition and a history. Where two operations
compete (identifiers, slots, fences, states), one unit gives them different
identifiers with room for one, another the same identifier with room for both. Two
circuits, one that opens at once and probes twice and one that opens at the
second failure and probes once, have every transition between counters. Model
values of operations are permuted only in runs whose properties are safety
properties, together with their identifiers.

### Fairness

All weak fairness: each of these stays enabled until it happens. In a host each
is confined to its unit, over that unit's variables.

`broker_live`: the monitor threads, the delivery of a result already won, and
the clock. Run threads, the store and the provider get none in
`AdmittedDelivers`: its point is that the caller hears even if they never
return, which the code's second thread per operation is for. `SlotsAreReturned`
is an implication that adds the fairness of run threads and of the calls they
make; without it a slot is legitimately held by a call that hangs.

`runtime_live`, by unit:

* execution: the game thread runs its posted tasks, core tickers tick, time passes,
  and a transport that was *cancelled* completes. A transport left alone may be
  silent forever; the deadline ends its request and cancels it.
* stream: the threads that start, drain, settle and cancel go on, the deadline
  passes and is polled, and a cancelled transport reports it.
* session: the clock, the monitor and the publications. The executor gets none: an
  authorization completes although it hangs.
* browser: the sign-in's thread and its deadline. Nobody need connect, and who
  connects need not speak.
* network: the starting thread, the end of an operation, the delegate queue, the
  monitor, the deadline, and the callback of an invalidated session, which
  NSURLSession guarantees. Its responses get none.
* driver: the driver's thread, the deadline of an exchange, and the steps of a
  `Finish` that began. The issuer gets none.

`WorkEnds` puts the units' promises into two leads-to formulas, the first of which
is, by unit, what its component's own module states alone (`CallReturns`,
`AdmittedSettles`, ...): only one unit runs, and the checker's work grows with the
number of formulas.

## 4. Where code and documentation disagree

Checked, each by a run that finds it violated:

* `RefreshOncePerEnvelope` (`UnrealAIOAuthCredentialBroker.h:58-59`). A resolve that
  loaded the envelope, and reached `AcquireRefreshFlight` only after another
  resolve's flight was stored and removed, leads a second flight with the replaced
  refresh token.
* `ForcedResolveRefreshes` (`UnrealAIOAuthCredentialBroker.h:104`). A resolve admitted
  after `ForceRefreshAccount` joins a flight that had already committed, and
  succeeds without a refresh after the force.
* `DeliveredInOrder` (`Documentation/README.md:186`). `CancelRequest` inside an
  event delegate drains again, beneath the suspended drain: event 3 follows 1,
  and 2 is dropped.

Met while modelling, without a run of their own:

* Device provider: a monitor or Cancel thread that won the terminal of an older
  operation may call `OnOperationTerminal` after a newer sign-in succeeded, and
  overwrite `Ready`, because that function compares no epoch (`:1196-1214`,
  against `UnrealAIDeviceOAuthAccountProvider.h:54`).
* Durable transaction: `ReconcileAttemptedStore` reads its exact record, then deletes
  by revision. If that record was deleted and a newer sign-in's stored at the same
  restarted revision between the two, the newer grant is deleted. `outrun` marks
  these executions and `FencedSignInsTouchNothing` exempts them.
* Access contexts: of two concurrent `Invalidate` calls the second may answer false,
  and the first may then clear the revocation request that answer relied on.
* Cancellation: a child's own later reason hides its parent's earlier one from
  `GetReason`.
* Response API: a text delta is accepted for a tool item; a snapshot may extend an
  item that was completed, which a delta may not; frames after the terminal one
  reopen items (`late`).
* Kernel: a sign-in that ends between the code exchange and the verification drops
  its tokens without revoking them.
* OpenAI driver: an authorization whose deadline passes between the approval and
  the exchange of its code reports a failure that must not be retried rather than a
  timeout; a cancellation seen first by the transport is a retryable failure, a
  shutdown of the transport a cancellation; and, since the completion is queued
  before the request leaves the table, a transport with a limit of one may refuse
  the next exchange of a driver that is alone. Where the issuer redeems a code and
  its answer is lost, nobody has the grant.

One suspicion turned out unfounded. Revisions restart at one after a delete, so a
refresh that loaded revision 1 before a sign-out could pass the compare-and-swap
against a new sign-in's revision 1. It cannot, since the quarantine of the sign-out
cancels it; `SignedInGrantIsStored`, a part of `AccountIsTrue`, fails, 27
steps deep, when `QuarantineBroker` leaves `brokerCommit` as it is.

## 5. What is proved

12324 obligations; each theorem holds for every value of the constants that meets
the modules' named assumptions: topologies are functions between the declared sets, bounds
are naturals, `NoOp` is no operation. A run checks each theorem's property by name:
the coordinator's in `access_units`; the broker's type, answers and late refreshes
in `broker_interrupt`, its flights and slots in `broker_units`, its leases in
`broker_invalidate`, its commits in `broker_replace`; the execution service's
transports in `runtime_safety`, its streams and the refinement in `runtime_live`;
the device provider's in `account_units`.

**Coordinator** (`CredentialRefreshCoordinatorProofs`): `TypeCorrect`,
`StaleTicketsStayStale`, `SingleLeader`. The properties are not inductive: that a
retired ticket's identifier is not the live one's says nothing about the next
identifier. `IInv` adds that all identifiers handed out lie below the next
(below `MaxWord + 1` after the wrap), that a shut-down coordinator has no flight,
that a ticket has an identifier, and that a leader is alone with its identifier.

**Broker** (`OAuthCredentialBrokerProofs`): `TypeCorrect`, by named groups of
`TypeOK`, one lemma per action. Flights, in the same module: `SingleFlight`
and `NoFollowerIsStranded` from `FlightInv`: an operation leads from
acquisition to completion; the table holds the leader unless a shutdown emptied
it; a pending flight has a leader; a follower's flight exists. Two refreshes of
one account would be two leaders, of which the table, or after a shutdown the
refusal to lead, admits one. Leases: `LiveLeases` from
`SourceInv` and `ProgressInv`: a source that left the table is revoked; one that
is still in it vouches for the epochs of every snapshot holding it; a
resolve that succeeded holds one. Then the ends, each from an invariant of its own over
the ones before:

* `OneAnswer` from `AnswerInv`: whoever ends a resolve moves its terminal kind and
  its delivery together, and a thread leaves only an answered one.
* `SlotsAreExact` from `SlotInv`, which adds that the table is finite, as a
  cardinality needs.
* `LateRefreshes` from `LateInv`: a refresh that came back late belongs to a
  resolve that has observed its end, or whose source is revoked. Neither can be undone;
  `CurrentIsNotRevoked` says the check before the commit sees exactly that.
* `CommitsReplaceTheirGrant` from `GrantInv`: a loaded envelope is a revision the
  record has had, and at an equal revision the record is the loaded grant. It
  assumes `NoSecondLife`: that the instance does not both delete a record and store
  a new one outside the broker (`AdminCalls`). Revisions restart after a deletion,
  so a refresh that slept through a deletion and a login would find its revision again.
  The broker alone cannot tell; in the code the account
  providers quarantine the binding on a deletion, which cancels such a refresh
  (`LateRefreshes`). Without the assumption the theorem is false.

**Execution service** (`ExecutionServiceProofs`). The stack is read from the bottom
(`At`), where a suspended call keeps its place while others come and go above it.
`Core` is the type invariant with what every other argument needs: a completion
of the transport is the outermost call and what follows its drain is next; a request's
physical count is that of its open or settling attempt; a retry waits only without
one; whoever runs and has an open transport can reach it. `Keeps` says what any step
but an admission leaves of a request.

* `Accounted`, the three parts of `TransportsAreAccounted`: from `CapacityInv`, that the requests
  still holding a slot are finitely many and at most the limit; from `TickerInv`, that the handle names a
  registered ticker and is valid while anything runs; from `AbandonInv`.
* `RefinesTheContract`, the refinement's safety: `Core` and `TellInv` (a running
  request has not been told its end) make every step one of `ExecutionContract`,
  or a stutter (`ContractStep`).

**Streams** (the same module): `StreamsComplete`. `StreamInv` follows
the stream through everything that may hold a part of it: what the caller has heard, the
events the parser has cut off, the event it holds back, the chunks a drain took and the
chunks still queued are consecutive stretches (`Way`), up to the last event the provider
sent. It has to say where that may fail, too: in a request that waits for its retry,
that overflowed or answered with an error, and below a cancellation, whose
drain may overtake the one it interrupted (`Flows`); and that none of those can still end in a
completion (`Judged`). `Queued` is the wake-up half: the flag is set only with a
drain posted or about to be. `EndInv` is then the verdict: only a stream that reached its last event, and so by
`Way` all of them, is told `Completed`.

**Circuit** (`ProviderReliabilityProofs`): `NoProbeIsStranded` (`ProbesAreOutstanding`) and
`OnlyItsOwnRequests` (`JudgedByItsOwnRequests`), both from `CircuitInv`: identities and
generations are handed out once, so a permit that matches an entry's
identity and generation was given out by this circuit, in the state the entry is still in (its
date, `since`), and every other permit in an earlier one: its report changes nothing.
The hypothesis is `CircuitAssumption`: finitely many permits, policies of naturals, a
bounded clock. `runtime_safety` checks both properties through `RuntimeUnitsMC`'s
instance of the module.

**Device account** (`DeviceOAuthAccountProviderProofs`): `AccountTold`, `GrantsFenced` and
`EventsOrdered`, from one invariant, `IInv`. The properties speak of records and quarantines,
the steps of threads; `IInv` says what every place of a thread promises:

* `ThreadsFit`: one run thread at a time, the newest operation's, and none beside a recovery.
  Without it an older clean-up could undo what a newer sign-in stored.
* `GuardFits`: a terminal is published by one thread, and `Succeeded` only by the run thread,
  last of all.
* `RecordsFit`: what the broker still has to commit replaces the record or an older one; or
  the provider is shut down, the record gone, and nobody left to store another.
* `GrantsFit`: the operation's grant is not in the store before its write, is there from the
  write to the claim, and a sign-in that ended without success leaves it fenced on both sides.
* `BrokerFenced`, `StatusFits`: where the broker's quarantine and the local one stand, and
  what the status, the recovery's verdict and a sign-out about to be confirmed need of the store.
* `EventsFit`: what is queued for a sink continues what it has heard, an instruction, if
  any, and a terminal, and has somebody to drain it.

Most steps of a run thread only move on: one lemma over such `Quiet` steps keeps all of it for
them, and the steps that write the record, claim a terminal or move a quarantine have a lemma each.
`EventsOrdered` is an action property: from `EventsFit` at every step that delivers. The only
hypothesis is `OpsAssumption`: an operation is not one of the words a record's grant can be.

**Authorization coordinator** (`OAuthAuthorizationCoordinatorProofs`): `AuthorizedOnce`,
`UnfinishedIsFound` and `ExecutorsAreBounded` (the three parts of `AuthorizationsAreAccounted`,
which `runtime_safety` checks through `RuntimeUnitsMC`'s instances), from `CoordinatorInv`.
`WinnerFits`: between claim and completion there is one thread, and nothing was delivered yet.
`TableFits`: an operation stays in the table until its winner takes it out, so a winner
never takes out a later operation that has its id. `PhysicalFits`: operations whose executor has not
returned have distinct ids, all reserved; the bound is then an injection into the reserved
ids. The hypothesis is `CoordinatorAssumption`: the limit is a natural number, an executor
answers with a kind of terminal, and "none" is no operation.

**Keychain** (`KeychainSecretStoreProofs`): `WritersAreTold` and `NoWriteIsLost`, from
`KeychainInv`, with no hypothesis: any clients, any processes. A matched update compares
revisions, and these restart when a record is deleted and made again, so that they alone
do not show which value was replaced. `Loadable` therefore follows what a client has loaded by the life
of its record: within a life revisions only grow, and the same revision of the same life is the same
value. `ExpectationFits` ties what a writer expects to what its client loaded, `StatusFits` what
the platform answered to what it did. `account_units` checks both through
`AccountUnitsMC`'s instances (`ServicesAnswerTruly`).

**API keys** (`ApiKeyCredentialsProofs`): `LeasesHoldTheKey`, `RevokedKeysDie`, `TableIsExact`
and `StoreCallsBounded`, from `KeyInv`. The broker's epoch links provisioner and resolves:
every change of the key is followed by a new epoch, told or not, so that a value loaded under the epoch of now is
the stored key or the change is still on its way (`ResolveFits`). A new epoch empties the table
into the hands of the call that made it: a lease is in the table at the epoch of now, or in
such a hand, or dead (`LeaseFits`). `CallsFit` says that a caller makes one call at a
time, `PhysicalFits` that an identifier stays taken until its thread has left the store.
The hypothesis is `ThreadsAssumption`: provisions, administrators and the two shutdowns are different
threads, and the limit is a natural number. `broker_units` checks the four through
`BrokerUnitsMC`'s instances (`KeyLeasesAreCurrent`).

Only model-checked: the properties of every other module; the decoders' refinement of
`ModelEventStream`; the fairness half of the service's refinement and every liveness
property. Liveness under fairness and `ENABLED`, and induction over data, are
out of reach of the proof system: the decoders' folds over a stream and the
histories of `ResponseStream` stay with the runs. No module that is
proved about declares a recursive operator.

## 6. Plan

1. **Proofs**: the durable transaction's fences; the browser provider's account;
   the in-memory store; the key cache.
2. **Drivers.** The composition of a driver with `DeviceOAuthAccountProvider`, for
   which a driver is one step today.
3. **Secret stores.** Both stores as implementations of one compare-and-swap that
   their callers use.
4. **The chat adapter** and the asynchronous actions over `ExecutionContract`.

## 7. Not modelled

Listed with reasons in `PROJECT.json`.

* Token envelopes, strict JSON, signatures, digests: encodings without
  interleavings; users see a record that decodes or does not.
* Registries and catalogs: maps under a lock, every call atomic, none depending on
  two of them.
* Composition roots: wiring, done once on one thread; the models assume its order.
* Editor user interface, settings, samples and scripts.
* In partly modelled components: the chat adapter and the Blueprint nodes; the
  request builders of the protocols; the platform store's registry, which chooses
  one of the two others at start-up; the kernel's `Revoke`; `RegisterBinding` of the API-key broker;
  `SetRecoveryFailureIfCurrent` of the browser provider; headers and redaction in
  the transports; the bytes of a server-sent event frame and the lengths of delays.

## 8. Running

    tlc -workers 2 -config BrokerUnits.cfg BrokerUnitsMC.tla
    tlapm OAuthCredentialBrokerProofs.tla

The `runs` of `PROJECT.json` give module, configuration and expected outcome. The
largest take under five minutes on two workers.
