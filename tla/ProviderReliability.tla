-------------------------- MODULE ProviderReliability --------------------------
(***************************************************************************)
(* The circuit breakers of FUnrealAIProviderCircuitRegistry: one entry for *)
(* every circuit key and frozen policy, and the move-only permits that     *)
(* report to it.  Every call holds the registry's mutex to its end.        *)
(***************************************************************************)
EXTENDS Naturals, FiniteSets

CONSTANTS Keys,            \* circuit keys
          Policies,        \* records threshold, probes, duration
          Permits,         \* bound: permits alive at a time
          MaximumEntries,
          MaxIdentity,     \* bound: NextPartitionIdentity
          MaxTime          \* bound: the monotonic clock

VARIABLES entries,    \* Entries, by key and policy
          count,      \* EntryCount
          next,       \* NextPartitionIdentity
          permits,    \* the permits alive
          now,        \* the clock
          changes     \* changes of the state of any circuit, and resets

vars == <<entries, count, next, permits, now, changes>>

Partitions == Keys \X Policies
NoPermit == [valid |-> FALSE]

Init ==
    /\ entries = [p \in {} |-> 0]
    /\ count = 0
    /\ next = 1
    /\ permits = [i \in Permits |-> NoPermit]
    /\ now = 0
    /\ changes = 0

-----------------------------------------------------------------------------
NewEntry(policy) ==
    [identity |-> next, state |-> "Closed", failures |-> 0, probes |-> 0,
     openUntil |-> 0, gen |-> 1, policy |-> policy, since |-> changes]

\* since dates the state an entry is in.
Enter(entry, state) ==
    [entry EXCEPT !.state = state, !.probes = 0, !.gen = @ + 1, !.since = changes + 1]

RefreshLocked(entry) ==
    IF entry.state = "Open" /\ now >= entry.openUntil THEN Enter(entry, "HalfOpen")
    ELSE entry

Admits(entry) ==
    \/ entry.state = "Closed"
    \/ entry.state = "HalfOpen" /\ entry.probes < entry.policy.probes

Changed(old, new) == IF new.since # old.since THEN changes + 1 ELSE changes

-----------------------------------------------------------------------------
Stored(p, entry) ==
    entries' = [x \in DOMAIN entries \union {p} |-> IF x = p THEN entry ELSE entries[x]]

\* A rejected admission refreshes the entry too, and keeps a new one.
TryBegin(i, p) ==
    LET known == p \in DOMAIN entries
        old == IF known THEN entries[p] ELSE NewEntry(p[2])
        entry == RefreshLocked(old)
        probe == entry.state = "HalfOpen"
    IN /\ ~permits[i].valid
       /\ known \/ (count < MaximumEntries /\ next <= MaxIdentity)
       /\ count' = IF known THEN count ELSE count + 1
       /\ next' = IF known THEN next ELSE next + 1
       /\ changes' = Changed(old, entry)
       /\ IF Admits(entry)
          THEN /\ Stored(p, [entry EXCEPT !.probes = IF probe THEN @ + 1 ELSE @])
               /\ permits' = [permits EXCEPT ![i] =
                     [valid |-> TRUE, on |-> p, identity |-> entry.identity,
                      gen |-> entry.gen, probe |-> probe, since |-> entry.since]]
          ELSE /\ Stored(p, entry)
               /\ UNCHANGED permits
       /\ UNCHANGED now

GetState(p) ==
    /\ p \in DOMAIN entries
    /\ entries' = [entries EXCEPT ![p] = RefreshLocked(@)]
    /\ changes' = Changed(entries[p], entries'[p])
    /\ UNCHANGED <<count, next, permits, now>>

-----------------------------------------------------------------------------
(* Complete *)

\* Mutant: the partition of the permit is found by its key and generation.
SameGeneration(permit) ==
    permit.on \in DOMAIN entries /\ entries[permit.on].gen = permit.gen

Reports(permit) ==
    /\ permit.on \in DOMAIN entries
    /\ entries[permit.on].identity = permit.identity
    /\ entries[permit.on].gen = permit.gen
    /\ permit.probe => entries[permit.on].probes > 0

\* Mutant: an abandoned probe does not give its slot back.
KeptProbe(entry, permit, outcome) ==
    IF permit.probe /\ outcome # "neutral" THEN [entry EXCEPT !.probes = @ - 1] ELSE entry

GiveBack(entry, permit, outcome) ==
    IF permit.probe THEN [entry EXCEPT !.probes = @ - 1] ELSE entry

Opened(entry) ==
    [Enter(entry, "Open") EXCEPT !.openUntil = now + entry.policy.duration,
                                 !.probes = entry.probes]

Judged(entry, outcome) ==
    CASE outcome = "neutral" -> entry
      [] outcome = "success" /\ entry.state = "HalfOpen" ->
            [Enter(entry, "Closed") EXCEPT !.failures = 0, !.openUntil = 0]
      [] outcome = "success" /\ entry.state # "HalfOpen" -> [entry EXCEPT !.failures = 0]
      [] outcome = "failure" /\ entry.state = "HalfOpen" ->
            [Opened(entry) EXCEPT !.failures = 0, !.probes = 0]
      [] OTHER ->
            LET more == [entry EXCEPT !.failures = @ + 1]
            IN IF more.failures >= entry.policy.threshold THEN Opened(more) ELSE more

\* ReportSuccess and ReportNonTransientResponse, ReportTransientFailure, and
\* Abandon, which the destructor calls.
Complete(i, outcome) ==
    LET permit == permits[i]
    IN /\ permit.valid
       /\ permits' = [permits EXCEPT ![i] = NoPermit]
       /\ IF Reports(permit)
          THEN /\ entries' = [entries EXCEPT ![permit.on] =
                                 Judged(GiveBack(@, permit, outcome), outcome)]
               /\ changes' = Changed(entries[permit.on], entries'[permit.on])
          ELSE UNCHANGED <<entries, changes>>
       /\ UNCHANGED <<count, next, now>>

\* The permits outlive the entries.
Reset ==
    /\ entries' = [p \in {} |-> 0]
    /\ count' = 0
    /\ changes' = changes + 1
    /\ UNCHANGED <<next, permits, now>>

Tick ==
    /\ now < MaxTime
    /\ now' = now + 1
    /\ UNCHANGED <<entries, count, next, permits, changes>>

Next ==
    \/ \E i \in Permits :
          \/ \E p \in Partitions : TryBegin(i, p)
          \/ \E outcome \in {"success", "failure", "neutral"} : Complete(i, outcome)
    \/ \E p \in Partitions : GetState(p)
    \/ count > 0 /\ Reset
    \/ Tick

Spec == Init /\ [][Next]_vars

-----------------------------------------------------------------------------
(* Properties *)

\* The probes a half-open circuit counts are the permits alive that will give
\* them back: no request that ends, in any way and in any order with openings
\* and resets, strands the circuit with its probes taken.
ProbesAreOutstanding ==
    \A p \in DOMAIN entries :
        entries[p].state = "HalfOpen" =>
            /\ entries[p].probes <= entries[p].policy.probes
            /\ entries[p].probes =
                  Cardinality({i \in Permits : /\ permits[i].valid
                                               /\ permits[i].probe
                                               /\ permits[i].on = p
                                               /\ permits[i].since = entries[p].since})

\* A circuit is judged by its own requests, since it took its state: one that
\* another circuit admitted, or this one before an opening, a closing or a reset,
\* neither opens nor closes the circuit that is there when it ends, nor counts as
\* its failure.
JudgedByItsOwnRequests ==
    [][\A i \in Permits : permits[i].valid /\ ~permits'[i].valid =>
          \A p \in DOMAIN entries \intersect DOMAIN entries' :
              entries'[p] # entries[p] =>
                  permits[i].on = p /\ permits[i].since = entries[p].since]_vars

=============================================================================
