----------------------- MODULE ProviderReliabilityProofs -----------------------
(***************************************************************************)
(* For every number of keys, policies and permits: a half-open circuit     *)
(* counts the probes that will be given back, and no request is counted    *)
(* in a state of its circuit other than the one that admitted it.          *)
(***************************************************************************)
EXTENDS ProviderReliability, FiniteSetTheorems, TLAPS

\* The policies are frozen records of naturals; permits are finitely many.
CircuitAssumption ==
    /\ IsFiniteSet(Permits)
    /\ Policies \subseteq [threshold : Nat, probes : Nat, duration : Nat]
    /\ MaxTime \in Nat

EntryType ==
    [identity : Nat, state : {"Closed", "Open", "HalfOpen"}, failures : Nat, probes : Nat,
     openUntil : Nat, gen : Nat, policy : Policies, since : Nat]

PermitType ==
    {NoPermit} \union
    [valid : {TRUE}, on : Partitions, identity : Nat, gen : Nat, probe : BOOLEAN, since : Nat]

CircuitType ==
    /\ DOMAIN entries \subseteq Partitions
    /\ entries = [p \in DOMAIN entries |-> entries[p]]
    /\ \A p \in DOMAIN entries : entries[p] \in EntryType
    /\ permits \in [Permits -> PermitType]
    /\ next \in Nat /\ now \in Nat /\ changes \in Nat

\* Identities and dates are handed out once.
EntryFits(p) ==
    /\ entries[p].identity < next /\ entries[p].since <= changes
    /\ entries[p].policy = p[2]

\* A permit is of the state that admitted it: its circuit has the same identity,
\* generation and date, or a later date and another identity or generation.
PermitFits(i) ==
    LET p == permits[i].on
        c == entries[p]
    IN /\ permits[i].identity < next
       /\ IF p \in DOMAIN entries
          THEN \/ /\ c.identity = permits[i].identity /\ c.gen = permits[i].gen
                  /\ c.since = permits[i].since
               \/ /\ permits[i].since < c.since /\ permits[i].identity <= c.identity
                  /\ permits[i].identity = c.identity => permits[i].gen < c.gen
          ELSE permits[i].since < changes

CircuitInv ==
    /\ CircuitType
    /\ \A p \in DOMAIN entries : EntryFits(p)
    /\ \A i \in Permits : permits[i].valid => PermitFits(i)
    /\ ProbesAreOutstanding

-----------------------------------------------------------------------------
(* An entry and its permits *)

\* The probes that will be given back to a circuit at p in the state dated n.
Owed(p, n) ==
    {i \in Permits : permits[i].valid /\ permits[i].probe /\ permits[i].on = p /\ permits[i].since = n}

\* What a call makes of an entry: the same state, or another of a new date and generation.
Moved(e, c) ==
    /\ c \in EntryType /\ c.identity = e.identity /\ c.policy = e.policy
    /\ \/ c.since = e.since /\ c.gen = e.gen /\ c.state = e.state
       \/ c.since = changes + 1 /\ c.gen = e.gen + 1

LEMMA EnterMoves ==
    ASSUME NEW e \in EntryType, NEW s \in {"Closed", "Open", "HalfOpen"}, changes \in Nat
    PROVE  LET c == Enter(e, s) IN
           /\ Moved(e, c) /\ c.since = changes + 1 /\ c.gen = e.gen + 1
           /\ c.state = s /\ c.probes = 0
<1> DEFINE c == Enter(e, s)
<1>1. e.gen + 1 \in Nat /\ changes + 1 \in Nat
    BY DEF EntryType
<1>2. \A g, n \in Nat :
         [e EXCEPT !.state = s, !.probes = 0, !.gen = g, !.since = n] \in EntryType
    BY DEF EntryType
<1>3. c \in EntryType
    BY <1>1, <1>2 DEF Enter
<1>4. /\ c.since = changes + 1 /\ c.gen = e.gen + 1 /\ c.state = s /\ c.probes = 0
      /\ c.identity = e.identity /\ c.policy = e.policy
    BY DEF Enter, EntryType
<1> QED BY <1>3, <1>4 DEF Moved

LEMMA PermitFields ==
    ASSUME NEW q \in PermitType, q.valid
    PROVE  /\ q.on \in Partitions /\ q.identity \in Nat /\ q.gen \in Nat
           /\ q.probe \in BOOLEAN /\ q.since \in Nat
<1>1. ~NoPermit.valid
    BY DEF NoPermit
<1> QED BY <1>1 DEF PermitType

LEMMA RefreshMoves ==
    ASSUME NEW e \in EntryType, changes \in Nat
    PROVE  LET c == RefreshLocked(e) IN
           /\ Moved(e, c)
           /\ c = e \/ (c.since = changes + 1 /\ c.probes = 0)
<1>1. CASE RefreshLocked(e) = e
    BY <1>1 DEF Moved
<1>2. CASE RefreshLocked(e) = Enter(e, "HalfOpen")
    BY <1>2, EnterMoves
<1> QED BY <1>1, <1>2 DEF RefreshLocked

LEMMA ChangedIsDated ==
    ASSUME CircuitAssumption, changes \in Nat, NEW e \in EntryType, NEW c, Moved(e, c), e.since <= changes
    PROVE  Changed(e, c) \in Nat /\ changes <= Changed(e, c) /\ c.since <= Changed(e, c)
BY DEF Changed, Moved, EntryType

\* Nobody has been admitted by a state that is about to begin.
LEMMA NoneOwed ==
    ASSUME CircuitInv, NEW p, NEW n, n = changes + 1 PROVE Owed(p, n) = {}
<1> SUFFICES ASSUME NEW i \in Permits, permits[i].valid PROVE permits[i].since # n
    BY DEF Owed
<1>1. permits[i] \in PermitType /\ permits[i].since \in Nat /\ changes \in Nat
    BY PermitFields DEF CircuitInv, CircuitType
<1>2. PermitFits(i)
    BY DEF CircuitInv
<1>3. CASE permits[i].on \in DOMAIN entries
    <2>1. entries[permits[i].on].since <= changes /\ entries[permits[i].on].since \in Nat
        BY <1>3 DEF CircuitInv, CircuitType, EntryFits, EntryType
    <2> QED BY <1>1, <1>2, <1>3, <2>1 DEF PermitFits
<1>4. CASE permits[i].on \notin DOMAIN entries
    BY <1>1, <1>2, <1>4 DEF PermitFits
<1> QED BY <1>3, <1>4

LEMMA OwedIsFinite == ASSUME CircuitAssumption, NEW p, NEW n PROVE IsFiniteSet(Owed(p, n))
BY FS_Subset DEF CircuitAssumption, Owed

-----------------------------------------------------------------------------
(* One entry and one permit change *)

\* The entry at p becomes c, and i, which belonged to p if to any, belongs to c if to any.
OneChanges(i, p, c) ==
    /\ entries' = [x \in DOMAIN entries \union {p} |-> IF x = p THEN c ELSE entries[x]]
    /\ permits' \in [Permits -> PermitType]
    /\ \A j \in Permits \ {i} : permits'[j] = permits[j]
    /\ i \in Permits =>
        \/ permits'[i] = permits[i]
        \/ /\ permits[i].valid => permits[i].on = p
           /\ permits'[i].valid =>
                /\ permits'[i].on = p /\ permits'[i].identity = c.identity
                /\ permits'[i].gen = c.gen /\ permits'[i].since = c.since
    /\ c \in EntryType /\ c.policy = p[2]
    /\ IF p \in DOMAIN entries
       THEN Moved(entries[p], c)
       ELSE c.identity = next /\ c.since = changes
    /\ next' \in Nat /\ next <= next' /\ c.identity < next'
    /\ changes' \in Nat /\ changes <= changes' /\ c.since <= changes'
    /\ UNCHANGED now

LEMMA OneKeepsPermit ==
    ASSUME CircuitInv, NEW i, NEW p \in Partitions, NEW c, OneChanges(i, p, c),
           NEW j \in Permits, permits'[j].valid
    PROVE  PermitFits(j)'
<1>1. /\ next \in Nat /\ next' \in Nat /\ changes \in Nat /\ changes' \in Nat
      /\ next <= next' /\ changes <= changes' /\ c.identity < next' /\ c \in EntryType
    BY DEF CircuitInv, CircuitType, OneChanges
<1>2. DOMAIN entries' = DOMAIN entries \union {p} /\ entries'[p] = c
      /\ \A x \in DOMAIN entries \ {p} : entries'[x] = entries[x]
    BY DEF OneChanges
<1>3. CASE permits'[j] = permits[j]
    <2> DEFINE x == permits[j].on
    <2>1. /\ PermitFits(j) /\ permits[j].identity \in Nat /\ permits[j].gen \in Nat
          /\ permits[j].since \in Nat
        BY <1>3, PermitFields DEF CircuitInv, CircuitType
    <2>2. CASE x = p /\ p \in DOMAIN entries
        <3>1. Moved(entries[p], c) /\ entries[p] \in EntryType /\ entries[p].since <= changes
            BY <2>2 DEF OneChanges, CircuitInv, CircuitType, EntryFits
        <3>2. /\ entries[p].since \in Nat /\ entries[p].gen \in Nat /\ entries[p].identity \in Nat
              /\ c.since \in Nat /\ c.gen \in Nat
            BY <1>1, <3>1 DEF EntryType
        <3> QED BY <1>1, <1>2, <1>3, <2>1, <2>2, <3>1, <3>2 DEF PermitFits, Moved
    <2>3. CASE x = p /\ p \notin DOMAIN entries
        <3>1. c.identity = next /\ c.since = changes
            BY <2>3 DEF OneChanges
        <3> QED BY <1>1, <1>2, <1>3, <2>1, <2>3, <3>1 DEF PermitFits
    <2>4. CASE x # p
        BY <1>1, <1>2, <1>3, <2>1, <2>4 DEF PermitFits
    <2> QED BY <2>2, <2>3, <2>4
<1>4. CASE permits'[j] # permits[j]
    <2>1. /\ permits'[j].on = p /\ permits'[j].identity = c.identity
          /\ permits'[j].gen = c.gen /\ permits'[j].since = c.since
        BY <1>4 DEF OneChanges
    <2> QED BY <1>1, <1>2, <2>1 DEF PermitFits
<1> QED BY <1>3, <1>4

LEMMA OneHolds ==
    ASSUME CircuitInv, NEW i, NEW p \in Partitions, NEW c, OneChanges(i, p, c),
           c.state = "HalfOpen" => c.probes <= c.policy.probes /\ c.probes = Cardinality(Owed(p, c.since)')
    PROVE  CircuitInv'
<1>1. DOMAIN entries' = DOMAIN entries \union {p} /\ entries'[p] = c /\ c \in EntryType
      /\ \A x \in DOMAIN entries \ {p} : entries'[x] = entries[x]
    BY DEF OneChanges
<1>2. CircuitType'
    <2>1. entries' = [x \in DOMAIN entries' |-> entries'[x]]
        BY DEF OneChanges
    <2> QED BY <1>1, <2>1 DEF CircuitInv, CircuitType, OneChanges
<1>3. ASSUME NEW x \in DOMAIN entries' PROVE EntryFits(x)'
    <2>1. CASE x = p
        BY <1>1, <2>1 DEF OneChanges, EntryFits
    <2>2. CASE x # p
        <3>1. x \in DOMAIN entries /\ entries'[x] = entries[x] /\ EntryFits(x) /\ entries[x] \in EntryType
            BY <1>1, <1>3, <2>2 DEF CircuitInv, CircuitType
        <3>2. entries[x].identity \in Nat /\ entries[x].since \in Nat
            BY <3>1 DEF EntryType
        <3> QED BY <3>1, <3>2 DEF EntryFits, OneChanges, CircuitInv, CircuitType
    <2> QED BY <2>1, <2>2
<1>4. ASSUME NEW x \in DOMAIN entries', x # p, NEW n PROVE Owed(x, n)' = Owed(x, n)
    <2>1. \A j \in Permits : permits'[j] # permits[j] =>
              /\ permits[j].valid => permits[j].on # x
              /\ permits'[j].valid => permits'[j].on # x
        BY <1>4 DEF OneChanges
    <2> QED BY <1>1, <1>4, <2>1 DEF Owed
<1>5. ProbesAreOutstanding'
    <2> SUFFICES ASSUME NEW x \in DOMAIN entries', entries'[x].state = "HalfOpen",
                        NEW n, n = entries'[x].since
                 PROVE  /\ entries'[x].probes <= entries'[x].policy.probes
                        /\ entries'[x].probes = Cardinality(Owed(x, n)')
        BY DEF ProbesAreOutstanding, Owed
    <2>1. CASE x = p
        BY <1>1, <2>1
    <2>2. CASE x # p
        <3>1. x \in DOMAIN entries /\ entries'[x] = entries[x]
            BY <1>1, <2>2
        <3>2. /\ entries[x].probes <= entries[x].policy.probes
              /\ entries[x].probes = Cardinality(Owed(x, n))
            BY <2>2, <3>1 DEF CircuitInv, ProbesAreOutstanding, Owed
        <3> QED BY <1>4, <2>2, <3>1, <3>2
    <2> QED BY <2>1, <2>2
<1> QED BY <1>2, <1>3, <1>5, OneKeepsPermit DEF CircuitInv

-----------------------------------------------------------------------------
(* The calls *)

LEMMA InitCircuit == CircuitAssumption /\ Init => CircuitInv
<1> SUFFICES ASSUME CircuitAssumption, Init PROVE CircuitInv
    OBVIOUS
<1>1. entries = [p \in {} |-> 0] /\ DOMAIN entries = {}
    BY DEF Init
<1>2. NoPermit \in PermitType
    BY DEF PermitType
<1>3. CircuitType
    BY <1>1, <1>2 DEF Init, CircuitType
<1>4. \A i \in Permits : ~permits[i].valid
    BY DEF Init, NoPermit
<1> QED BY <1>1, <1>3, <1>4 DEF CircuitInv, ProbesAreOutstanding

\* An entry that has been refreshed keeps the count of its probes.
LEMMA RefreshCounts ==
    ASSUME CircuitAssumption, CircuitInv, NEW p \in DOMAIN entries
    PROVE  LET c == RefreshLocked(entries[p]) IN
           /\ Moved(entries[p], c) /\ c.policy = p[2]
           /\ c.state = "HalfOpen" =>
                c.probes <= c.policy.probes /\ c.probes = Cardinality(Owed(p, c.since))
<1> DEFINE e == entries[p]
           c == RefreshLocked(e)
<1>1. e \in EntryType /\ e.policy = p[2] /\ changes \in Nat
    BY DEF CircuitInv, CircuitType, EntryFits
<1>2. Moved(e, c) /\ (c = e \/ (c.since = changes + 1 /\ c.probes = 0))
    BY <1>1, RefreshMoves
<1> HIDE DEF c
<1> DEFINE Counted ==
        c.state = "HalfOpen" => c.probes <= c.policy.probes /\ c.probes = Cardinality(Owed(p, c.since))
<1>3. c.policy = p[2] /\ c.policy.probes \in Nat
    BY <1>1, <1>2 DEF Moved, EntryType, CircuitAssumption
<1>4. ASSUME c = e PROVE Counted
    <2>1. e.state = "HalfOpen" => e.probes <= e.policy.probes /\ e.probes = Cardinality(Owed(p, e.since))
        BY DEF CircuitInv, ProbesAreOutstanding, Owed
    <2> HIDE DEF e
    <2> QED BY <1>3, <1>4, <2>1
<1>5. ASSUME c.since = changes + 1, c.probes = 0 PROVE Counted
    <2>1. Owed(p, c.since) = {}
        BY <1>5, NoneOwed
    <2>2. Cardinality(Owed(p, c.since)) = 0 /\ 0 <= c.policy.probes
        BY <1>3, <2>1, FS_EmptySet
    <2> QED BY <1>3, <1>5, <2>2
<1> QED BY <1>2, <1>3, <1>4, <1>5 DEF c

LEMMA GetStateKeeps ==
    ASSUME CircuitAssumption, CircuitInv, NEW p \in Partitions, GetState(p) PROVE CircuitInv'
<1>1. p \in DOMAIN entries
    BY DEF GetState
<1> DEFINE c == RefreshLocked(entries[p])
<1>2. /\ Moved(entries[p], c) /\ c.policy = p[2]
      /\ c.state = "HalfOpen" =>
           c.probes <= c.policy.probes /\ c.probes = Cardinality(Owed(p, c.since))
    BY <1>1, RefreshCounts
<1>3. /\ entries' = [entries EXCEPT ![p] = c] /\ changes' = Changed(entries[p], entries'[p])
      /\ UNCHANGED <<next, permits, now>>
    BY DEF GetState
<1> HIDE DEF c
<1>4. entries'[p] = c /\ entries' = [x \in DOMAIN entries \union {p} |-> IF x = p THEN c ELSE entries[x]]
    BY <1>1, <1>3
<1>5. /\ changes' \in Nat /\ changes <= changes' /\ c.since <= changes'
    BY <1>1, <1>2, <1>3, <1>4, ChangedIsDated DEF CircuitInv, CircuitType, EntryFits
<1>6. OneChanges(p, p, c)
    <2>1. c \in EntryType /\ next \in Nat /\ c.identity < next /\ permits \in [Permits -> PermitType]
        BY <1>1, <1>2 DEF CircuitInv, CircuitType, EntryFits, Moved
    <2>2. /\ next' = next /\ now' = now /\ permits' = permits /\ p \in DOMAIN entries
        BY <1>1, <1>3
    <2> QED BY <1>2, <1>4, <1>5, <2>1, <2>2 DEF OneChanges
<1>7. \A n : Owed(p, n)' = Owed(p, n)
    BY <1>3 DEF Owed
<1> QED BY <1>2, <1>6, <1>7, OneHolds

\* The entry an admission looks at, created or refreshed.
LEMMA Admitting ==
    ASSUME CircuitAssumption, CircuitInv, NEW i \in Permits, NEW p \in Partitions, TryBegin(i, p)
    PROVE  LET old == IF p \in DOMAIN entries THEN entries[p] ELSE NewEntry(p[2])
               e == RefreshLocked(old)
           IN /\ e \in EntryType /\ e.policy = p[2]
              /\ IF p \in DOMAIN entries
                 THEN Moved(entries[p], e)
                 ELSE e.identity = next /\ e.since = changes
              /\ next' \in Nat /\ next <= next' /\ e.identity < next'
              /\ changes' \in Nat /\ changes <= changes' /\ e.since <= changes'
              /\ e.state = "HalfOpen" =>
                    e.probes <= e.policy.probes /\ e.probes = Cardinality(Owed(p, e.since))
<1> DEFINE old == IF p \in DOMAIN entries THEN entries[p] ELSE NewEntry(p[2])
           e == RefreshLocked(old)
<1>1. /\ next' = IF p \in DOMAIN entries THEN next ELSE next + 1
      /\ changes' = Changed(old, e)
    BY DEF TryBegin
<1>2. next \in Nat /\ changes \in Nat /\ p[2] \in Policies
    BY DEF CircuitInv, CircuitType, Partitions
<1>3. CASE p \in DOMAIN entries
    <2>1. /\ entries[p] \in EntryType /\ entries[p].since <= changes /\ entries[p].identity < next
          /\ entries[p].identity \in Nat
        BY <1>3 DEF CircuitInv, CircuitType, EntryFits, EntryType
    <2> DEFINE c == RefreshLocked(entries[p])
    <2>2. /\ Moved(entries[p], c) /\ c.policy = p[2]
          /\ c.state = "HalfOpen" =>
                c.probes <= c.policy.probes /\ c.probes = Cardinality(Owed(p, c.since))
        BY <1>3, RefreshCounts
    <2>3. e = c /\ old = entries[p]
        BY <1>3
    <2> HIDE DEF c, e, old
    <2>4. changes' \in Nat /\ changes <= changes' /\ c.since <= changes'
        BY <1>1, <1>2, <2>1, <2>2, <2>3, ChangedIsDated
    <2>5. c \in EntryType /\ c.identity = entries[p].identity
        BY <2>2 DEF Moved
    <2>6. next' = next
        BY <1>1, <1>3
    <2> QED BY <1>2, <1>3, <2>1, <2>2, <2>3, <2>4, <2>5, <2>6 DEF e, old
<1>4. CASE p \notin DOMAIN entries
    <2> DEFINE c == NewEntry(p[2])
    <2>1. c \in EntryType
        BY <1>2 DEF NewEntry, EntryType
    <2>2. c.state = "Closed" /\ c.identity = next /\ c.since = changes /\ c.policy = p[2]
        BY DEF NewEntry
    <2>3. old = c
        BY <1>4
    <2> HIDE DEF c
    <2>4. e = c
        BY <2>2, <2>3 DEF RefreshLocked
    <2> HIDE DEF e, old
    <2>5. changes' = changes /\ next' = next + 1
        BY <1>1, <1>4, <2>3, <2>4 DEF Changed
    <2> QED BY <1>2, <1>4, <2>1, <2>2, <2>4, <2>5 DEF e, old
<1> QED BY <1>3, <1>4

LEMMA TryBeginKeeps ==
    ASSUME CircuitAssumption, CircuitInv, NEW i \in Permits, NEW p \in Partitions, TryBegin(i, p)
    PROVE  CircuitInv'
<1> DEFINE old == IF p \in DOMAIN entries THEN entries[p] ELSE NewEntry(p[2])
           e == RefreshLocked(old)
           probe == e.state = "HalfOpen"
           c == [e EXCEPT !.probes = IF probe THEN @ + 1 ELSE @]
           permit == [valid |-> TRUE, on |-> p, identity |-> e.identity,
                      gen |-> e.gen, probe |-> probe, since |-> e.since]
<1>1. /\ ~permits[i].valid /\ UNCHANGED now
      /\ \/ ~Admits(e) /\ Stored(p, e) /\ UNCHANGED permits
         \/ Admits(e) /\ Stored(p, c) /\ permits' = [permits EXCEPT ![i] = permit]
    BY DEF TryBegin
<1>2. /\ e \in EntryType /\ e.policy = p[2]
      /\ IF p \in DOMAIN entries
         THEN Moved(entries[p], e)
         ELSE e.identity = next /\ e.since = changes
      /\ next' \in Nat /\ next <= next' /\ e.identity < next'
      /\ changes' \in Nat /\ changes <= changes' /\ e.since <= changes'
      /\ e.state = "HalfOpen" =>
            e.probes <= e.policy.probes /\ e.probes = Cardinality(Owed(p, e.since))
    BY Admitting
<1> HIDE DEF e
<1>3. permits \in [Permits -> PermitType]
    BY DEF CircuitInv, CircuitType
<1>4. CASE ~Admits(e) /\ Stored(p, e) /\ UNCHANGED permits
    <2>1. OneChanges(i, p, e)
        BY <1>1, <1>2, <1>3, <1>4 DEF OneChanges, Stored
    <2>2. \A n : Owed(p, n)' = Owed(p, n)
        BY <1>4 DEF Owed
    <2> QED BY <1>2, <2>1, <2>2, OneHolds
<1>5. CASE Admits(e) /\ Stored(p, c) /\ permits' = [permits EXCEPT ![i] = permit]
    <2>1. /\ c \in EntryType /\ c.identity = e.identity /\ c.gen = e.gen /\ c.since = e.since
          /\ c.policy = e.policy /\ c.state = e.state
          /\ c.probes = IF probe THEN e.probes + 1 ELSE e.probes
        BY <1>2 DEF EntryType
    <2>2. permit \in PermitType
        BY <1>2 DEF PermitType, EntryType
    <2>3. /\ permit.valid /\ permit.on = p /\ permit.identity = e.identity /\ permit.gen = e.gen
          /\ permit.since = e.since /\ (permit.probe <=> probe)
        OBVIOUS
    <2> HIDE DEF c, permit
    <2>4. permits'[i] = permit /\ \A j \in Permits \ {i} : permits'[j] = permits[j]
        BY <1>3, <1>5
    <2>5. p \in DOMAIN entries => Moved(entries[p], c)
        BY <1>2, <2>1 DEF Moved
    <2>6. permits' \in [Permits -> PermitType]
        BY <1>3, <1>5, <2>2
    <2>7. OneChanges(i, p, c)
        BY <1>1, <1>2, <1>5, <2>1, <2>3, <2>4, <2>5, <2>6 DEF OneChanges, Stored
    <2>8. ASSUME probe, NEW n, n = c.since
          PROVE  c.probes <= c.policy.probes /\ c.probes = Cardinality(Owed(p, n)')
        <3>1. Owed(p, n)' = Owed(p, n) \union {i}
            <4>1. \A j \in Permits \ {i} : j \in Owed(p, n)' <=> j \in Owed(p, n)
                BY <2>4 DEF Owed
            <4>2. i \in Owed(p, n)'
                BY <2>1, <2>3, <2>4, <2>8 DEF Owed
            <4>3. Owed(p, n) \subseteq Permits /\ Owed(p, n)' \subseteq Permits
                BY DEF Owed
            <4> QED BY <4>1, <4>2, <4>3
        <3>2. i \notin Owed(p, n) /\ IsFiniteSet(Owed(p, n))
            <4>1. i \notin Owed(p, n)
                BY <1>1 DEF Owed
            <4> QED BY <4>1, OwedIsFinite
        <3>3. Cardinality(Owed(p, n) \union {i}) = Cardinality(Owed(p, n)) + 1
            BY <3>2, FS_AddElement
        <3>4. e.probes < e.policy.probes /\ e.probes \in Nat /\ e.policy.probes \in Nat
            BY <1>2, <1>5, <2>8 DEF Admits, EntryType, CircuitAssumption
        <3>5. e.probes = Cardinality(Owed(p, n)) /\ c.probes = e.probes + 1 /\ c.policy = e.policy
            BY <1>2, <2>1, <2>8
        <3> QED BY <3>1, <3>3, <3>4, <3>5
    <2> QED BY <2>1, <2>7, <2>8, OneHolds
<1> QED BY <1>1, <1>4, <1>5

-----------------------------------------------------------------------------
(* The end of a permit *)

LEMMA OpenedMoves ==
    ASSUME CircuitAssumption, CircuitInv, NEW e \in EntryType
    PROVE  LET c == Opened(e) IN
           Moved(e, c) /\ c.state = "Open" /\ c.since = changes + 1 /\ c.gen = e.gen + 1
<1> DEFINE d == Enter(e, "Open")
<1>1. Moved(e, d) /\ d.since = changes + 1 /\ d.gen = e.gen + 1 /\ d.state = "Open"
    BY EnterMoves DEF CircuitInv, CircuitType
<1>2. d \in EntryType /\ d.identity = e.identity /\ d.policy = e.policy
    BY <1>1 DEF Moved
<1>3. e.probes \in Nat /\ now + e.policy.duration \in Nat
    BY DEF CircuitAssumption, CircuitInv, CircuitType, EntryType
<1> HIDE DEF d
<1>4. \A u, n \in Nat : LET c == [d EXCEPT !.openUntil = u, !.probes = n] IN
          /\ c \in EntryType /\ c.identity = d.identity /\ c.policy = d.policy
          /\ c.since = d.since /\ c.gen = d.gen /\ c.state = d.state
    BY <1>2 DEF EntryType
<1>5. LET c == Opened(e) IN
          /\ c \in EntryType /\ c.identity = d.identity /\ c.policy = d.policy
          /\ c.since = d.since /\ c.gen = d.gen /\ c.state = d.state
    BY <1>3, <1>4 DEF Opened, d
<1> QED BY <1>1, <1>2, <1>5 DEF Moved

\* A change of some counters is no change of state.
LEMMA CountersMove ==
    ASSUME NEW e \in EntryType, NEW n \in Nat
    PROVE  /\ Moved(e, e)
           /\ LET c == [e EXCEPT !.failures = n] IN Moved(e, c) /\ c.state = e.state /\ c.policy = e.policy
           /\ LET c == [e EXCEPT !.probes = n] IN
                Moved(e, c) /\ c.state = e.state /\ c.since = e.since /\ c.probes = n /\ c.policy = e.policy
<1>1. [e EXCEPT !.failures = n] \in EntryType /\ [e EXCEPT !.probes = n] \in EntryType
    BY DEF EntryType
<1> QED BY <1>1 DEF EntryType, Moved

LEMMA MovedTwice ==
    ASSUME NEW e, NEW d, NEW c, Moved(e, d), Moved(d, c), d.since = e.since, d.gen = e.gen, d.state = e.state
    PROVE  Moved(e, c)
BY DEF Moved

LEMMA JudgedMoves ==
    ASSUME CircuitAssumption, CircuitInv, NEW e \in EntryType, NEW outcome \in {"success", "failure", "neutral"}
    PROVE  LET c == Judged(e, outcome) IN Moved(e, c) /\ (c.state = "HalfOpen" => c = e)
<1> DEFINE c == Judged(e, outcome)
<1>1. CASE outcome = "neutral"
    BY <1>1, CountersMove DEF Judged
<1>2. CASE outcome = "success" /\ e.state = "HalfOpen"
    <2> DEFINE d == Enter(e, "Closed")
    <2>1. Moved(e, d) /\ d.since = changes + 1 /\ d.gen = e.gen + 1 /\ d.state = "Closed"
        BY EnterMoves DEF CircuitInv, CircuitType
    <2>2. d \in EntryType
        BY <2>1 DEF Moved
    <2> HIDE DEF d
    <2> DEFINE g == [d EXCEPT !.failures = 0, !.openUntil = 0]
    <2>3. /\ g \in EntryType /\ g.identity = d.identity /\ g.policy = d.policy
          /\ g.since = d.since /\ g.gen = d.gen /\ g.state = d.state
        BY <2>2 DEF EntryType
    <2>4. c = g
        BY <1>2 DEF Judged, d
    <2> HIDE DEF c, g
    <2> QED BY <2>1, <2>3, <2>4 DEF Moved, c
<1>3. CASE outcome = "success" /\ e.state # "HalfOpen"
    <2>1. c = [e EXCEPT !.failures = 0]
        BY <1>3 DEF Judged
    <2> DEFINE g == [e EXCEPT !.failures = 0]
    <2>2. Moved(e, g) /\ g.state = e.state
        BY CountersMove
    <2> HIDE DEF c, g
    <2>3. c = g
        BY <2>1 DEF g
    <2> QED BY <1>3, <2>2, <2>3 DEF c
<1>4. CASE outcome = "failure" /\ e.state = "HalfOpen"
    <2> DEFINE d == Opened(e)
    <2>1. Moved(e, d) /\ d.state = "Open" /\ d.since = changes + 1 /\ d.gen = e.gen + 1
        BY OpenedMoves
    <2>2. d \in EntryType
        BY <2>1 DEF Moved
    <2> HIDE DEF d
    <2> DEFINE g == [d EXCEPT !.failures = 0, !.probes = 0]
    <2>3. /\ g \in EntryType /\ g.identity = d.identity /\ g.policy = d.policy
          /\ g.since = d.since /\ g.gen = d.gen /\ g.state = d.state
        BY <2>2 DEF EntryType
    <2>4. c = g
        BY <1>4 DEF Judged, d
    <2> HIDE DEF c, g
    <2> QED BY <2>1, <2>3, <2>4 DEF Moved, c
<1>5. CASE outcome = "failure" /\ e.state # "HalfOpen"
    <2> DEFINE more == [e EXCEPT !.failures = @ + 1]
    <2>1. e.failures + 1 \in Nat
        BY DEF EntryType
    <2>2. Moved(e, more) /\ more.state = e.state /\ more.policy = e.policy
        BY <2>1, CountersMove
    <2>3. more.since = e.since /\ more.gen = e.gen /\ more \in EntryType
        BY <2>2 DEF EntryType, Moved
    <2>4. c = IF more.failures >= e.policy.threshold THEN Opened(more) ELSE more
        BY <1>5 DEF Judged
    <2> HIDE DEF more
    <2>5. Moved(more, Opened(more)) /\ Opened(more).state = "Open"
        BY <2>3, OpenedMoves
    <2>6. Moved(e, Opened(more))
        BY <2>2, <2>3, <2>5, MovedTwice
    <2> HIDE DEF c
    <2> QED BY <1>5, <2>2, <2>4, <2>5, <2>6 DEF c
<1> QED BY <1>1, <1>2, <1>3, <1>4, <1>5

\* A permit that is of its circuit's state is one the circuit listens to.
LEMMA ReportsToItsOwn ==
    ASSUME CircuitAssumption, CircuitInv, NEW i \in Permits, permits[i].valid, Reports(permits[i])
    PROVE  permits[i].since = entries[permits[i].on].since
<1>1. PermitFits(i) /\ permits[i] \in PermitType /\ permits[i].on \in DOMAIN entries
    BY DEF CircuitInv, CircuitType, Reports
<1>2. permits[i].gen \in Nat
    BY <1>1, PermitFields
<1> QED BY <1>1, <1>2 DEF PermitFits, Reports

LEMMA CompleteCounts ==
    ASSUME CircuitAssumption, CircuitInv, NEW i \in Permits, NEW outcome \in {"success", "failure", "neutral"},
           Complete(i, outcome), Reports(permits[i])
    PROVE  CircuitInv'
<1> DEFINE permit == permits[i]
           p == permit.on
           e == entries[p]
           d == GiveBack(e, permit, outcome)
           c == Judged(d, outcome)
<1>1. /\ permit.valid /\ permits' = [permits EXCEPT ![i] = NoPermit]
      /\ entries' = [entries EXCEPT ![p] = c] /\ changes' = Changed(e, entries'[p])
      /\ UNCHANGED <<next, now>>
    BY DEF Complete
<1>2. /\ permit \in PermitType /\ p \in DOMAIN entries /\ e \in EntryType /\ p \in Partitions
      /\ permits \in [Permits -> PermitType] /\ changes \in Nat /\ next \in Nat
      /\ e.policy = p[2] /\ e.since <= changes /\ e.identity < next
    BY DEF CircuitInv, CircuitType, EntryFits, Reports
<1>3. /\ permit.since = e.since /\ permit.probe \in BOOLEAN
      /\ permit.probe => e.probes > 0
    BY <1>1, <1>2, ReportsToItsOwn, PermitFields DEF Reports
<1> DEFINE left == IF permit.probe THEN e.probes - 1 ELSE e.probes
<1>4. left \in Nat /\ e.probes \in Nat
    BY <1>2, <1>3 DEF EntryType
<1>5. /\ Moved(e, d) /\ d.state = e.state /\ d.since = e.since /\ d.gen = e.gen /\ d.probes = left
      /\ d.policy = e.policy /\ d \in EntryType
    <2>1. CASE permit.probe
        <3> DEFINE g == [e EXCEPT !.probes = left]
        <3>1. Moved(e, g) /\ g.state = e.state /\ g.since = e.since /\ g.probes = left /\ g.policy = e.policy
            BY <1>2, <1>4, CountersMove
        <3>2. g.gen = e.gen
            BY <1>2 DEF EntryType
        <3>3. d = g
            BY <2>1 DEF GiveBack
        <3> HIDE DEF d, g, e, left
        <3> QED BY <3>1, <3>2, <3>3 DEF Moved
    <2>2. CASE ~permit.probe
        <3>1. d = e
            BY <2>2 DEF GiveBack
        <3>2. Moved(e, e)
            BY <1>2 DEF Moved
        <3> QED BY <1>2, <2>2, <3>1, <3>2
    <2> QED BY <1>3, <2>1, <2>2
<1> HIDE DEF d
<1>6. Moved(d, c) /\ (c.state = "HalfOpen" => c = d)
    BY <1>5, JudgedMoves
<1> HIDE DEF c
<1>7. Moved(e, c) /\ c.policy = p[2] /\ c \in EntryType /\ c.identity = e.identity
    <2>1. Moved(e, c)
        BY <1>5, <1>6, MovedTwice
    <2> QED BY <1>2, <2>1 DEF Moved
<1>8. entries'[p] = c /\ entries' = [x \in DOMAIN entries \union {p} |-> IF x = p THEN c ELSE entries[x]]
    BY <1>1, <1>2
<1>9. changes' \in Nat /\ changes <= changes' /\ c.since <= changes'
    BY <1>1, <1>2, <1>7, <1>8, ChangedIsDated
<1>10. /\ permits' \in [Permits -> PermitType] /\ ~permits'[i].valid
       /\ \A j \in Permits \ {i} : permits'[j] = permits[j]
    <2>1. NoPermit \in PermitType /\ ~NoPermit.valid
        BY DEF PermitType, NoPermit
    <2> QED BY <1>1, <1>2, <2>1
<1>11. OneChanges(i, p, c)
    <2>1. next' = next /\ now' = now /\ next \in Nat /\ c.identity < next
        BY <1>1, <1>2, <1>7
    <2>2. permits[i].on = p /\ Moved(entries[p], c)
        BY <1>7
    <2> HIDE DEF e, p, permit
    <2> QED BY <1>2, <1>7, <1>8, <1>9, <1>10, <2>1, <2>2 DEF OneChanges
<1>12. ASSUME c.state = "HalfOpen", NEW n, n = c.since, NEW x, x = p
       PROVE  c.probes <= c.policy.probes /\ c.probes = Cardinality(Owed(x, n)')
    <2>1. c = d /\ e.state = "HalfOpen" /\ n = e.since
        BY <1>5, <1>6, <1>12
    <2>2. e.probes <= e.policy.probes /\ e.probes = Cardinality(Owed(x, n))
        <3>1. x \in DOMAIN entries /\ e = entries[x] /\ entries[x].state = "HalfOpen" /\ n = entries[x].since
            BY <1>2, <1>12, <2>1
        <3>2. entries[x].probes <= entries[x].policy.probes /\ entries[x].probes = Cardinality(Owed(x, n))
            BY <3>1 DEF CircuitInv, ProbesAreOutstanding, Owed
        <3> QED BY <3>1, <3>2
    <2>3. Owed(x, n)' = Owed(x, n) \ {i}
        <3>1. \A j \in Permits \ {i} : j \in Owed(x, n)' <=> j \in Owed(x, n)
            BY <1>10 DEF Owed
        <3>2. i \notin Owed(x, n)' /\ Owed(x, n)' \subseteq Permits /\ Owed(x, n) \subseteq Permits
            BY <1>10 DEF Owed
        <3> QED BY <3>1, <3>2
    <2>4. i \in Owed(x, n) <=> permit.probe
        BY <1>1, <1>3, <1>12, <2>1 DEF Owed
    <2>5. Cardinality(Owed(x, n) \ {i}) = left
        BY <2>2, <2>4, OwedIsFinite, FS_RemoveElement
    <2>6. c.probes = left /\ c.policy = e.policy /\ left <= e.probes /\ e.policy.probes \in Nat
        BY <1>2, <1>3, <1>4, <1>5, <2>1 DEF EntryType, CircuitAssumption
    <2> QED BY <1>4, <2>2, <2>3, <2>5, <2>6
<1>13. PICK x : x = p
    OBVIOUS
<1>14. PICK y : y = c
    OBVIOUS
<1> HIDE DEF p
<1> QED BY <1>2, <1>11, <1>12, <1>13, <1>14, OneHolds

\* A permit its circuit does not listen to is not one of those it counts.
LEMMA CompleteForgets ==
    ASSUME CircuitAssumption, CircuitInv, NEW i \in Permits, NEW outcome, Complete(i, outcome), ~Reports(permits[i])
    PROVE  CircuitInv'
<1>1. /\ permits[i].valid /\ permits' = [permits EXCEPT ![i] = NoPermit]
      /\ UNCHANGED <<entries, changes, next, now>>
    BY DEF Complete
<1>2. permits \in [Permits -> PermitType] /\ NoPermit \in PermitType /\ ~NoPermit.valid
    BY DEF CircuitInv, CircuitType, PermitType, NoPermit
<1>3. /\ permits' \in [Permits -> PermitType] /\ ~permits'[i].valid
      /\ \A j \in Permits \ {i} : permits'[j] = permits[j]
    BY <1>1, <1>2
<1>4. CircuitType' /\ \A p \in DOMAIN entries' : EntryFits(p)'
    BY <1>1, <1>3 DEF CircuitInv, CircuitType, EntryFits
<1>5. ASSUME NEW j \in Permits, permits'[j].valid PROVE PermitFits(j)'
    BY <1>1, <1>3, <1>5 DEF CircuitInv, PermitFits
<1>6. ASSUME NEW p \in DOMAIN entries, entries[p].state = "HalfOpen", NEW n, n = entries[p].since
      PROVE  Owed(p, n)' = Owed(p, n)
    <2>1. i \notin Owed(p, n)
        <3> SUFFICES ASSUME i \in Owed(p, n) PROVE FALSE
            OBVIOUS
        <3>1. permits[i].probe /\ permits[i].on = p /\ permits[i].since = n
            BY DEF Owed
        <3>2. entries[p].probes = Cardinality(Owed(p, n)) /\ entries[p].probes \in Nat
              /\ entries[p].since \in Nat
            BY <1>6 DEF CircuitInv, CircuitType, ProbesAreOutstanding, Owed, EntryType
        <3>3. Cardinality(Owed(p, n)) # 0
            BY OwedIsFinite, FS_EmptySet
        <3>4. entries[p].identity = permits[i].identity /\ entries[p].gen = permits[i].gen
            <4>1. PermitFits(i)
                BY <1>1 DEF CircuitInv
            <4> QED BY <1>6, <3>1, <3>2, <4>1 DEF PermitFits
        <3> QED BY <3>1, <3>2, <3>3, <3>4 DEF Reports
    <2>2. \A j \in Permits : j \in Owed(p, n)' <=> j \in Owed(p, n)
        BY <1>3, <2>1 DEF Owed
    <2> QED BY <2>2 DEF Owed
<1>7. ProbesAreOutstanding'
    <2> SUFFICES ASSUME NEW p \in DOMAIN entries, entries[p].state = "HalfOpen", NEW n, n = entries[p].since
                 PROVE  /\ entries[p].probes <= entries[p].policy.probes
                        /\ entries[p].probes = Cardinality(Owed(p, n)')
        BY <1>1 DEF ProbesAreOutstanding, Owed
    <2>1. /\ entries[p].probes <= entries[p].policy.probes
          /\ entries[p].probes = Cardinality(Owed(p, n))
        BY DEF CircuitInv, ProbesAreOutstanding, Owed
    <2> QED BY <1>6, <2>1
<1> QED BY <1>4, <1>5, <1>7 DEF CircuitInv

LEMMA ResetKeeps == ASSUME CircuitAssumption, CircuitInv, Reset PROVE CircuitInv'
<1>1. /\ entries' = [p \in {} |-> 0] /\ DOMAIN entries' = {} /\ changes' = changes + 1
      /\ UNCHANGED <<next, permits, now>> /\ changes \in Nat
    BY DEF Reset, CircuitInv, CircuitType
<1>2. CircuitType'
    BY <1>1 DEF CircuitInv, CircuitType
<1>3. ASSUME NEW i \in Permits, permits[i].valid PROVE PermitFits(i)'
    <2>1. permits[i].since \in Nat /\ PermitFits(i)
        BY <1>3, PermitFields DEF CircuitInv, CircuitType
    <2>2. permits[i].since <= changes
        BY <1>1, <2>1 DEF PermitFits, CircuitInv, CircuitType, EntryFits, EntryType
    <2> QED BY <1>1, <2>1, <2>2 DEF PermitFits
<1> QED BY <1>1, <1>2, <1>3 DEF CircuitInv, ProbesAreOutstanding

LEMMA CircuitStep == ASSUME CircuitAssumption, CircuitInv, [Next]_vars PROVE CircuitInv'
<1>1. ASSUME NEW i \in Permits, NEW outcome \in {"success", "failure", "neutral"}, Complete(i, outcome)
      PROVE  CircuitInv'
    BY <1>1, CompleteCounts, CompleteForgets
<1>2. ASSUME UNCHANGED <<entries, next, permits, changes>>, now' \in Nat PROVE CircuitInv'
    BY <1>2 DEF CircuitInv, CircuitType, EntryFits, PermitFits, ProbesAreOutstanding
<1>3. CASE Tick
    BY <1>2, <1>3 DEF Tick, CircuitInv, CircuitType
<1>4. CASE UNCHANGED vars
    BY <1>2, <1>4 DEF vars, CircuitInv, CircuitType
<1> QED BY <1>1, <1>3, <1>4, TryBeginKeeps, GetStateKeeps, ResetKeeps DEF Next

\* A half-open circuit that has admitted its probes is not left with them taken: each
\* is a permit alive that will give it back, whatever reports, openings and resets came
\* since.  What makes it so is that identities, generations and dates are never reused.
THEOREM NoProbeIsStranded ==
    ASSUME CircuitAssumption PROVE Spec => []ProbesAreOutstanding
<1>1. CircuitInv => ProbesAreOutstanding
    BY DEF CircuitInv
<1>2. CircuitInv /\ [Next]_vars => CircuitInv'
    BY CircuitStep
<1>3. Init => CircuitInv
    BY InitCircuit
<1> QED BY <1>1, <1>2, <1>3, PTL DEF Spec

\* A report reaches only the circuit, and the state of it, that admitted the request.
THEOREM OnlyItsOwnRequests ==
    ASSUME CircuitAssumption PROVE Spec => JudgedByItsOwnRequests
<1> DEFINE Fair ==
        \A i \in Permits : permits[i].valid /\ ~permits'[i].valid =>
            \A p \in DOMAIN entries \intersect DOMAIN entries' :
                entries'[p] # entries[p] =>
                    permits[i].on = p /\ permits[i].since = entries[p].since
<1>1. CircuitInv /\ [Next]_vars => [Fair]_vars
    <2> SUFFICES ASSUME CircuitInv, Next, NEW i \in Permits, permits[i].valid, ~permits'[i].valid,
                        NEW p \in DOMAIN entries \intersect DOMAIN entries', entries'[p] # entries[p]
                 PROVE  permits[i].on = p /\ permits[i].since = entries[p].since
        BY DEF vars
    <2>1. permits \in [Permits -> PermitType]
        BY DEF CircuitInv, CircuitType
    <2>2. ASSUME NEW j \in Permits, NEW outcome, Complete(j, outcome)
          PROVE  permits[i].on = p /\ permits[i].since = entries[p].since
        <3>1. i = j
            BY <2>1, <2>2 DEF Complete
        <3>2. Reports(permits[i]) /\ p = permits[i].on
            BY <2>2, <3>1 DEF Complete
        <3> QED BY <3>2, ReportsToItsOwn
    <2>3. ASSUME NEW j \in Permits, NEW q, TryBegin(j, q) PROVE FALSE
        <3>1. permits' = permits \/ \E x : permits' = [permits EXCEPT ![j] = x] /\ x.valid
            BY <2>3 DEF TryBegin
        <3> QED BY <2>1, <3>1
    <2>4. ~GetState(p) /\ ~Reset /\ ~Tick /\ \A q : ~GetState(q)
        BY DEF GetState, Reset, Tick
    <2> QED BY <2>2, <2>3, <2>4 DEF Next
<1>2. CircuitInv /\ [Next]_vars => CircuitInv'
    BY CircuitStep
<1>3. Init => CircuitInv
    BY InitCircuit
<1> QED BY <1>1, <1>2, <1>3, PTL DEF Spec, JudgedByItsOwnRequests

=============================================================================
