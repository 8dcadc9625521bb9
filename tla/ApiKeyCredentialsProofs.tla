------------------------ MODULE ApiKeyCredentialsProofs ------------------------
(***************************************************************************)
(* For any resolves, provisions, administrators and limits: a lease that   *)
(* can be used holds the stored key or is about to be killed, nobody keeps *)
(* a lease of a quarantined account, and the two tables of the broker hold *)
(* what they count.                                                        *)
(*                                                                         *)
(* The epoch links the two halves: it moves with every change of the key,  *)
(* so that a value loaded under the epoch of now is the stored one or the  *)
(* change is still on its way; and a move empties the table of leases into *)
(* the hands of the call that made it.                                     *)
(***************************************************************************)
EXTENDS ApiKeyCredentials, FiniteSetTheorems, TLAPS

\* Threads are distinct, and the broker's limit is a natural number.
ThreadsAssumption ==
    /\ Provisions \cap (Administrators \cup {"shutdown", "provisioner"}) = {}
    /\ Administrators \cap {"shutdown", "provisioner"} = {}
    /\ MaxConcurrentStoreOperations \in Nat

Results == {"none", "succeeded", "failed", "ended", "deleted", "stored"}
Inside == {"loading", "failing", "creating", "succeeding", "finishing"}
Resolve ==
    [at : {"new", "snapshot", "rejected", "over"} \cup Inside,
     epoch : Nat, value : Nat, reason : BOOLEAN, result : Results]
Provision ==
    [at : {"new", "loading", "rejected", "mutating", "changing", "telling", "over"},
     delete : BOOLEAN, found : Nat, secret : BOOLEAN,
     answer : Results, result : Results]

BrokerTypes ==
    /\ resolve \in [Resolves -> Resolve]
    /\ fresh \in [Resolves -> {"none", "live", "used", "dead"}]
    /\ broker \in [epoch : Nat, disabled : BOOLEAN, leases : SUBSET Resolves,
                   physical : SUBSET Resolves, shutdown : BOOLEAN]
    /\ call \in [Callers -> [at : {"out", "cancelling", "killing"}, cancel : SUBSET Resolves,
                             kill : SUBSET Resolves]]

ProvisionTypes ==
    /\ provision \in [Provisions -> Provision]
    /\ listed \subseteq Provisions
    /\ closing \in [begun : BOOLEAN, pending : SUBSET Provisions]
    /\ key \in Nat /\ written \in Nat

\* A store or a delete was issued, and its epoch is to come.
Changed == \E p \in Provisions : provision[p].at = "changing"

\* Some call has the lease in hand and kills it.
Doomed(o) == \E c \in Callers : call[c].at # "out" /\ o \in call[c].kill

\* A value loaded under the epoch of now is the stored key, or the change is on its way.
ResolveFits(o) ==
    /\ resolve[o].at \in {"new", "snapshot", "loading", "rejected"} => resolve[o].value = NoKey
    /\ resolve[o].at \in {"creating", "succeeding"} => resolve[o].value # NoKey
    /\ resolve[o].at \in Inside => o \in broker.physical
    /\ resolve[o].epoch <= broker.epoch
    /\ /\ resolve[o].value # NoKey /\ resolve[o].epoch = broker.epoch /\ ~broker.shutdown
       => resolve[o].value = key \/ Changed

\* The table holds leases of the epoch of now; one that left it alive is in some call's hands.
LeaseFits(o) ==
    /\ o \in broker.leases =>
          /\ resolve[o].at = "succeeding" \/ resolve[o].result = "succeeded"
          /\ resolve[o].epoch = broker.epoch /\ resolve[o].value # NoKey
          /\ ~broker.disabled /\ ~broker.shutdown
    /\ fresh[o] = "live" => o \in broker.leases \/ Doomed(o)

\* A caller has one call at a time.
CallsFit ==
    /\ ~broker.shutdown => call["shutdown"].at = "out"
    /\ ~closing.begun => call["provisioner"].at = "out"
    /\ \A p \in Provisions : provision[p].at # "telling" => call[p].at = "out"

PhysicalFits ==
    /\ IsFiniteSet(broker.physical)
    /\ Cardinality(broker.physical) <= MaxConcurrentStoreOperations
    /\ \A o, q \in broker.physical : IdOf[o] = IdOf[q] => o = q

KeyInv ==
    /\ BrokerTypes /\ ProvisionTypes
    /\ \A o \in Resolves : ResolveFits(o) /\ LeaseFits(o)
    /\ CallsFit /\ PhysicalFits

-----------------------------------------------------------------------------
(* What every step of one resolve leaves of the rest *)

\* The operation o takes a step; the others keep their leases, unless these are spent.
Alone(o) ==
    /\ UNCHANGED <<call, provision, listed, closing, key, written>>
    /\ broker'.epoch = broker.epoch /\ broker'.disabled = broker.disabled
    /\ broker'.shutdown = broker.shutdown
    /\ \A q \in Resolves : q # o =>
          /\ resolve'[q] = resolve[q] /\ fresh'[q] = fresh[q]
          /\ q \in broker'.leases => q \in broker.leases
          /\ q \in broker.leases /\ fresh[q] = "live" => q \in broker'.leases
          /\ q \in broker.physical => q \in broker'.physical

LEMMA AloneKeeps ==
    ASSUME KeyInv, NEW o \in Resolves, Alone(o),
           BrokerTypes', ResolveFits(o)', LeaseFits(o)', PhysicalFits'
    PROVE  KeyInv'
<1>1. ProvisionTypes' /\ CallsFit'
    BY DEF KeyInv, Alone, ProvisionTypes, CallsFit
<1>2. ASSUME NEW q \in Resolves, q # o PROVE ResolveFits(q)' /\ LeaseFits(q)'
    <2>1. ResolveFits(q) /\ LeaseFits(q)
        BY DEF KeyInv
    <2>2. Changed' = Changed /\ Doomed(q)' = Doomed(q)
        BY DEF Alone, Changed, Doomed
    <2>3. ResolveFits(q)'
        BY <1>2, <2>1, <2>2 DEF Alone, ResolveFits
    <2>4. LeaseFits(q)'
        BY <1>2, <2>1, <2>2 DEF Alone, LeaseFits
    <2> QED BY <2>3, <2>4
<1> QED BY <1>1, <1>2 DEF KeyInv

\* The record of an operation is replaced.
LEMMA ResolveBecomes ==
    ASSUME BrokerTypes, NEW o \in Resolves, NEW x \in Resolve, resolve' = [resolve EXCEPT ![o] = x]
    PROVE  /\ resolve' \in [Resolves -> Resolve] /\ resolve'[o] = x
           /\ \A q \in Resolves : q # o => resolve'[q] = resolve[q]
BY DEF BrokerTypes

LEMMA PublishesResult ==
    ASSUME NEW x \in Resolve, NEW result \in Results
    PROVE  /\ Publishes(x, result) \in Resolve
           /\ Publishes(x, result).at = x.at /\ Publishes(x, result).epoch = x.epoch
           /\ Publishes(x, result).value = x.value
           /\ Publishes(x, result).result = IF x.result = "none" THEN result ELSE x.result
BY DEF Publishes, Resolve

LEMMA ObservesEnd ==
    ASSUME NEW x \in Resolve
    PROVE  LET y == ObserveCancellationAndTimeout(x) IN
           /\ y \in Resolve /\ y.at = x.at /\ y.epoch = x.epoch /\ y.value = x.value
           /\ x.result = "succeeded" => y.result = "succeeded"
BY PublishesResult DEF ObserveCancellationAndTimeout, Results

LEMMA MovesResolve ==
    ASSUME NEW x \in Resolve, NEW place \in Inside \cup {"new", "snapshot", "rejected", "over"}
    PROVE  LET y == [x EXCEPT !.at = place] IN
           /\ y \in Resolve /\ y.at = place /\ y.epoch = x.epoch /\ y.value = x.value
           /\ y.result = x.result
BY DEF Resolve

\* Most steps only move an operation on and leave the tables alone.
LEMMA QuietKeeps ==
    ASSUME KeyInv, NEW o \in Resolves, NEW x \in Resolve, resolve' = [resolve EXCEPT ![o] = x],
           UNCHANGED <<fresh, broker, call, provisionVars>>,
           x.epoch # resolve[o].epoch => x.value = NoKey /\ x.epoch = broker.epoch,
           x.value # resolve[o].value => x.value = key /\ key # NoKey,
           resolve[o].result = "succeeded" => x.result = "succeeded",
           x.at \in {"new", "snapshot", "loading", "rejected"} => x.value = NoKey,
           x.at \in {"creating", "succeeding"} => x.value # NoKey,
           x.at \in Inside => o \in broker.physical,
           resolve[o].at = "succeeding" => x.at = "succeeding"
    PROVE  KeyInv'
<1>1. BrokerTypes /\ ResolveFits(o) /\ LeaseFits(o) /\ PhysicalFits
    BY DEF KeyInv
<1>2. /\ resolve' \in [Resolves -> Resolve] /\ resolve'[o] = x
      /\ \A q \in Resolves : q # o => resolve'[q] = resolve[q]
    BY <1>1, ResolveBecomes
<1>3. Changed' = Changed /\ Doomed(o)' = Doomed(o)
    BY DEF Changed, Doomed, provisionVars
<1>4. resolve[o].epoch \in Nat /\ broker.epoch \in Nat /\ x.epoch \in Nat
    BY <1>1 DEF BrokerTypes, Resolve
<1>5. ResolveFits(o)'
    BY <1>1, <1>2, <1>3, <1>4 DEF ResolveFits, provisionVars
<1>6. LeaseFits(o)'
    BY <1>1, <1>2, <1>3 DEF LeaseFits, provisionVars, NoKey
<1>7. BrokerTypes'
    BY <1>1, <1>2 DEF BrokerTypes
<1>8. PhysicalFits'
    BY <1>1 DEF PhysicalFits
<1>9. Alone(o)
    BY <1>2 DEF Alone, provisionVars
<1> QED BY <1>5, <1>6, <1>7, <1>8, <1>9, AloneKeeps

-----------------------------------------------------------------------------
(* The steps of a resolve *)

LEMMA TakeEpochsKeeps ==
    ASSUME KeyInv, NEW o \in Resolves, TakeEpochs(o)
    PROVE  KeyInv'
<1> DEFINE place == IF broker.shutdown \/ broker.disabled THEN "rejected" ELSE "snapshot"
           x == [resolve[o] EXCEPT !.epoch = broker.epoch, !.at = place]
<1>1. BrokerTypes /\ ResolveFits(o) /\ resolve[o] \in Resolve /\ resolve[o].at = "new"
    BY DEF KeyInv, TakeEpochs, BrokerTypes
<1>2. resolve' = [resolve EXCEPT ![o] = x]
    BY <1>1 DEF TakeEpochs, BrokerTypes
<1>3. /\ x \in Resolve /\ x.epoch = broker.epoch /\ x.at = place
      /\ x.value = resolve[o].value /\ x.result = resolve[o].result
    BY <1>1 DEF Resolve, BrokerTypes
<1>4. x.value = NoKey
    BY <1>1, <1>3 DEF ResolveFits
<1>5. place \in {"rejected", "snapshot"} /\ place \notin Inside
    BY DEF Inside
<1>6. UNCHANGED <<fresh, broker, call, provisionVars>>
    BY DEF TakeEpochs
<1> HIDE DEF x, place
<1> QED BY <1>1, <1>2, <1>3, <1>4, <1>5, <1>6, QuietKeeps

LEMMA InterruptKeeps ==
    ASSUME KeyInv, NEW o \in Resolves, Interrupt(o) \/ Monitor(o)
    PROVE  KeyInv'
<1>1. BrokerTypes /\ ResolveFits(o) /\ resolve[o] \in Resolve
    BY DEF KeyInv, BrokerTypes
<1> DEFINE y == [resolve[o] EXCEPT !.reason = TRUE]
           z == ObserveCancellationAndTimeout(resolve[o])
<1>2. PICK x \in {y, z} : resolve' = [resolve EXCEPT ![o] = x]
    BY <1>1 DEF Interrupt, Monitor, BrokerTypes
<1>3. /\ y \in Resolve /\ y.at = resolve[o].at /\ y.epoch = resolve[o].epoch
      /\ y.value = resolve[o].value /\ y.result = resolve[o].result
    BY <1>1 DEF Resolve
<1>4. /\ z \in Resolve /\ z.at = resolve[o].at /\ z.epoch = resolve[o].epoch
      /\ z.value = resolve[o].value /\ (resolve[o].result = "succeeded" => z.result = "succeeded")
    BY <1>1, ObservesEnd
<1> HIDE DEF y, z
<1>5. /\ x \in Resolve /\ x.at = resolve[o].at /\ x.epoch = resolve[o].epoch
      /\ x.value = resolve[o].value /\ (resolve[o].result = "succeeded" => x.result = "succeeded")
    BY <1>2, <1>3, <1>4
<1> QED BY <1>1, <1>2, <1>5, QuietKeeps DEF Interrupt, Monitor, ResolveFits

LEMMA LoadKeeps ==
    ASSUME KeyInv, NEW o \in Resolves, Load(o, TRUE) \/ Load(o, FALSE)
    PROVE  KeyInv'
<1>1. /\ BrokerTypes /\ ResolveFits(o) /\ resolve[o] \in Resolve /\ resolve[o].at = "loading"
      /\ key \in Nat /\ resolve[o].value = NoKey /\ o \in broker.physical
    BY DEF KeyInv, Load, BrokerTypes, ProvisionTypes, ResolveFits, Inside
<1> DEFINE z == ObserveCancellationAndTimeout(resolve[o])
           ends == [z EXCEPT !.at = "finishing"]
           fails == [resolve[o] EXCEPT !.at = "failing"]
           loads == [resolve[o] EXCEPT !.at = "creating", !.value = key]
<1>2. \/ resolve' = [resolve EXCEPT ![o] = ends] \/ resolve' = [resolve EXCEPT ![o] = fails]
      \/ key # NoKey /\ resolve' = [resolve EXCEPT ![o] = loads]
    BY <1>1 DEF Load, BrokerTypes
<1>3. z \in Resolve /\ z.epoch = resolve[o].epoch /\ z.value = NoKey
      /\ (resolve[o].result = "succeeded" => z.result = "succeeded")
    BY <1>1, ObservesEnd
<1>4. ends \in Resolve /\ ends.at = "finishing" /\ ends.epoch = resolve[o].epoch
      /\ ends.value = NoKey /\ (resolve[o].result = "succeeded" => ends.result = "succeeded")
    BY <1>1, <1>3 DEF Resolve, Inside
<1>5. fails \in Resolve /\ fails.at = "failing" /\ fails.epoch = resolve[o].epoch
      /\ fails.value = NoKey /\ fails.result = resolve[o].result
    BY <1>1 DEF Resolve, Inside
<1>6. loads \in Resolve /\ loads.at = "creating" /\ loads.epoch = resolve[o].epoch
      /\ loads.value = key /\ loads.result = resolve[o].result
    BY <1>1 DEF Resolve, Inside
<1> HIDE DEF ends, fails, loads
<1>7. UNCHANGED <<fresh, broker, call, provisionVars>>
    BY DEF Load
<1>8. CASE resolve' = [resolve EXCEPT ![o] = ends]
    BY <1>1, <1>4, <1>7, <1>8, QuietKeeps DEF Inside
<1>9. CASE resolve' = [resolve EXCEPT ![o] = fails]
    BY <1>1, <1>5, <1>7, <1>9, QuietKeeps DEF Inside
<1>10. CASE key # NoKey /\ resolve' = [resolve EXCEPT ![o] = loads]
    BY <1>1, <1>6, <1>7, <1>10, QuietKeeps DEF Inside
<1> QED BY <1>2, <1>8, <1>9, <1>10

LEMMA FailKeeps ==
    ASSUME KeyInv, NEW o \in Resolves, Fail(o)
    PROVE  KeyInv'
<1> DEFINE z == ObserveCancellationAndTimeout(resolve[o])
           w == Publishes(z, "failed")
           x == [w EXCEPT !.at = "finishing"]
<1>1. /\ BrokerTypes /\ ResolveFits(o) /\ resolve[o] \in Resolve /\ resolve[o].at = "failing"
      /\ o \in broker.physical
    BY DEF KeyInv, Fail, BrokerTypes, ResolveFits, Inside
<1>2. resolve' = [resolve EXCEPT ![o] = x]
    BY <1>1 DEF Fail, BrokerTypes
<1>3. /\ z \in Resolve /\ z.epoch = resolve[o].epoch /\ z.value = resolve[o].value
      /\ (resolve[o].result = "succeeded" => z.result = "succeeded")
    BY <1>1, ObservesEnd
<1>4. /\ w \in Resolve /\ w.epoch = resolve[o].epoch /\ w.value = resolve[o].value
      /\ (resolve[o].result = "succeeded" => w.result = "succeeded")
    <2> HIDE DEF z
    <2> QED BY <1>3, PublishesResult DEF Results
<1>5. /\ x \in Resolve /\ x.at = "finishing" /\ x.epoch = resolve[o].epoch
      /\ x.value = resolve[o].value /\ (resolve[o].result = "succeeded" => x.result = "succeeded")
    <2> HIDE DEF w
    <2> QED BY <1>4, MovesResolve DEF Inside
<1> HIDE DEF x
<1> QED BY <1>1, <1>2, <1>5, QuietKeeps DEF Fail, Inside

\* Admission counts the operation before it goes to the store.
LEMMA StartResolveKeeps ==
    ASSUME ThreadsAssumption, KeyInv, NEW o \in Resolves, StartResolve(o)
    PROVE  KeyInv'
<1>1. /\ BrokerTypes /\ ResolveFits(o) /\ LeaseFits(o) /\ PhysicalFits
      /\ resolve[o] \in Resolve /\ resolve[o].at = "snapshot" /\ resolve[o].value = NoKey
    BY DEF KeyInv, StartResolve, BrokerTypes, ResolveFits
<1> DEFINE place == IF Admissible(o) THEN "loading" ELSE "rejected"
           x == [resolve[o] EXCEPT !.at = place]
<1>2. resolve' = [resolve EXCEPT ![o] = x] /\ UNCHANGED <<fresh, call, provisionVars>>
    BY <1>1 DEF StartResolve, Goes, BrokerTypes
<1>3. /\ x \in Resolve /\ x.at = place /\ x.epoch = resolve[o].epoch
      /\ x.value = NoKey /\ x.result = resolve[o].result
    <2>1. place \in {"loading", "rejected"}
        OBVIOUS
    <2> HIDE DEF place
    <2> QED BY <1>1, <2>1, MovesResolve DEF Inside
<1>4. /\ resolve' \in [Resolves -> Resolve] /\ resolve'[o] = x
      /\ \A q \in Resolves : q # o => resolve'[q] = resolve[q]
    BY <1>1, <1>2, <1>3, ResolveBecomes
<1>5. /\ broker' \in [epoch : Nat, disabled : BOOLEAN, leases : SUBSET Resolves,
                      physical : SUBSET Resolves, shutdown : BOOLEAN]
      /\ broker'.physical = IF Admissible(o) THEN broker.physical \cup {o} ELSE broker.physical
      /\ broker'.epoch = broker.epoch /\ broker'.disabled = broker.disabled
      /\ broker'.leases = broker.leases /\ broker'.shutdown = broker.shutdown
    BY <1>1 DEF StartResolve, BrokerTypes
<1>6. BrokerTypes'
    BY <1>1, <1>2, <1>4, <1>5 DEF BrokerTypes
<1>7. Changed' = Changed /\ Doomed(o)' = Doomed(o)
    BY <1>2 DEF Changed, Doomed, provisionVars
<1> HIDE DEF x
<1>8. ResolveFits(o)'
    BY <1>1, <1>2, <1>3, <1>4, <1>5, <1>7 DEF ResolveFits, provisionVars, Inside
<1>9. LeaseFits(o)'
    BY <1>1, <1>2, <1>3, <1>4, <1>5, <1>7 DEF LeaseFits, provisionVars
<1>10. PhysicalFits'
    <2>1. CASE Admissible(o)
        <3>1. \A q \in broker.physical : IdOf[q] # IdOf[o]
            BY <2>1 DEF Admissible
        <3>2. IsFiniteSet(broker'.physical)
              /\ Cardinality(broker'.physical) = Cardinality(broker.physical) + 1
            <4>1. o \notin broker.physical /\ broker'.physical = broker.physical \cup {o}
                BY <1>5, <2>1, <3>1
            <4>2. IsFiniteSet(broker.physical)
                BY <1>1 DEF PhysicalFits
            <4>3. /\ IsFiniteSet(broker.physical \cup {o})
                  /\ Cardinality(broker.physical \cup {o}) = Cardinality(broker.physical) + 1
                BY <4>1, <4>2, FS_AddElement
            <4> QED BY <4>1, <4>3
        <3>3. Cardinality(broker.physical) \in Nat
              /\ Cardinality(broker.physical) < MaxConcurrentStoreOperations
            BY <1>1, <2>1, FS_CardinalityType DEF PhysicalFits, Admissible
        <3>4. Cardinality(broker'.physical) <= MaxConcurrentStoreOperations
            BY <3>2, <3>3 DEF ThreadsAssumption
        <3> QED BY <1>1, <1>5, <2>1, <3>1, <3>2, <3>4 DEF PhysicalFits
    <2>2. CASE ~Admissible(o)
        BY <1>1, <1>5, <2>2 DEF PhysicalFits
    <2> QED BY <2>1, <2>2
<1>11. Alone(o)
    BY <1>2, <1>4, <1>5 DEF Alone, provisionVars
<1> QED BY <1>6, <1>8, <1>9, <1>10, <1>11, AloneKeeps

\* A lease is made under the epoch of now, or not at all.
LEMMA CreateKeeps ==
    ASSUME KeyInv, NEW o \in Resolves, Create(o)
    PROVE  KeyInv'
<1>1. /\ BrokerTypes /\ ResolveFits(o) /\ LeaseFits(o) /\ PhysicalFits
      /\ resolve[o] \in Resolve /\ resolve[o].at = "creating" /\ o \in broker.physical
      /\ resolve[o].value # NoKey
    BY DEF KeyInv, Create, BrokerTypes, ResolveFits, Inside
<1> DEFINE kept == {q \in broker.leases : ~Spent(q)}
           fits == Current(o) /\ Cardinality(kept) < MaxActiveLeases
           z == ObserveCancellationAndTimeout(resolve[o])
           ends == [z EXCEPT !.at = "finishing"]
           reply == Publishes(resolve[o], IF Current(o) THEN "failed" ELSE "ended")
           fails == [reply EXCEPT !.at = "finishing"]
           leases == [resolve[o] EXCEPT !.at = "succeeding"]
<1>2. UNCHANGED <<call, provisionVars>>
    BY DEF Create
<1>3. z \in Resolve /\ z.epoch = resolve[o].epoch /\ z.value = resolve[o].value
      /\ (resolve[o].result = "succeeded" => z.result = "succeeded")
    BY <1>1, ObservesEnd
<1>4. reply \in Resolve /\ reply.epoch = resolve[o].epoch /\ reply.value = resolve[o].value
      /\ (resolve[o].result = "succeeded" => reply.result = "succeeded")
    BY <1>1, PublishesResult DEF Results
<1>5. ends \in Resolve /\ ends.at = "finishing" /\ ends.epoch = resolve[o].epoch
      /\ ends.value = resolve[o].value /\ (resolve[o].result = "succeeded" => ends.result = "succeeded")
    <2> HIDE DEF z
    <2> QED BY <1>3, MovesResolve DEF Inside
<1>6. fails \in Resolve /\ fails.at = "finishing" /\ fails.epoch = resolve[o].epoch
      /\ fails.value = resolve[o].value /\ (resolve[o].result = "succeeded" => fails.result = "succeeded")
    <2> HIDE DEF reply
    <2> QED BY <1>4, MovesResolve DEF Inside
<1>7. leases \in Resolve /\ leases.at = "succeeding" /\ leases.epoch = resolve[o].epoch
      /\ leases.value = resolve[o].value /\ leases.result = resolve[o].result
    BY <1>1, MovesResolve DEF Inside
<1>8. CASE Over(o)
    <2>1. resolve' = [resolve EXCEPT ![o] = ends] /\ UNCHANGED <<fresh, broker>>
        BY <1>1, <1>8 DEF Create, BrokerTypes
    <2> HIDE DEF ends
    <2> QED BY <1>1, <1>2, <1>5, <2>1, QuietKeeps DEF Inside
<1>9. CASE ~Over(o)
    <2>1. /\ broker' = [broker EXCEPT !.leases = kept \cup (IF fits THEN {o} ELSE {})]
          /\ fresh' = [fresh EXCEPT ![o] = IF fits THEN "live" ELSE fresh[o]]
          /\ resolve' = [resolve EXCEPT ![o] = IF fits THEN leases ELSE fails]
        BY <1>1, <1>9 DEF Create, BrokerTypes
    <2> DEFINE x == IF fits THEN leases ELSE fails
    <2>2. /\ x \in Resolve /\ x.at \in {"succeeding", "finishing"} /\ x.epoch = resolve[o].epoch
          /\ x.value = resolve[o].value /\ (resolve[o].result = "succeeded" => x.result = "succeeded")
          /\ fits => x.at = "succeeding"
        <3> HIDE DEF leases, fails, fits
        <3> QED BY <1>6, <1>7
    <2>3. resolve' = [resolve EXCEPT ![o] = x]
        BY <2>1
    <2> HIDE DEF x
    <2>4. /\ resolve' \in [Resolves -> Resolve] /\ resolve'[o] = x
          /\ \A q \in Resolves : q # o => resolve'[q] = resolve[q]
        BY <1>1, <2>2, <2>3, ResolveBecomes
    <2>5. /\ fresh' \in [Resolves -> {"none", "live", "used", "dead"}]
          /\ fresh'[o] = IF fits THEN "live" ELSE fresh[o]
          /\ \A q \in Resolves : q # o => fresh'[q] = fresh[q]
        BY <1>1, <2>1 DEF BrokerTypes
    <2>6. /\ broker' \in [epoch : Nat, disabled : BOOLEAN, leases : SUBSET Resolves,
                          physical : SUBSET Resolves, shutdown : BOOLEAN]
          /\ broker'.leases = kept \cup (IF fits THEN {o} ELSE {})
          /\ broker'.epoch = broker.epoch /\ broker'.disabled = broker.disabled
          /\ broker'.physical = broker.physical /\ broker'.shutdown = broker.shutdown
        BY <1>1, <2>1 DEF BrokerTypes
    <2>7. /\ \A q \in Resolves : q # o => (q \in broker'.leases <=> q \in kept)
          /\ o \in broker'.leases <=> o \in kept \/ fits
          /\ \A q \in broker.leases : fresh[q] = "live" => q \in kept
        BY <2>6 DEF Spent
    <2>8. fits => Current(o)
        OBVIOUS
    <2>9. Changed' = Changed /\ Doomed(o)' = Doomed(o)
        BY <1>2 DEF Changed, Doomed, provisionVars
    <2>10. ResolveFits(o)'
        BY <1>1, <1>2, <2>2, <2>4, <2>6, <2>9 DEF ResolveFits, provisionVars, Inside
    <2>11. LeaseFits(o)'
        <3>1. kept \subseteq broker.leases
            OBVIOUS
        <3>2. o \in broker'.leases => Current(o) /\ (x.at = "succeeding" \/ x.result = "succeeded")
            BY <1>1, <2>2, <2>7, <2>8, <3>1 DEF LeaseFits, Current
        <3>3. fresh'[o] = "live" => o \in broker'.leases \/ Doomed(o)
            BY <1>1, <2>5, <2>7 DEF LeaseFits
        <3> HIDE DEF kept, fits
        <3> QED BY <1>1, <2>2, <2>4, <2>6, <2>9, <3>2, <3>3 DEF LeaseFits, Current
    <2>12. BrokerTypes'
        BY <1>1, <1>2, <2>4, <2>5, <2>6 DEF BrokerTypes
    <2>13. PhysicalFits'
        BY <1>1, <2>6 DEF PhysicalFits
    <2>14. Alone(o)
        <3>1. kept \subseteq broker.leases
            OBVIOUS
        <3> HIDE DEF kept, fits
        <3> QED BY <1>2, <2>4, <2>5, <2>6, <2>7, <3>1 DEF Alone, provisionVars
    <2> QED BY <2>10, <2>11, <2>12, <2>13, <2>14, AloneKeeps
<1> QED BY <1>8, <1>9

\* A result that was not the first takes its lease with it.
LEMMA SucceedKeeps ==
    ASSUME KeyInv, NEW o \in Resolves, Succeed(o)
    PROVE  KeyInv'
<1>1. /\ BrokerTypes /\ ResolveFits(o) /\ LeaseFits(o) /\ PhysicalFits
      /\ resolve[o] \in Resolve /\ resolve[o].at = "succeeding" /\ o \in broker.physical
      /\ resolve[o].value # NoKey
    BY DEF KeyInv, Succeed, BrokerTypes, ResolveFits, Inside
<1> DEFINE y == IF fresh[o] = "live" THEN Publishes(resolve[o], "succeeded")
                ELSE Publishes(resolve[o], "ended")
           x == [y EXCEPT !.at = "finishing"]
           first == resolve[o].result = "none" /\ y.result = "succeeded"
<1>2. y \in Resolve /\ y.epoch = resolve[o].epoch /\ y.value = resolve[o].value
    BY <1>1, PublishesResult DEF Results
<1>3. /\ x \in Resolve /\ x.at = "finishing" /\ x.epoch = resolve[o].epoch
      /\ x.value = resolve[o].value /\ x.result = y.result
    <2> HIDE DEF y
    <2> QED BY <1>2, MovesResolve DEF Inside
<1>4. /\ resolve' = [resolve EXCEPT ![o] = x] /\ UNCHANGED <<call, provisionVars>>
      /\ IF first THEN UNCHANGED <<fresh, broker>>
         ELSE /\ broker' = [broker EXCEPT !.leases = broker.leases \ {o}]
              /\ fresh' = [fresh EXCEPT ![o] = "dead"]
    BY DEF Succeed
<1> HIDE DEF x, y
<1>5. /\ resolve' \in [Resolves -> Resolve] /\ resolve'[o] = x
      /\ \A q \in Resolves : q # o => resolve'[q] = resolve[q]
    BY <1>1, <1>3, <1>4, ResolveBecomes
<1>6. /\ fresh' \in [Resolves -> {"none", "live", "used", "dead"}]
      /\ ~first => fresh'[o] = "dead"
      /\ first => fresh'[o] = fresh[o]
      /\ \A q \in Resolves : q # o => fresh'[q] = fresh[q]
    BY <1>1, <1>4 DEF BrokerTypes
<1>7. /\ broker' \in [epoch : Nat, disabled : BOOLEAN, leases : SUBSET Resolves,
                      physical : SUBSET Resolves, shutdown : BOOLEAN]
      /\ broker'.leases = IF first THEN broker.leases ELSE broker.leases \ {o}
      /\ broker'.epoch = broker.epoch /\ broker'.disabled = broker.disabled
      /\ broker'.physical = broker.physical /\ broker'.shutdown = broker.shutdown
    <2>1. CASE first
        BY <1>1, <1>4, <2>1 DEF BrokerTypes
    <2>2. CASE ~first
        <3>1. broker' = [broker EXCEPT !.leases = broker.leases \ {o}]
            BY <1>4, <2>2
        <3> HIDE DEF first
        <3> QED BY <1>1, <2>2, <3>1 DEF BrokerTypes
    <2> QED BY <2>1, <2>2
<1>8. Changed' = Changed /\ Doomed(o)' = Doomed(o)
    BY <1>4 DEF Changed, Doomed, provisionVars
<1>9. ResolveFits(o)'
    BY <1>1, <1>3, <1>4, <1>5, <1>7, <1>8 DEF ResolveFits, provisionVars, Inside
<1>10. LeaseFits(o)'
    <2>1. CASE first
        BY <1>1, <1>3, <1>4, <1>5, <1>8, <2>1 DEF LeaseFits
    <2>2. CASE ~first
        BY <1>6, <1>7, <2>2 DEF LeaseFits
    <2> QED BY <2>1, <2>2
<1>11. BrokerTypes'
    BY <1>1, <1>4, <1>5, <1>6, <1>7 DEF BrokerTypes
<1>12. PhysicalFits'
    BY <1>1, <1>7 DEF PhysicalFits
<1>13. Alone(o)
    BY <1>4, <1>5, <1>6, <1>7 DEF Alone, provisionVars
<1> QED BY <1>9, <1>10, <1>11, <1>12, <1>13, AloneKeeps

LEMMA FinishedKeeps ==
    ASSUME ThreadsAssumption, KeyInv, NEW o \in Resolves, OnPhysicalStoreOperationFinished(o)
    PROVE  KeyInv'
<1> DEFINE x == [resolve[o] EXCEPT !.at = "over"]
<1>1. /\ BrokerTypes /\ ResolveFits(o) /\ LeaseFits(o) /\ PhysicalFits
      /\ resolve[o] \in Resolve /\ resolve[o].at = "finishing"
    BY DEF KeyInv, OnPhysicalStoreOperationFinished, BrokerTypes
<1>2. resolve' = [resolve EXCEPT ![o] = x] /\ UNCHANGED <<fresh, call, provisionVars>>
    BY <1>1 DEF OnPhysicalStoreOperationFinished, Goes, BrokerTypes
<1>3. /\ x \in Resolve /\ x.at = "over" /\ x.epoch = resolve[o].epoch
      /\ x.value = resolve[o].value /\ x.result = resolve[o].result
    BY <1>1, MovesResolve
<1>4. /\ resolve' \in [Resolves -> Resolve] /\ resolve'[o] = x
      /\ \A q \in Resolves : q # o => resolve'[q] = resolve[q]
    BY <1>1, <1>2, <1>3, ResolveBecomes
<1>5. /\ broker' \in [epoch : Nat, disabled : BOOLEAN, leases : SUBSET Resolves,
                      physical : SUBSET Resolves, shutdown : BOOLEAN]
      /\ broker'.physical = broker.physical \ {o}
      /\ broker'.epoch = broker.epoch /\ broker'.disabled = broker.disabled
      /\ broker'.leases = broker.leases /\ broker'.shutdown = broker.shutdown
    BY <1>1 DEF OnPhysicalStoreOperationFinished, BrokerTypes
<1>6. Changed' = Changed /\ Doomed(o)' = Doomed(o)
    BY <1>2 DEF Changed, Doomed, provisionVars
<1> HIDE DEF x
<1>7. ResolveFits(o)'
    BY <1>1, <1>2, <1>3, <1>4, <1>5, <1>6 DEF ResolveFits, provisionVars, Inside
<1>8. LeaseFits(o)'
    BY <1>1, <1>2, <1>3, <1>4, <1>5, <1>6 DEF LeaseFits, provisionVars
<1>9. BrokerTypes'
    BY <1>1, <1>2, <1>4, <1>5 DEF BrokerTypes
<1>10. PhysicalFits'
    <2>1. IsFiniteSet(broker'.physical)
          /\ Cardinality(broker'.physical) <= Cardinality(broker.physical)
        BY <1>1, <1>5, FS_Subset DEF PhysicalFits
    <2>2. Cardinality(broker'.physical) \in Nat /\ Cardinality(broker.physical) \in Nat
        BY <1>1, <2>1, FS_CardinalityType DEF PhysicalFits
    <2>3. Cardinality(broker'.physical) <= MaxConcurrentStoreOperations
        BY <1>1, <2>1, <2>2 DEF PhysicalFits, ThreadsAssumption
    <2> QED BY <1>1, <1>5, <2>1, <2>3 DEF PhysicalFits
<1>11. Alone(o)
    BY <1>2, <1>4, <1>5 DEF Alone, provisionVars
<1> QED BY <1>7, <1>8, <1>9, <1>10, <1>11, AloneKeeps

LEMMA UseKeeps ==
    ASSUME KeyInv, NEW o \in Resolves, Use(o)
    PROVE  KeyInv'
<1>1. BrokerTypes /\ ResolveFits(o) /\ LeaseFits(o) /\ PhysicalFits
    BY DEF KeyInv
<1>2. UNCHANGED <<resolve, broker, call, provisionVars>>
    BY DEF Use
<1>3. /\ fresh' \in [Resolves -> {"none", "live", "used", "dead"}] /\ fresh'[o] = "used"
      /\ \A q \in Resolves : q # o => fresh'[q] = fresh[q]
    BY <1>1 DEF Use, BrokerTypes
<1>4. Changed' = Changed
    BY <1>2 DEF Changed, provisionVars
<1>5. BrokerTypes' /\ PhysicalFits' /\ ResolveFits(o)' /\ LeaseFits(o)'
    BY <1>1, <1>2, <1>3, <1>4
    DEF BrokerTypes, PhysicalFits, ResolveFits, LeaseFits, provisionVars
<1>6. Alone(o)
    BY <1>2, <1>3 DEF Alone, provisionVars
<1> QED BY <1>5, <1>6, AloneKeeps

-----------------------------------------------------------------------------
(* Steps that concern every lease *)

LEMMA CountKeeps ==
    ASSUME KeyInv, GetActiveLeaseCount
    PROVE  KeyInv'
<1>1. BrokerTypes /\ PhysicalFits /\ UNCHANGED <<resolve, fresh, call, provisionVars>>
    BY DEF KeyInv, GetActiveLeaseCount
<1>2. /\ broker' \in [epoch : Nat, disabled : BOOLEAN, leases : SUBSET Resolves,
                      physical : SUBSET Resolves, shutdown : BOOLEAN]
      /\ broker'.leases = {q \in broker.leases : ~Spent(q)}
      /\ broker'.epoch = broker.epoch /\ broker'.disabled = broker.disabled
      /\ broker'.physical = broker.physical /\ broker'.shutdown = broker.shutdown
    BY <1>1 DEF GetActiveLeaseCount, BrokerTypes
<1>3. BrokerTypes' /\ ProvisionTypes' /\ CallsFit' /\ PhysicalFits'
    BY <1>1, <1>2 DEF KeyInv, BrokerTypes, ProvisionTypes, CallsFit, PhysicalFits, provisionVars
<1>4. ASSUME NEW o \in Resolves PROVE ResolveFits(o)' /\ LeaseFits(o)'
    <2>1. ResolveFits(o) /\ LeaseFits(o) /\ Changed' = Changed /\ Doomed(o)' = Doomed(o)
        BY <1>1 DEF KeyInv, Changed, Doomed, provisionVars
    <2>2. ResolveFits(o)'
        BY <1>1, <1>2, <2>1 DEF ResolveFits, provisionVars
    <2>3. LeaseFits(o)'
        BY <1>1, <1>2, <2>1 DEF LeaseFits, Spent
    <2> QED BY <2>2, <2>3
<1> QED BY <1>3, <1>4 DEF KeyInv

\* What a call does out of the lock: it tells the operations it collected, ...
LEMMA CancelOperationsKeep ==
    ASSUME KeyInv, NEW c \in Callers, CancelOperations(c)
    PROVE  KeyInv'
<1>1. /\ BrokerTypes /\ call[c].at = "cancelling"
      /\ UNCHANGED <<fresh, broker, provisionVars>>
    BY DEF KeyInv, CancelOperations
<1>2. /\ call' \in [Callers -> [at : {"out", "cancelling", "killing"},
                                cancel : SUBSET Resolves, kill : SUBSET Resolves]]
      /\ \A d \in Callers : /\ call'[d].kill = call[d].kill
                            /\ call'[d].at = "out" <=> call[d].at = "out"
    BY <1>1 DEF CancelOperations, BrokerTypes
<1>3. ASSUME NEW o \in Resolves
      PROVE  /\ resolve'[o] \in Resolve /\ resolve'[o].at = resolve[o].at
             /\ resolve'[o].epoch = resolve[o].epoch /\ resolve'[o].value = resolve[o].value
             /\ resolve[o].result = "succeeded" => resolve'[o].result = "succeeded"
    <2> DEFINE y == [resolve[o] EXCEPT !.reason = TRUE]
    <2>1. y \in Resolve /\ y.at = resolve[o].at /\ y.epoch = resolve[o].epoch
          /\ y.value = resolve[o].value /\ y.result = resolve[o].result
          /\ resolve[o] \in Resolve
        <3>1. resolve[o] \in Resolve
            BY <1>1 DEF BrokerTypes
        <3> QED BY <3>1 DEF Resolve
    <2>2. resolve'[o] = Publishes(y, "ended") \/ resolve'[o] = resolve[o]
        BY DEF CancelOperations
    <2> HIDE DEF y
    <2> QED BY <2>1, <2>2, PublishesResult DEF Results
<1>4. resolve' = [o \in Resolves |-> resolve'[o]]
    BY DEF CancelOperations
<1>5. BrokerTypes'
    BY <1>1, <1>2, <1>3, <1>4 DEF BrokerTypes
<1>6. Changed' = Changed /\ \A o \in Resolves : Doomed(o)' <=> Doomed(o)
    BY <1>1, <1>2 DEF Changed, Doomed, provisionVars
<1>7. ASSUME NEW o \in Resolves PROVE ResolveFits(o)' /\ LeaseFits(o)'
    <2>1. ResolveFits(o) /\ LeaseFits(o)
        BY DEF KeyInv
    <2>2. ResolveFits(o)'
        BY <1>1, <1>3, <1>6, <2>1 DEF ResolveFits, provisionVars
    <2>3. LeaseFits(o)'
        BY <1>1, <1>3, <1>6, <2>1 DEF LeaseFits
    <2> QED BY <2>2, <2>3
<1>8. CallsFit'
    BY <1>1, <1>2 DEF KeyInv, CallsFit, Callers, provisionVars
<1>9. ProvisionTypes' /\ PhysicalFits'
    BY <1>1 DEF KeyInv, ProvisionTypes, PhysicalFits, provisionVars
<1> QED BY <1>5, <1>7, <1>8, <1>9 DEF KeyInv

\* ... and kills the leases it took from the table.
LEMMA KillLeasesKeep ==
    ASSUME KeyInv, NEW c \in Callers, KillLeases(c)
    PROVE  KeyInv'
<1>1. BrokerTypes /\ UNCHANGED <<resolve, broker, provisionVars>>
    BY DEF KeyInv, KillLeases
<1>2. NoCall \in [at : {"out", "cancelling", "killing"}, cancel : SUBSET Resolves,
                  kill : SUBSET Resolves] /\ NoCall.at = "out"
    BY DEF NoCall
<1>3. /\ call' \in [Callers -> [at : {"out", "cancelling", "killing"},
                                cancel : SUBSET Resolves, kill : SUBSET Resolves]]
      /\ call'[c].at = "out" /\ \A d \in Callers : d # c => call'[d] = call[d]
    BY <1>1, <1>2 DEF KillLeases, BrokerTypes
<1>4. /\ fresh' \in [Resolves -> {"none", "live", "used", "dead"}]
      /\ \A o \in Resolves : fresh'[o] = "live" => fresh[o] = "live" /\ o \notin call[c].kill
    BY <1>1 DEF KillLeases, BrokerTypes
<1>5. BrokerTypes'
    BY <1>1, <1>3, <1>4 DEF BrokerTypes
<1>6. ASSUME NEW o \in Resolves PROVE ResolveFits(o)' /\ LeaseFits(o)'
    <2>1. ResolveFits(o) /\ LeaseFits(o) /\ Changed' = Changed
        BY <1>1 DEF KeyInv, Changed, provisionVars
    <2>2. Doomed(o) /\ o \notin call[c].kill => Doomed(o)'
        BY <1>3 DEF Doomed
    <2>3. ResolveFits(o)'
        BY <1>1, <2>1 DEF ResolveFits, provisionVars
    <2>4. LeaseFits(o)'
        BY <1>1, <1>4, <2>1, <2>2 DEF LeaseFits
    <2> QED BY <2>3, <2>4
<1>7. CallsFit'
    <2>1. \A d \in Callers : call[d].at = "out" => call'[d].at = "out"
        BY <1>3
    <2> QED BY <1>1, <2>1 DEF KeyInv, CallsFit, Callers, provisionVars
<1>8. ProvisionTypes' /\ PhysicalFits'
    BY <1>1 DEF KeyInv, ProvisionTypes, PhysicalFits, provisionVars
<1> QED BY <1>5, <1>6, <1>7, <1>8 DEF KeyInv

-----------------------------------------------------------------------------
(* Invalidation and shutdown *)

\* Under the lock caller c empties the table into its own hands; the epoch moves, or the
\* broker is shut down.
LEMMA EmptiedKeeps ==
    ASSUME BrokerTypes, BrokerTypes', PhysicalFits, NEW c \in Callers,
           \A o \in Resolves : ResolveFits(o) /\ LeaseFits(o),
           call[c].at = "out", call'[c].at # "out", call'[c].kill = broker.leases,
           \A d \in Callers : d # c => call'[d] = call[d],
           broker'.leases = {}, broker'.physical = broker.physical,
           \/ broker'.epoch = broker.epoch + 1
           \/ broker'.epoch = broker.epoch /\ broker'.shutdown,
           UNCHANGED <<resolve, fresh>>
    PROVE  (\A o \in Resolves : ResolveFits(o)' /\ LeaseFits(o)') /\ PhysicalFits'
<1>1. PhysicalFits'
    BY DEF PhysicalFits
<1>2. ASSUME NEW o \in Resolves PROVE ResolveFits(o)' /\ LeaseFits(o)'
    <2>1. ResolveFits(o) /\ LeaseFits(o) /\ broker.epoch \in Nat /\ resolve[o].epoch \in Nat
        BY DEF BrokerTypes, Resolve
    <2>2. o \in broker.leases => Doomed(o)'
        BY DEF Doomed
    <2>3. Doomed(o) => Doomed(o)'
        BY DEF Doomed
    <2>4. ResolveFits(o)'
        BY <2>1 DEF ResolveFits
    <2>5. LeaseFits(o)'
        BY <2>1, <2>2, <2>3 DEF LeaseFits
    <2> QED BY <2>4, <2>5
<1> QED BY <1>1, <1>2

LEMMA InvalidateMatchingKeeps ==
    ASSUME BrokerTypes, PhysicalFits, NEW c \in Callers, NEW disable \in BOOLEAN,
           \A o \in Resolves : ResolveFits(o) /\ LeaseFits(o),
           call[c].at = "out", InvalidateMatching(c, disable), ~broker.shutdown,
           UNCHANGED <<resolve, fresh>>
    PROVE  /\ BrokerTypes' /\ PhysicalFits'
           /\ \A o \in Resolves : ResolveFits(o)' /\ LeaseFits(o)'
           /\ ~broker'.shutdown /\ \A d \in Callers : d # c => call'[d] = call[d]
<1>1. /\ broker' \in [epoch : Nat, disabled : BOOLEAN, leases : SUBSET Resolves,
                      physical : SUBSET Resolves, shutdown : BOOLEAN]
      /\ broker'.leases = {} /\ broker'.epoch = broker.epoch + 1
      /\ broker'.physical = broker.physical /\ broker'.shutdown = broker.shutdown
    <2>1. PICK disabled \in BOOLEAN :
              broker' = [broker EXCEPT !.epoch = broker.epoch + 1, !.leases = {},
                                       !.disabled = disabled]
        <3>1. (broker.disabled \/ disable) \in BOOLEAN
            OBVIOUS
        <3>2. broker' = [broker EXCEPT !.epoch = broker.epoch + 1, !.leases = {},
                                       !.disabled = (broker.disabled \/ disable)]
            BY Zenon DEF InvalidateMatching
        <3> DEFINE d == broker.disabled \/ disable
        <3> HIDE DEF d
        <3>3. d \in BOOLEAN
            BY <3>1 DEF d
        <3>4. broker' = [broker EXCEPT !.epoch = broker.epoch + 1, !.leases = {},
                                       !.disabled = d]
            BY <3>2 DEF d
        <3> QED BY Zenon, <3>3, <3>4
    <2>2. broker \in [epoch : Nat, disabled : BOOLEAN, leases : SUBSET Resolves,
                      physical : SUBSET Resolves, shutdown : BOOLEAN]
        BY DEF BrokerTypes
    <2>3. broker.epoch + 1 \in Nat
        BY <2>2
    <2>4. broker' \in [epoch : Nat, disabled : BOOLEAN, leases : SUBSET Resolves,
                      physical : SUBSET Resolves, shutdown : BOOLEAN]
        BY <2>1, <2>2, <2>3
    <2>5. /\ broker'.leases = {} /\ broker'.epoch = broker.epoch + 1
          /\ broker'.physical = broker.physical /\ broker'.shutdown = broker.shutdown
        BY <2>1, <2>2
    <2> QED BY <2>4, <2>5
<1> DEFINE mine == [at |-> "cancelling", cancel |-> broker.physical, kill |-> broker.leases]
<1>2. mine \in [at : {"out", "cancelling", "killing"}, cancel : SUBSET Resolves,
                kill : SUBSET Resolves]
    BY DEF BrokerTypes
<1>3. call' = [call EXCEPT ![c] = mine]
    BY DEF InvalidateMatching
<1>4. mine.at # "out" /\ mine.kill = broker.leases
    OBVIOUS
<1> HIDE DEF mine
<1>5. /\ call' \in [Callers -> [at : {"out", "cancelling", "killing"},
                                cancel : SUBSET Resolves, kill : SUBSET Resolves]]
      /\ call'[c] = mine /\ \A d \in Callers : d # c => call'[d] = call[d]
    BY <1>2, <1>3 DEF BrokerTypes
<1>6. BrokerTypes'
    BY <1>1, <1>5 DEF BrokerTypes
<1> QED BY <1>1, <1>4, <1>5, <1>6, EmptiedKeeps

LEMMA QuarantineKeeps ==
    ASSUME ThreadsAssumption, KeyInv, NEW c \in Callers, QuarantineAccount(c)
    PROVE  KeyInv'
<1>1. /\ c \in Administrators /\ call[c].at = "out" /\ InvalidateMatching(c, TRUE)
      /\ UNCHANGED <<resolve, fresh, provisionVars>>
      /\ BrokerTypes /\ ProvisionTypes /\ PhysicalFits /\ CallsFit
      /\ \A o \in Resolves : ResolveFits(o) /\ LeaseFits(o)
    BY DEF KeyInv, QuarantineAccount
<1>2. ProvisionTypes'
    BY <1>1 DEF ProvisionTypes, provisionVars
<1>3. CASE broker.shutdown
    <2>1. UNCHANGED <<broker, call>>
        BY <1>1, <1>3 DEF InvalidateMatching
    <2> QED BY <1>1, <1>2, <2>1
            DEF KeyInv, BrokerTypes, ResolveFits, LeaseFits, PhysicalFits, CallsFit, Changed,
            Doomed, provisionVars
<1>4. CASE ~broker.shutdown
    <2>1. /\ BrokerTypes' /\ PhysicalFits' /\ \A o \in Resolves : ResolveFits(o)' /\ LeaseFits(o)'
          /\ \A d \in Callers : d # c => call'[d] = call[d]
          /\ ~broker'.shutdown
        BY <1>1, <1>4, InvalidateMatchingKeeps
    <2>2. CallsFit'
        BY <1>1, <1>4, <2>1 DEF CallsFit, Callers, provisionVars, ThreadsAssumption
    <2> QED BY <1>2, <2>1, <2>2 DEF KeyInv
<1> QED BY <1>3, <1>4

LEMMA BeginShutdownKeeps ==
    ASSUME ThreadsAssumption, KeyInv, BeginShutdown
    PROVE  KeyInv'
<1> DEFINE c == "shutdown"
           mine == [at |-> "cancelling", cancel |-> broker.physical, kill |-> broker.leases]
<1>1. /\ UNCHANGED <<resolve, fresh, provisionVars>> /\ c \in Callers /\ call[c].at = "out"
      /\ BrokerTypes /\ ProvisionTypes /\ PhysicalFits /\ CallsFit
      /\ \A o \in Resolves : ResolveFits(o) /\ LeaseFits(o)
    BY DEF KeyInv, BeginShutdown, Callers, CallsFit
<1>2. /\ broker' \in [epoch : Nat, disabled : BOOLEAN, leases : SUBSET Resolves,
                      physical : SUBSET Resolves, shutdown : BOOLEAN]
      /\ broker'.leases = {} /\ broker'.epoch = broker.epoch
      /\ broker'.physical = broker.physical /\ broker'.shutdown
    BY <1>1 DEF BeginShutdown, BrokerTypes
<1>3. mine \in [at : {"out", "cancelling", "killing"}, cancel : SUBSET Resolves,
                kill : SUBSET Resolves] /\ mine.at # "out" /\ mine.kill = broker.leases
    BY <1>1 DEF BrokerTypes
<1>4. call' = [call EXCEPT ![c] = mine]
    BY DEF BeginShutdown
<1> HIDE DEF mine
<1>5. /\ call' \in [Callers -> [at : {"out", "cancelling", "killing"},
                                cancel : SUBSET Resolves, kill : SUBSET Resolves]]
      /\ call'[c] = mine /\ \A d \in Callers : d # c => call'[d] = call[d]
    BY <1>1, <1>3, <1>4 DEF BrokerTypes
<1>6. BrokerTypes'
    BY <1>1, <1>2, <1>5 DEF BrokerTypes
<1>7. (\A o \in Resolves : ResolveFits(o)' /\ LeaseFits(o)') /\ PhysicalFits'
    BY <1>1, <1>2, <1>3, <1>5, <1>6, EmptiedKeeps
<1>8. CallsFit'
    BY <1>1, <1>2, <1>5 DEF CallsFit, Callers, provisionVars, ThreadsAssumption
<1>9. ProvisionTypes'
    BY <1>1 DEF ProvisionTypes, provisionVars
<1> QED BY <1>6, <1>7, <1>8, <1>9 DEF KeyInv

LEMMA ProvisionerShutdownKeeps ==
    ASSUME ThreadsAssumption, KeyInv, BeginProvisionerShutdown
    PROVE  KeyInv'
<1> DEFINE c == "provisioner"
<1>1. /\ UNCHANGED <<resolve, fresh, provision, listed, key, written>>
      /\ c \in Callers /\ call[c].at = "out" /\ InvalidateMatching(c, FALSE) /\ FALSE \in BOOLEAN
      /\ closing' = [begun |-> TRUE, pending |-> listed]
      /\ BrokerTypes /\ ProvisionTypes /\ PhysicalFits /\ CallsFit
      /\ \A o \in Resolves : ResolveFits(o) /\ LeaseFits(o)
    BY DEF KeyInv, BeginProvisionerShutdown, Callers, CallsFit
<1>2. ProvisionTypes' /\ closing'.begun
    BY <1>1 DEF ProvisionTypes
<1>3. CASE broker.shutdown
    <2>1. UNCHANGED <<broker, call>>
        BY <1>1, <1>3 DEF InvalidateMatching
    <2>2. CallsFit'
        BY <1>1, <1>2, <2>1 DEF CallsFit
    <2> QED BY <1>1, <1>2, <2>1, <2>2
            DEF KeyInv, BrokerTypes, ResolveFits, LeaseFits, PhysicalFits, Changed, Doomed
<1>4. CASE ~broker.shutdown
    <2>1. /\ BrokerTypes' /\ PhysicalFits' /\ \A o \in Resolves : ResolveFits(o)' /\ LeaseFits(o)'
          /\ \A d \in Callers : d # c => call'[d] = call[d]
          /\ ~broker'.shutdown
        BY <1>1, <1>4, InvalidateMatchingKeeps
    <2>2. CallsFit'
        BY <1>1, <1>2, <1>4, <2>1 DEF CallsFit, Callers, ThreadsAssumption
    <2> QED BY <1>2, <2>1, <2>2 DEF KeyInv
<1> QED BY <1>3, <1>4

-----------------------------------------------------------------------------
(* The provisioner *)

\* Its own steps keep what the broker relies on: a change of the key is announced, and
\* nothing but the announcement ends it.
LEMMA ProvisionBecomes ==
    ASSUME KeyInv, NEW p \in Provisions, NEW x \in Provision,
           provision' = [provision EXCEPT ![p] = x], UNCHANGED brokerVars,
           provision[p].at = "changing" => x.at = "changing",
           provision[p].at = "telling" => x.at = "telling" \/ call[p].at = "out",
           key' = key \/ x.at = "changing",
           key' \in Nat, written' \in Nat, listed' \subseteq Provisions,
           closing' \in [begun : BOOLEAN, pending : SUBSET Provisions],
           closing.begun => closing'.begun
    PROVE  KeyInv'
<1>1. /\ provision' \in [Provisions -> Provision] /\ provision'[p] = x
      /\ \A q \in Provisions : q # p => provision'[q] = provision[q]
    BY DEF KeyInv, ProvisionTypes
<1>2. ProvisionTypes' /\ BrokerTypes' /\ PhysicalFits'
    BY <1>1 DEF KeyInv, ProvisionTypes, BrokerTypes, PhysicalFits, brokerVars
<1>3. (Changed => Changed') /\ (key' = key \/ Changed')
    BY <1>1 DEF Changed
<1>4. ASSUME NEW o \in Resolves PROVE ResolveFits(o)' /\ LeaseFits(o)'
    <2>1. ResolveFits(o) /\ LeaseFits(o) /\ Doomed(o)' = Doomed(o)
        BY DEF KeyInv, brokerVars, Doomed
    <2>2. ResolveFits(o)'
        BY <1>3, <2>1 DEF ResolveFits, brokerVars
    <2>3. LeaseFits(o)'
        BY <2>1 DEF LeaseFits, brokerVars
    <2> QED BY <2>2, <2>3
<1>5. CallsFit'
    BY <1>1 DEF KeyInv, CallsFit, brokerVars
<1> QED BY <1>2, <1>4, <1>5 DEF KeyInv

LEMMA PublishesProvisionResult ==
    ASSUME NEW x \in Provision, NEW result \in Results
    PROVE  Publishes(x, result) \in Provision /\ Publishes(x, result).at = x.at
BY DEF Publishes, Provision

\* The caller is told, and its operation leaves the list.
LEMMA ToldKeeps ==
    ASSUME KeyInv, NEW p \in Provisions, NEW x \in Provision, NEW result \in Results,
           Told(p, x, result), UNCHANGED <<brokerVars, key, written>>,
           provision[p].at = "changing" => x.at = "changing",
           provision[p].at = "telling" => x.at = "telling" \/ call[p].at = "out",
           closing' \in [begun : BOOLEAN, pending : SUBSET Provisions],
           closing.begun => closing'.begun
    PROVE  KeyInv'
<1> DEFINE y == Publishes(x, result)
<1>1. y \in Provision /\ y.at = x.at
    BY PublishesProvisionResult
<1>2. /\ provision' = [provision EXCEPT ![p] = y] /\ listed' \subseteq Provisions
      /\ key' \in Nat /\ written' \in Nat
    BY DEF Told, KeyInv, ProvisionTypes
<1> HIDE DEF y
<1> QED BY <1>1, <1>2, ProvisionBecomes

LEMMA ProvisionStepsKeep ==
    ASSUME KeyInv, NEW p \in Provisions, NEW b \in BOOLEAN, NEW done \in BOOLEAN,
           \/ StartProvision(p, b) \/ LoadRevision(p, b) \/ Mutate(p, b, done)
           \/ CancelProvision(p) \/ ShutdownCancels(p) \/ PublishProvision(p)
    PROVE  KeyInv'
<1> DEFINE prov == provision[p]
<1>1. /\ prov \in Provision /\ key \in Nat /\ written \in Nat /\ listed \subseteq Provisions
      /\ closing \in [begun : BOOLEAN, pending : SUBSET Provisions]
      /\ provision \in [Provisions -> Provision]
    BY DEF KeyInv, ProvisionTypes
<1>2. CASE StartProvision(p, b)
    <2> DEFINE room == ~closing.begun /\ Cardinality(listed) < MaximumConcurrentOperations
               place == IF room THEN "loading" ELSE "rejected"
               x == [prov EXCEPT !.at = place, !.delete = b, !.secret = ~b]
    <2>1. x \in Provision
        BY <1>1 DEF Provision
    <2>2. provision' = [provision EXCEPT ![p] = x]
        BY <1>1, <1>2 DEF StartProvision
    <2>3. listed' \subseteq Provisions /\ UNCHANGED <<brokerVars, closing, key, written>>
          /\ prov.at = "new"
        BY <1>1, <1>2 DEF StartProvision
    <2> HIDE DEF x
    <2> QED BY <1>1, <2>1, <2>2, <2>3, ProvisionBecomes
<1>3. CASE LoadRevision(p, b)
    <2> DEFINE x == [prov EXCEPT !.found = key, !.at = "mutating"]
               ends == [x EXCEPT !.at = "over"]
               gone == key = NoKey /\ x.delete
               goes == [x EXCEPT !.answer = IF gone THEN "deleted" ELSE x.answer,
                                 !.at = IF gone THEN "changing" ELSE x.at]
    <2>1. x \in Provision
        BY <1>1 DEF Provision
    <2>2. ends \in Provision
        <3> HIDE DEF x
        <3> QED BY <2>1 DEF Provision
    <2>3. goes \in Provision
        <3> HIDE DEF x
        <3> QED BY <2>1 DEF Provision, Results
    <2>4. /\ UNCHANGED <<brokerVars, closing, key, written>> /\ prov.at = "loading"
          /\ \/ Told(p, ends, "ended") \/ Told(p, ends, "failed")
             \/ provision' = [provision EXCEPT ![p] = goes] /\ UNCHANGED listed
        BY <1>3 DEF LoadRevision
    <2> HIDE DEF goes, ends
    <2>5. CASE Told(p, ends, "ended") \/ Told(p, ends, "failed")
        BY <1>1, <2>2, <2>4, <2>5, ToldKeeps DEF Results
    <2>6. CASE provision' = [provision EXCEPT ![p] = goes] /\ UNCHANGED listed
        BY <1>1, <2>3, <2>4, <2>6, ProvisionBecomes
    <2> QED BY <2>4, <2>5, <2>6
<1>4. CASE Mutate(p, b, done)
    <2> DEFINE fits == key = prov.found
               answer == IF b \/ ~fits THEN "failed" ELSE IF prov.delete THEN "deleted" ELSE "stored"
               x == [prov EXCEPT !.at = "changing", !.secret = FALSE, !.answer = answer]
    <2>1. CASE ~prov.delete /\ ~prov.secret
        <3> DEFINE ends == [prov EXCEPT !.at = "over"]
        <3>1. ends \in Provision
            BY <1>1 DEF Provision
        <3>2. /\ Told(p, ends, "ended") /\ UNCHANGED <<brokerVars, closing, key, written>>
              /\ prov.at = "mutating"
            BY <1>4, <2>1 DEF Mutate
        <3> HIDE DEF ends
        <3> QED BY <1>1, <3>1, <3>2, ToldKeeps DEF Results
    <2>2. CASE ~(~prov.delete /\ ~prov.secret)
        <3>1. x \in Provision /\ x.at = "changing"
            BY <1>1 DEF Provision, Results
        <3>2. /\ provision' = [provision EXCEPT ![p] = x]
              /\ UNCHANGED <<brokerVars, closing, listed>> /\ prov.at = "mutating"
            BY <1>1, <1>4, <2>2 DEF Mutate
        <3>3. key' \in Nat /\ written' \in Nat
            BY <1>1, <1>4, <2>2 DEF Mutate, NoKey
        <3> HIDE DEF x
        <3> QED BY <1>1, <3>1, <3>2, <3>3, ProvisionBecomes
    <2> QED BY <2>1, <2>2
<1>5. CASE CancelProvision(p) \/ ShutdownCancels(p)
    <2> DEFINE x == [prov EXCEPT !.secret = FALSE]
    <2>1. x \in Provision /\ x.at = prov.at
        BY <1>1 DEF Provision
    <2>2. /\ Told(p, x, "ended") /\ UNCHANGED <<brokerVars, key, written>>
          /\ closing' = closing \/ closing' = [closing EXCEPT !.pending = closing.pending \ {p}]
        BY <1>5 DEF CancelProvision, ShutdownCancels
    <2>3. closing' \in [begun : BOOLEAN, pending : SUBSET Provisions]
          /\ (closing.begun => closing'.begun)
        BY <1>1, <2>2
    <2> HIDE DEF x
    <2> QED BY <2>1, <2>2, <2>3, ToldKeeps DEF Results
<1>6. CASE PublishProvision(p)
    <2> DEFINE x == [prov EXCEPT !.at = "over"]
    <2>1. x \in Provision /\ prov.answer \in Results
        BY <1>1 DEF Provision
    <2>2. /\ Told(p, x, prov.answer) /\ UNCHANGED <<brokerVars, closing, key, written>>
          /\ prov.at = "telling" /\ call[p].at = "out"
        BY <1>6 DEF PublishProvision
    <2> HIDE DEF x
    <2> QED BY <1>1, <2>1, <2>2, ToldKeeps
<1> QED BY <1>2, <1>3, <1>4, <1>5, <1>6

\* The announcement moves the epoch, so that nothing loaded before counts as current.
LEMMA CredentialChangedKeeps ==
    ASSUME ThreadsAssumption, KeyInv, NEW p \in Provisions, CredentialChanged(p)
    PROVE  KeyInv'
<1> DEFINE x == [provision[p] EXCEPT !.at = "telling"]
<1>1. /\ provision[p].at = "changing" /\ InvalidateMatching(p, FALSE)
      /\ UNCHANGED <<resolve, fresh, listed, closing, key, written>>
      /\ provision' = [provision EXCEPT ![p] = x]
      /\ BrokerTypes /\ ProvisionTypes /\ PhysicalFits /\ CallsFit
      /\ \A o \in Resolves : ResolveFits(o) /\ LeaseFits(o)
    BY DEF KeyInv, CredentialChanged, ProvisionTypes
<1>2. p \in Callers /\ call[p].at = "out" /\ FALSE \in BOOLEAN
    BY <1>1 DEF Callers, CallsFit
<1>3. x \in Provision /\ x.at = "telling"
    BY <1>1 DEF ProvisionTypes, Provision
<1> HIDE DEF x
<1>4. /\ provision' \in [Provisions -> Provision] /\ provision'[p].at = "telling"
      /\ \A q \in Provisions : q # p => provision'[q] = provision[q]
    BY <1>1, <1>3 DEF ProvisionTypes
<1>5. ProvisionTypes'
    BY <1>1, <1>4 DEF ProvisionTypes
<1>6. CASE broker.shutdown
    <2>1. UNCHANGED <<broker, call>>
        BY <1>1, <1>6 DEF InvalidateMatching
    <2>2. BrokerTypes' /\ PhysicalFits' /\ CallsFit'
        BY <1>1, <1>4, <2>1 DEF BrokerTypes, PhysicalFits, CallsFit
    <2>3. \A o \in Resolves : ResolveFits(o)' /\ LeaseFits(o)'
        BY <1>1, <1>6, <2>1 DEF ResolveFits, LeaseFits, Doomed
    <2> QED BY <1>5, <2>2, <2>3 DEF KeyInv
<1>7. CASE ~broker.shutdown
    <2>1. /\ BrokerTypes' /\ PhysicalFits' /\ \A o \in Resolves : ResolveFits(o)' /\ LeaseFits(o)'
          /\ \A d \in Callers : d # p => call'[d] = call[d]
          /\ ~broker'.shutdown
        BY <1>1, <1>2, <1>7, InvalidateMatchingKeeps
    <2>2. CallsFit'
        BY <1>1, <1>4, <1>7, <2>1 DEF CallsFit, Callers, ThreadsAssumption
    <2> QED BY <1>5, <2>1, <2>2 DEF KeyInv
<1> QED BY <1>6, <1>7

-----------------------------------------------------------------------------

LEMMA InitHolds == ThreadsAssumption /\ Init => KeyInv
<1> SUFFICES ASSUME ThreadsAssumption, Init PROVE KeyInv
    OBVIOUS
<1>1. /\ NewResolve \in Resolve /\ NewResolve.at = "new" /\ NewResolve.value = NoKey
      /\ NewResolve.epoch = 0
    BY DEF NewResolve, Resolve, Results, NoKey
<1>2. NewProvision \in Provision /\ NewProvision.at = "new"
    BY DEF NewProvision, Provision, Results, NoKey
<1>3. NoCall.at = "out" /\ NoCall \in [at : {"out", "cancelling", "killing"},
                                       cancel : SUBSET Resolves, kill : SUBSET Resolves]
    BY DEF NoCall
<1>4. BrokerTypes /\ ProvisionTypes
    BY <1>1, <1>2, <1>3 DEF Init, BrokerTypes, ProvisionTypes, NoKey
<1>5. \A o \in Resolves : ResolveFits(o) /\ LeaseFits(o)
    BY <1>1 DEF Init, ResolveFits, LeaseFits, Inside
<1>6. CallsFit
    BY <1>3 DEF Init, CallsFit, Callers
<1>7. PhysicalFits
    BY FS_EmptySet DEF Init, PhysicalFits, ThreadsAssumption
<1> QED BY <1>4, <1>5, <1>6, <1>7 DEF KeyInv

LEMMA StepKeeps == ASSUME ThreadsAssumption, KeyInv, [Next]_vars PROVE KeyInv'
<1>1. CASE UNCHANGED vars
    BY <1>1
    DEF vars, KeyInv, BrokerTypes, ProvisionTypes, ResolveFits, LeaseFits, CallsFit, PhysicalFits,
        Changed, Doomed
<1>2. ASSUME NEW o \in Resolves, NEW fails \in BOOLEAN, Load(o, fails) PROVE KeyInv'
    <2>1. CASE fails = TRUE
        BY <1>2, <2>1, LoadKeeps
    <2>2. CASE fails = FALSE
        BY <1>2, <2>2, LoadKeeps
    <2> QED BY <2>1, <2>2
<1>3. ASSUME NEW o \in Resolves,
             \/ TakeEpochs(o) \/ StartResolve(o) \/ Interrupt(o) \/ Monitor(o)
             \/ Fail(o) \/ Create(o) \/ Succeed(o) \/ Use(o)
             \/ OnPhysicalStoreOperationFinished(o)
      PROVE  KeyInv'
    BY <1>3, TakeEpochsKeeps, StartResolveKeeps, InterruptKeeps, FailKeeps, CreateKeeps,
       SucceedKeeps, UseKeeps, FinishedKeeps
<1>4. ASSUME NEW c \in Callers, QuarantineAccount(c) \/ CancelOperations(c) \/ KillLeases(c)
      PROVE  KeyInv'
    BY <1>4, QuarantineKeeps, CancelOperationsKeep, KillLeasesKeep
<1>5. ASSUME NEW p \in Provisions, NEW b \in BOOLEAN, NEW done \in BOOLEAN,
             \/ StartProvision(p, b) \/ LoadRevision(p, b) \/ Mutate(p, b, done)
             \/ CancelProvision(p) \/ ShutdownCancels(p) \/ PublishProvision(p)
      PROVE  KeyInv'
    BY <1>5, ProvisionStepsKeep
<1>6. TRUE \in BOOLEAN
    OBVIOUS
<1> QED
    BY <1>1, <1>2, <1>3, <1>4, <1>5, <1>6, CredentialChangedKeeps, CountKeeps,
       BeginShutdownKeeps, ProvisionerShutdownKeeps
    DEF Next

LEMMA KeyInvariant == ASSUME ThreadsAssumption PROVE Spec => []KeyInv
<1>1. Init => KeyInv
    BY InitHolds
<1>2. KeyInv /\ [Next]_vars => KeyInv'
    BY StepKeeps
<1> QED BY <1>1, <1>2, PTL DEF Spec

\* A lease in hand holds the stored key, unless the call that changed it is on its way.
THEOREM LeasesHoldTheKey == ASSUME ThreadsAssumption PROVE Spec => []LeasedKeyIsStored
<1>1. ASSUME KeyInv PROVE LeasedKeyIsStored
    <2> SUFFICES ASSUME NEW o \in Resolves, Leased(o)
                 PROVE  \/ resolve[o].value = key \/ \E p \in Provisions : Changing(p)
                        \/ \E c \in Callers : call[c].at # "out" /\ o \in call[c].kill
        BY DEF LeasedKeyIsStored
    <2>1. ResolveFits(o) /\ LeaseFits(o) /\ fresh[o] = "live"
        BY <1>1 DEF KeyInv, Leased
    <2>2. Changed => \E p \in Provisions : Changing(p)
        BY DEF Changed, Changing
    <2> QED BY <2>1, <2>2 DEF ResolveFits, LeaseFits, Doomed
<1> QED BY <1>1, KeyInvariant, PTL

\* No lease of a quarantined account or of a broker shut down outlives the call.
THEOREM RevokedKeysDie == ASSUME ThreadsAssumption PROVE Spec => []RevokedKeyIsDead
<1>1. KeyInv => RevokedKeyIsDead
    BY DEF KeyInv, LeaseFits, RevokedKeyIsDead, Leased, Doomed
<1> QED BY <1>1, KeyInvariant, PTL

\* A result that lost to a cancellation does not use up the table of leases.
THEOREM TableIsExact == ASSUME ThreadsAssumption PROVE Spec => []TableHoldsLeases
<1>1. KeyInv => TableHoldsLeases
    BY DEF KeyInv, BrokerTypes, LeaseFits, TableHoldsLeases
<1> QED BY <1>1, KeyInvariant, PTL

\* The store is never called by more threads than allowed, or twice for one identifier,
\* also when callers gave up.
THEOREM StoreCallsBounded == ASSUME ThreadsAssumption PROVE Spec => []StoreCallsAreBounded
<1>1. ASSUME KeyInv PROVE StoreCallsAreBounded
    <2> DEFINE inside == {o \in Resolves : resolve[o].at \in {"loading", "failing", "creating"}}
    <2>1. inside \subseteq broker.physical
        BY <1>1 DEF KeyInv, ResolveFits, Inside
    <2>2. PhysicalFits
        BY <1>1 DEF KeyInv
    <2>3. IsFiniteSet(inside) /\ Cardinality(inside) <= Cardinality(broker.physical)
        BY <2>1, <2>2, FS_Subset DEF PhysicalFits
    <2>4. Cardinality(inside) \in Nat /\ Cardinality(broker.physical) \in Nat
        BY <2>2, <2>3, FS_CardinalityType DEF PhysicalFits
    <2>5. Cardinality(inside) <= MaxConcurrentStoreOperations
        BY <2>2, <2>3, <2>4 DEF PhysicalFits, ThreadsAssumption
    <2>6. \A o, q \in inside : IdOf[o] = IdOf[q] => o = q
        BY <2>1, <2>2 DEF PhysicalFits
    <2> QED BY <2>5, <2>6 DEF StoreCallsAreBounded
<1> QED BY <1>1, KeyInvariant, PTL

=============================================================================
