--------------------------- MODULE ApiKeyCredentials ---------------------------
(***************************************************************************)
(* One API key: the broker that leases it and the provisioner that stores  *)
(* and deletes it, over one secure store.  Every step is one critical      *)
(* section of the broker's or the provisioner's mutex, one store call, or  *)
(* what a thread does once out of the lock.                                *)
(***************************************************************************)
EXTENDS Naturals, FiniteSets

CONSTANTS Resolves,                     \* bound: the calls of StartResolve
          IdOf,                         \* their request identifiers
          Provisions,                   \* bound: stores and deletes
          Administrators,               \* threads that quarantine the account
          Interruptible,                \* resolves and provisions that are cancelled
          MaxConcurrentStoreOperations, \* of the broker
          MaxActiveLeases,
          MaximumConcurrentOperations   \* of the provisioner

Callers == Provisions \cup Administrators \cup {"shutdown", "provisioner"}
NoKey == 0

VARIABLES resolve,   \* operations of the broker
          fresh,     \* the freshness source of each
          broker,    \* epoch, DisabledAccounts, ActiveLeases, ids, Operations, bShutdown
          call,      \* callers inside an invalidation or the shutdown of the broker
          provision, \* operations of the provisioner
          listed,    \* the provisioner's Operations
          closing,   \* its bShuttingDown, and what its shutdown still cancels
          key,       \* the stored value, NoKey for none
          written    \* the values written so far

vars == <<resolve, fresh, broker, call, provision, listed, closing, key, written>>

NewResolve == [at |-> "new", epoch |-> 0, value |-> NoKey, reason |-> FALSE, result |-> "none"]
NewProvision == [at |-> "new", delete |-> FALSE, found |-> NoKey,
                 secret |-> TRUE, answer |-> "none", result |-> "none"]
NoCall == [at |-> "out", cancel |-> {}, kill |-> {}]

Init ==
    /\ resolve = [o \in Resolves |-> NewResolve]
    /\ fresh = [o \in Resolves |-> "none"]
    /\ broker = [epoch |-> 0, disabled |-> FALSE, leases |-> {}, physical |-> {},
                 shutdown |-> FALSE]
    /\ call = [c \in Callers |-> NoCall]
    /\ provision = [p \in Provisions |-> NewProvision]
    /\ listed = {}
    /\ closing = [begun |-> FALSE, pending |-> {}]
    /\ key \in {NoKey, 1}
    /\ written = key

brokerVars == <<resolve, fresh, broker, call>>
provisionVars == <<provision, listed, closing, key, written>>

-----------------------------------------------------------------------------
(* The broker: a resolve *)

Goes(o, place) == resolve' = [resolve EXCEPT ![o].at = place]

\* TryPublish: the first result is the sink's.
Publishes(x, result) == IF x.result = "none" THEN [x EXCEPT !.result = result] ELSE x

Current(o) == ~broker.shutdown /\ ~broker.disabled /\ broker.epoch = resolve[o].epoch

\* StartResolve takes the lock twice: for the epochs, then to be admitted.
TakeEpochs(o) ==
    /\ resolve[o].at = "new"
    /\ resolve' = [resolve EXCEPT ![o].epoch = broker.epoch,
                      ![o].at = IF broker.shutdown \/ broker.disabled THEN "rejected"
                                ELSE "snapshot"]
    /\ UNCHANGED <<fresh, broker, call, provisionVars>>

\* Mutant: an identifier is free once its result is out.
AdmissibleAfterResult(o) ==
    /\ Current(o)
    /\ \A q \in broker.physical : IdOf[q] # IdOf[o] \/ resolve[q].result # "none"
    /\ Cardinality({q \in broker.physical : resolve[q].result = "none"})
          < MaxConcurrentStoreOperations

Admissible(o) ==
    /\ Current(o)
    /\ \A q \in broker.physical : IdOf[q] # IdOf[o]
    /\ Cardinality(broker.physical) < MaxConcurrentStoreOperations

StartResolve(o) ==
    /\ resolve[o].at = "snapshot"
    /\ Goes(o, IF Admissible(o) THEN "loading" ELSE "rejected")
    /\ broker' = [broker EXCEPT !.physical = IF Admissible(o) THEN @ \cup {o} ELSE @]
    /\ UNCHANGED <<fresh, call, provisionVars>>

\* The caller's handle or token, or the deadline; the monitor publishes it.
Interrupt(o) ==
    /\ o \in Interruptible \cap broker.physical /\ ~resolve[o].reason
    /\ resolve' = [resolve EXCEPT ![o].reason = TRUE]
    /\ UNCHANGED <<fresh, broker, call, provisionVars>>

ObserveCancellationAndTimeout(x) == IF x.reason THEN Publishes(x, "ended") ELSE x

Monitor(o) ==
    /\ resolve[o].reason /\ resolve[o].result = "none"
    /\ resolve' = [resolve EXCEPT ![o] = ObserveCancellationAndTimeout(@)]
    /\ UNCHANGED <<fresh, broker, call, provisionVars>>

Over(o) == resolve[o].reason \/ resolve[o].result # "none"

\* RunPhysicalStoreLoad: the load, which may fail, and what follows it.
Load(o, fails) ==
    /\ resolve[o].at = "loading"
    /\ resolve' = [resolve EXCEPT ![o] =
          IF Over(o) THEN [ObserveCancellationAndTimeout(@) EXCEPT !.at = "finishing"]
          ELSE IF fails \/ key = NoKey THEN [@ EXCEPT !.at = "failing"]
          ELSE [@ EXCEPT !.at = "creating", !.value = key]]
    /\ UNCHANGED <<fresh, broker, call, provisionVars>>

\* TryStoreTerminal
Fail(o) ==
    /\ resolve[o].at = "failing"
    /\ resolve' = [resolve EXCEPT ![o] =
                      [Publishes(ObserveCancellationAndTimeout(@), "failed") EXCEPT !.at = "finishing"]]
    /\ UNCHANGED <<fresh, broker, call, provisionVars>>

Spent(o) == fresh[o] \in {"used", "none"}

\* TryCreateAccessContext: leases that are over leave the table, then this
\* one is admitted to it.
Create(o) ==
    /\ resolve[o].at = "creating"
    /\ LET kept == {q \in broker.leases : ~Spent(q)}
           fits == Current(o) /\ Cardinality(kept) < MaxActiveLeases
       IN IF Over(o)
          THEN /\ resolve' = [resolve EXCEPT ![o] =
                                 [ObserveCancellationAndTimeout(@) EXCEPT !.at = "finishing"]]
               /\ UNCHANGED <<fresh, broker>>
          ELSE /\ broker' = [broker EXCEPT !.leases = kept \cup (IF fits THEN {o} ELSE {})]
               /\ fresh' = [fresh EXCEPT ![o] = IF fits THEN "live" ELSE @]
               /\ resolve' = [resolve EXCEPT ![o] =
                                 IF fits THEN [@ EXCEPT !.at = "succeeding"]
                                 ELSE [Publishes(@, IF Current(o) THEN "failed" ELSE "ended")
                                       EXCEPT !.at = "finishing"]]
    /\ UNCHANGED <<call, provisionVars>>

\* Mutant: a result that comes too late leaves its lease in the table.
SucceedOrDrop(o) ==
    /\ resolve[o].at = "succeeding"
    /\ resolve' = [resolve EXCEPT ![o] = [Publishes(@, "succeeded") EXCEPT !.at = "finishing"]]
    /\ UNCHANGED <<fresh, broker, call, provisionVars>>

\* The lease cannot be made from a source that is no longer fresh; a result
\* that comes too late is discarded with its lease.
Succeed(o) ==
    /\ resolve[o].at = "succeeding"
    /\ UNCHANGED <<call, provisionVars>>
    /\ LET x == IF fresh[o] = "live" THEN Publishes(resolve[o], "succeeded")
                ELSE Publishes(resolve[o], "ended")
       IN /\ resolve' = [resolve EXCEPT ![o] = [x EXCEPT !.at = "finishing"]]
          /\ IF resolve[o].result = "none" /\ x.result = "succeeded"
             THEN UNCHANGED <<fresh, broker>>
             ELSE /\ broker' = [broker EXCEPT !.leases = @ \ {o}]
                  /\ fresh' = [fresh EXCEPT ![o] = "dead"]

OnPhysicalStoreOperationFinished(o) ==
    /\ resolve[o].at = "finishing"
    /\ Goes(o, "over")
    /\ broker' = [broker EXCEPT !.physical = @ \ {o}]
    /\ UNCHANGED <<fresh, call, provisionVars>>

\* A lease is consumed by its dispatch, or expires.
Use(o) ==
    /\ resolve[o].result = "succeeded" /\ fresh[o] = "live"
    /\ fresh' = [fresh EXCEPT ![o] = "used"]
    /\ UNCHANGED <<resolve, broker, call, provisionVars>>

GetActiveLeaseCount ==
    /\ \E q \in broker.leases : Spent(q)
    /\ broker' = [broker EXCEPT !.leases = {q \in @ : ~Spent(q)}]
    /\ UNCHANGED <<resolve, fresh, call, provisionVars>>

-----------------------------------------------------------------------------
(* The broker: invalidation and shutdown, by caller c *)

\* Under the lock: the epoch, and what is to be cancelled and killed after it.
InvalidateMatching(c, disable) ==
    IF broker.shutdown THEN UNCHANGED <<broker, call>>
    ELSE /\ broker' = [broker EXCEPT !.epoch = @ + 1, !.leases = {},
                                     !.disabled = @ \/ disable]
         /\ call' = [call EXCEPT ![c] = [at |-> "cancelling", cancel |-> broker.physical,
                                         kill |-> broker.leases]]

QuarantineAccount(c) ==
    /\ c \in Administrators /\ ~broker.disabled /\ call[c].at = "out"
    /\ InvalidateMatching(c, TRUE)
    /\ UNCHANGED <<resolve, fresh, provisionVars>>

\* Mutant: forgets the leases in hand.
BeginShutdownQuietly ==
    /\ ~broker.shutdown
    /\ broker' = [broker EXCEPT !.shutdown = TRUE, !.leases = {}]
    /\ call' = [call EXCEPT !["shutdown"] = [at |-> "cancelling", cancel |-> broker.physical,
                                             kill |-> {}]]
    /\ UNCHANGED <<resolve, fresh, provisionVars>>

BeginShutdown ==
    /\ ~broker.shutdown
    /\ broker' = [broker EXCEPT !.shutdown = TRUE, !.leases = {}]
    /\ call' = [call EXCEPT !["shutdown"] = [at |-> "cancelling", cancel |-> broker.physical,
                                             kill |-> broker.leases]]
    /\ UNCHANGED <<resolve, fresh, provisionVars>>

\* Out of the lock: TryCancel of every operation, then its source is
\* invalidated or shut down.
CancelOperations(c) ==
    /\ call[c].at = "cancelling"
    /\ resolve' = [o \in Resolves |->
                      IF o \in call[c].cancel
                      THEN Publishes([resolve[o] EXCEPT !.reason = TRUE], "ended")
                      ELSE resolve[o]]
    /\ call' = [call EXCEPT ![c].at = "killing"]
    /\ UNCHANGED <<fresh, broker, provisionVars>>

KillLeases(c) ==
    /\ call[c].at = "killing"
    /\ fresh' = [o \in Resolves |->
                    IF o \in call[c].kill /\ fresh[o] = "live" THEN "dead" ELSE fresh[o]]
    /\ call' = [call EXCEPT ![c] = NoCall]
    /\ UNCHANGED <<resolve, broker, provisionVars>>

-----------------------------------------------------------------------------
(* The provisioner *)

StartProvision(p, delete) ==
    /\ provision[p].at = "new"
    /\ LET room == ~closing.begun /\ Cardinality(listed) < MaximumConcurrentOperations
       IN /\ provision' = [provision EXCEPT ![p].at = IF room THEN "loading" ELSE "rejected",
                                            ![p].delete = delete, ![p].secret = ~delete]
          /\ listed' = IF room THEN listed \cup {p} ELSE listed
    /\ UNCHANGED <<brokerVars, closing, key, written>>

\* Publish: the sink, then the slot.
Told(p, x, result) ==
    /\ provision' = [provision EXCEPT ![p] = Publishes(x, result)]
    /\ listed' = listed \ {p}

\* Cancel, the token or the deadline: the secret is wiped, the caller told.
CancelProvision(p) ==
    /\ p \in Interruptible \cap listed
    /\ Told(p, [provision[p] EXCEPT !.secret = FALSE], "ended")
    /\ UNCHANGED <<brokerVars, closing, key, written>>

\* The provisioner's BeginShutdown: admits nothing more, invalidates the
\* account, then cancels what it had listed.  (Bound: only where it is used.)
BeginProvisionerShutdown ==
    /\ ~closing.begun /\ Provisions # {}
    /\ closing' = [begun |-> TRUE, pending |-> listed]
    /\ InvalidateMatching("provisioner", FALSE)
    /\ UNCHANGED <<resolve, fresh, provision, listed, key, written>>

ShutdownCancels(p) ==
    /\ p \in closing.pending /\ call["provisioner"].at = "out"
    /\ Told(p, [provision[p] EXCEPT !.secret = FALSE], "ended")
    /\ closing' = [closing EXCEPT !.pending = @ \ {p}]
    /\ UNCHANGED <<brokerVars, key, written>>

Ended(p) == provision[p].result # "none"

\* Run: the load.
LoadRevision(p, fails) ==
    /\ provision[p].at = "loading"
    /\ LET x == [provision[p] EXCEPT !.found = key, !.at = "mutating"]
           gone == key = NoKey /\ x.delete
       IN IF Ended(p) THEN Told(p, [x EXCEPT !.at = "over"], "ended")
          ELSE IF fails THEN Told(p, [x EXCEPT !.at = "over"], "failed")
          ELSE /\ provision' = [provision EXCEPT ![p] =
                                   [x EXCEPT !.answer = IF gone THEN "deleted" ELSE @,
                                             !.at = IF gone THEN "changing" ELSE @]]
               /\ UNCHANGED listed
    /\ UNCHANGED <<brokerVars, closing, key, written>>

\* The write or the delete against the revision that was loaded.  A call that
\* failed, timed out or was cancelled may have been done all the same.  A
\* secret that has been wiped is not written.
Mutate(p, fails, done) ==
    /\ provision[p].at = "mutating"
    /\ UNCHANGED <<brokerVars, closing>>
    /\ LET x == provision[p]
           fits == key = x.found
       IN IF ~x.delete /\ ~x.secret
          THEN /\ Told(p, [x EXCEPT !.at = "over"], "ended")
               /\ UNCHANGED <<key, written>>
          ELSE /\ done \/ fails
               /\ key' = IF ~(fits /\ done) THEN key ELSE IF x.delete THEN NoKey ELSE written + 1
               /\ written' = IF fits /\ done /\ ~x.delete THEN written + 1 ELSE written
               /\ provision' = [provision EXCEPT ![p].at = "changing", ![p].secret = FALSE,
                     ![p].answer = IF fails \/ ~fits THEN "failed"
                                   ELSE IF x.delete THEN "deleted" ELSE "stored"]
               /\ UNCHANGED listed

\* Mutant: a mutation that failed changed nothing.
CredentialChangedOnSuccess(p) ==
    /\ provision[p].at = "changing"
    /\ IF provision[p].answer = "failed" THEN UNCHANGED <<broker, call>>
       ELSE InvalidateMatching(p, FALSE)
    /\ provision' = [provision EXCEPT ![p].at = "telling"]
    /\ UNCHANGED <<resolve, fresh, listed, closing, key, written>>

\* After every mutation that was issued, whatever its answer.
CredentialChanged(p) ==
    /\ provision[p].at = "changing"
    /\ InvalidateMatching(p, FALSE)
    /\ provision' = [provision EXCEPT ![p].at = "telling"]
    /\ UNCHANGED <<resolve, fresh, listed, closing, key, written>>

PublishProvision(p) ==
    /\ provision[p].at = "telling" /\ call[p].at = "out"
    /\ Told(p, [provision[p] EXCEPT !.at = "over"], provision[p].answer)
    /\ UNCHANGED <<brokerVars, closing, key, written>>

-----------------------------------------------------------------------------
Next ==
    \/ \E o \in Resolves :
          \/ TakeEpochs(o) \/ StartResolve(o) \/ Interrupt(o) \/ Monitor(o)
          \/ \E fails \in BOOLEAN : Load(o, fails)
          \/ Fail(o) \/ Create(o) \/ Succeed(o) \/ Use(o)
          \/ OnPhysicalStoreOperationFinished(o)
    \/ GetActiveLeaseCount
    \/ \E c \in Callers : QuarantineAccount(c) \/ CancelOperations(c) \/ KillLeases(c)
    \/ BeginShutdown \/ BeginProvisionerShutdown
    \/ \E p \in Provisions :
          \/ CancelProvision(p) \/ ShutdownCancels(p) \/ CredentialChanged(p) \/ PublishProvision(p)
          \/ \E b \in BOOLEAN :
                \/ StartProvision(p, b) \/ LoadRevision(p, b)
                \/ \E done \in BOOLEAN : Mutate(p, b, done)

Spec == Init /\ [][Next]_vars

-----------------------------------------------------------------------------
(* Properties *)

Leased(o) == resolve[o].result = "succeeded" /\ fresh[o] = "live"
Changing(p) ==
    \/ provision[p].at = "changing"
    \/ provision[p].at = "telling" /\ call[p].at # "out"

\* A lease in hand holds the stored key, unless the call that changed it is
\* still on its way to the lease: once a store or a delete has answered, even
\* with a failure, nobody can use the key of before.
LeasedKeyIsStored ==
    \A o \in Resolves :
        Leased(o) => \/ resolve[o].value = key
                     \/ \E p \in Provisions : Changing(p)
                     \/ \E c \in Callers : call[c].at # "out" /\ o \in call[c].kill

\* No lease of a quarantined account or of a broker that is shut down outlives
\* the call, whichever result was about to be published.
RevokedKeyIsDead ==
    broker.disabled \/ broker.shutdown =>
        \A o \in Resolves :
            Leased(o) => \E c \in Callers : call[c].at # "out" /\ o \in call[c].kill

\* The table holds leases somebody has or is about to get: a result that lost
\* to a cancellation does not use up MaxActiveLeases.
TableHoldsLeases ==
    \A o \in broker.leases :
        resolve[o].at = "succeeding" \/ resolve[o].result = "succeeded"

\* At most MaxConcurrentStoreOperations threads are inside the store, also
\* when their callers gave up, and no two with one request identifier.
StoreCallsAreBounded ==
    LET inside == {o \in Resolves : resolve[o].at \in {"loading", "failing", "creating"}}
    IN /\ Cardinality(inside) <= MaxConcurrentStoreOperations
       /\ \A o, q \in inside : IdOf[o] = IdOf[q] => o = q

=============================================================================
