------------------------------ MODULE BrokerUnitsMC ------------------------------
(***************************************************************************)
(* The OAuth credential broker, and components whose variables it shares   *)
(* none of: the API key broker with its provisioner, the kernel's cache of *)
(* signing keys, and the HTTPS transport.  unit names the one that runs.   *)
(***************************************************************************)
EXTENDS OAuthCredentialBrokerMC

VARIABLES
    unit,
    resolve, fresh, broker, call, provision, listed, closing, key, written, \* ApiKeyCredentials
    published, made, withdrawn, cache, check, now,                          \* OidcKeyCache
    request, session, table, events                                         \* MacUrlSessionTransport

keyVars == <<resolve, fresh, broker, call, provision, listed, closing, key, written>>
issuerVars == <<published, made, withdrawn, cache, check, now>>
networkVars == <<request, session, table, events>>
unitsVars == <<unit, vars, keyVars, issuerVars, networkVars>>

\* Two resolves and a quarantine, with two identifiers and with one; and a
\* resolve, a quarantine's caller and a change of the key.
Resolving == INSTANCE ApiKeyCredentials WITH
    Resolves <- {"o", "q"}, IdOf <- [o \in {"o", "q"} |-> o], Provisions <- {},
    Administrators <- {"a"}, Interruptible <- {"o"},
    MaxConcurrentStoreOperations <- 1, MaxActiveLeases <- 1, MaximumConcurrentOperations <- 1

SameResolve == INSTANCE ApiKeyCredentials WITH
    Resolves <- {"o", "q"}, IdOf <- [o \in {"o", "q"} |-> "i"], Provisions <- {},
    Administrators <- {"a"}, Interruptible <- {"o"},
    MaxConcurrentStoreOperations <- 2, MaxActiveLeases <- 1, MaximumConcurrentOperations <- 1

Provisioning == INSTANCE ApiKeyCredentials WITH
    Resolves <- {"o"}, IdOf <- [o \in {"o"} |-> o], Provisions <- {"p"},
    Administrators <- {}, Interruptible <- {"p"},
    MaxConcurrentStoreOperations <- 1, MaxActiveLeases <- 1, MaximumConcurrentOperations <- 1

\* An issuer that uses one identifier for every key, and one that does not.
OneKeyId == INSTANCE OidcKeyCache WITH
    Verifications <- {"a", "b"}, KeyIdOf <- <<"k", "k">>, Timeout <- 1, CacheAge <- 1, MaxTime <- 3

KeyIds == INSTANCE OidcKeyCache WITH
    Verifications <- {"a"}, KeyIdOf <- <<"k", "l">>, Timeout <- 1, CacheAge <- 1, MaxTime <- 3

\* Two requests, of which one may lose its session: in a transport with one
\* slot, where it can be cancelled too; and under one identifier.
Network == INSTANCE MacUrlSessionTransport WITH
    Requests <- {"a", "b"}, IdOf <- [r \in {"a", "b"} |-> r], MaxActiveRequests <- 1,
    MaxResponseBody <- 1, Cancellable <- {"a"}, Unreliable <- {"a"},
    op <- request, native <- session

SameNetwork == INSTANCE MacUrlSessionTransport WITH
    Requests <- {"a", "b"}, IdOf <- [r \in {"a", "b"} |-> "i"], MaxActiveRequests <- 2,
    MaxResponseBody <- 1, Cancellable <- {}, Unreliable <- {"a"},
    op <- request, native <- session

UnitsInit ==
    /\ unit \in {"broker", "resolving", "same resolve", "provisioning", "one key id", "key ids",
                "network", "same network"}
    /\ Init /\ (unit # "broker" => \A a \in Accounts : ~store[a].expiring)
    /\ CASE unit = "provisioning" -> Provisioning!Init
         [] unit = "same resolve" -> SameResolve!Init
         [] OTHER                 -> Resolving!Init
    /\ CASE unit = "key ids" -> KeyIds!Init
         [] OTHER            -> OneKeyId!Init
    /\ unit \notin {"resolving", "same resolve", "provisioning"} => key = Resolving!NoKey
    /\ Network!Init

UnitsNext ==
    /\ UNCHANGED unit
    /\ \/ unit = "broker" /\ Next /\ UNCHANGED <<keyVars, issuerVars, networkVars>>
       \/ /\ \/ unit = "resolving" /\ Resolving!Next
             \/ unit = "same resolve" /\ SameResolve!Next
             \/ unit = "provisioning" /\ Provisioning!Next
          /\ UNCHANGED <<vars, issuerVars, networkVars>>
       \/ /\ \/ unit = "one key id" /\ OneKeyId!Next
             \/ unit = "key ids" /\ KeyIds!Next
          /\ UNCHANGED <<vars, keyVars, networkVars>>
       \/ /\ \/ unit = "network" /\ Network!Next
             \/ unit = "same network" /\ SameNetwork!Next
          /\ UNCHANGED <<vars, keyVars, issuerVars>>

UnitsSpec == UnitsInit /\ [][UnitsNext]_unitsVars

-----------------------------------------------------------------------------
(* Properties: each is stated in the module of its component. *)

\* A lease in hand holds the stored key, and none outlives a quarantine or a
\* shutdown; the tables of leases and of store calls hold what they count.
KeyLeasesAreCurrent ==
    /\ unit = "provisioning" =>
          Provisioning!LeasedKeyIsStored /\ Provisioning!RevokedKeyIsDead
    /\ unit = "resolving" =>
          /\ Resolving!RevokedKeyIsDead
          /\ Resolving!TableHoldsLeases
          /\ Resolving!StoreCallsAreBounded
    /\ unit = "same resolve" =>
          SameResolve!RevokedKeyIsDead /\ SameResolve!StoreCallsAreBounded

\* The cache of keys neither rejects a published key nor keeps a withdrawn one.
CachedKeysAreCurrent ==
    /\ unit = "one key id" =>
          OneKeyId!PublishedKeyIsNeverRejected /\ OneKeyId!WithdrawnKeyIsForgotten
    /\ unit = "key ids" =>
          KeyIds!PublishedKeyIsNeverRejected /\ KeyIds!WithdrawnKeyIsForgotten

\* A sink hears one end, when its session is closed; a refused request sends
\* nothing; what is sent is counted; and a shutdown ends all of it.
NetworkRequestsAreAccounted ==
    /\ unit = "network" =>
          /\ Network!OneTerminalAfterSettlement /\ Network!RejectedIsSilent
          /\ Network!SentIsCounted /\ Network!ShutdownEndsAll
    /\ unit = "same network" =>
          /\ SameNetwork!OneTerminalAfterSettlement /\ SameNetwork!RejectedIsSilent
          /\ SameNetwork!SentIsCounted /\ SameNetwork!ShutdownEndsAll

=============================================================================
