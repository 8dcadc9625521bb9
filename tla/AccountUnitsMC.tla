------------------------------ MODULE AccountUnitsMC ------------------------------
(***************************************************************************)
(* The device account provider; the durable transaction of a sign-in; the  *)
(* browser account provider, whose model of the transaction is its         *)
(* contract; and the services behind them, the secret stores and the xAI   *)
(* device driver.  unit names the one that runs.                           *)
(***************************************************************************)
EXTENDS DeviceOAuthAccountProviderMC

VARIABLES
    unit,
    fence, txn, grants, granted, revoked, interrupted, overtaken, outrun, signOut,
    rotations,                                       \* OAuthDurableAccountTransaction
    account, op, restore, record, fenced,            \* BrowserOAuthAccountProvider
    records, item, mutex, writes, storeOp, known, stopped, \* MemorySecretStore, KeychainSecretStore
    http, table, cancelled, driver                   \* XAIDeviceOAuthDriver

txnVars == <<fence, txn, grants, granted, revoked, interrupted, overtaken, outrun, signOut,
             rotations>>
browserVars == <<account, op, restore, record, fenced>>
secretVars == <<records, item, mutex, writes, storeOp, known, stopped>>
driverVars == <<http, table, cancelled, driver>>
unitsVars == <<unit, vars, txnVars, browserVars, secretVars, driverVars>>

\* The device account with a startup recovery.
RecoveringDevice == INSTANCE DeviceOAuthAccountProvider WITH
    Faults <- {"load", "store"}, Others <- {"recovery"}, Interrupts <- {"cancel"}

\* Two sign-ins of one account, the first with a store that fails; three that
\* fence one another; and two accounts for one fence.
Faults2 == INSTANCE OAuthDurableAccountTransaction WITH
    Transactions <- {"s", "t"}, AccountOf <- [t \in {"s", "t"} |-> "a"], Faulty <- {"s"},
    MaxActiveAccountFences <- 1, SignOuts <- {"a"}, MaxRotations <- 1, store <- grants

Fences3 == INSTANCE OAuthDurableAccountTransaction WITH
    Transactions <- {"s", "t", "u"}, AccountOf <- [t \in {"s", "t", "u"} |-> "a"], Faulty <- {},
    MaxActiveAccountFences <- 1, SignOuts <- {}, MaxRotations <- 0, store <- grants

Accounts2 == INSTANCE OAuthDurableAccountTransaction WITH
    Transactions <- {"s", "u"}, AccountOf <- [t \in {"s", "u"} |-> t], Faulty <- {},
    MaxActiveAccountFences <- 1, SignOuts <- {"u"}, MaxRotations <- 0, store <- grants

\* Two sign-ins and a sign-out without failures; two sign-ins, or one and a
\* sign-out, with one the caller stops; and one of each with failures and a
\* recovery.
SignIns2 == INSTANCE BrowserOAuthAccountProvider WITH
    SignIns <- {"i", "j"}, SignOuts <- {"x"}, Stoppable <- {}, Faulty <- FALSE,
    Recovers <- FALSE, recovery <- restore, store <- record

Stopped2 == INSTANCE BrowserOAuthAccountProvider WITH
    SignIns <- {"i", "j"}, SignOuts <- {}, Stoppable <- {"i"}, Faulty <- FALSE,
    Recovers <- FALSE, recovery <- restore, store <- record

Stopped1 == INSTANCE BrowserOAuthAccountProvider WITH
    SignIns <- {"i"}, SignOuts <- {"x"}, Stoppable <- {"i"}, Faulty <- FALSE,
    Recovers <- FALSE, recovery <- restore, store <- record

Recovering == INSTANCE BrowserOAuthAccountProvider WITH
    SignIns <- {"i"}, SignOuts <- {"x"}, Stoppable <- {}, Faulty <- TRUE,
    Recovers <- TRUE, recovery <- restore, store <- record

Secrets == INSTANCE MemorySecretStore WITH
    Clients <- {"o", "p"}, Handles <- {"x", "y"}, MaxRecords <- 1, MaxRevision <- 3,
    MaxWrites <- 3, op <- storeOp

\* Two threads of one process, and two processes.
SameKeychain == INSTANCE KeychainSecretStore WITH
    Clients <- {"o", "p"}, Stores <- {"s"}, StoreOf <- [c \in {"o", "p"} |-> "s"],
    MaxRevision <- 2, MaxWrites <- 3, op <- storeOp

Keychains == INSTANCE KeychainSecretStore WITH
    Clients <- {"o", "p"}, Stores <- {"o", "p"}, StoreOf <- [c \in {"o", "p"} |-> c],
    MaxRevision <- 2, MaxWrites <- 3, op <- storeOp

Driver == INSTANCE XAIDeviceOAuthDriver WITH
    Requests <- {"e"}, MaxActiveRequests <- 1,
    Statuses <- {"ok", "pending", "refused", "forbidden", "narrow", "expired", "other"}

\* One store or another runs: each has its own type for what is shared.
UnitsInit ==
    /\ unit \in {"device", "recovering device", "faults", "fences", "accounts",
                "sign-ins", "two stopped", "one stopped", "recovering",
                "secrets", "same keychain", "keychains", "driver"}
    /\ Init /\ (unit \notin {"device", "recovering device"} => store = NoRecord)
    /\ CASE unit = "fences"   -> Fences3!Init
         [] unit = "accounts" -> Accounts2!Init
         [] OTHER             -> Faults2!Init
    /\ CASE unit = "recovering" -> Recovering!Init
         [] unit = "two stopped" -> Stopped2!Init
         [] unit = "one stopped" -> Stopped1!Init
         [] OTHER -> SignIns2!Init
    /\ unit \notin {"sign-ins", "two stopped", "one stopped", "recovering"} => record = SignIns2!NoRecord
    /\ CASE unit = "secrets"       -> Secrets!Init /\ item = Secrets!None /\ mutex = {}
         [] unit = "same keychain" -> SameKeychain!Init /\ records = <<>>
         [] OTHER                  -> Keychains!Init /\ records = <<>>
    /\ Driver!Init

UnitsNext ==
    /\ UNCHANGED unit
    /\ \/ /\ \/ unit = "device" /\ Next
             \/ unit = "recovering device" /\ RecoveringDevice!Next
          /\ UNCHANGED <<txnVars, browserVars, secretVars, driverVars>>
       \/ /\ \/ unit = "faults" /\ Faults2!Next
             \/ unit = "fences" /\ Fences3!Next
             \/ unit = "accounts" /\ Accounts2!Next
          /\ UNCHANGED <<vars, browserVars, secretVars, driverVars>>
       \/ /\ \/ unit = "sign-ins" /\ SignIns2!Next
             \/ unit = "two stopped" /\ Stopped2!Next
             \/ unit = "one stopped" /\ Stopped1!Next
             \/ unit = "recovering" /\ Recovering!Next
          /\ UNCHANGED <<vars, txnVars, secretVars, driverVars>>
       \/ /\ \/ unit = "secrets" /\ Secrets!Next /\ UNCHANGED <<item, mutex>>
             \/ /\ \/ unit = "same keychain" /\ SameKeychain!Next
                   \/ unit = "keychains" /\ Keychains!Next
                /\ UNCHANGED records
          /\ UNCHANGED <<vars, txnVars, browserVars, driverVars>>
       \/ unit = "driver" /\ Driver!Next /\ UNCHANGED <<vars, txnVars, browserVars, secretVars>>

UnitsSpec == UnitsInit /\ [][UnitsNext]_unitsVars

-----------------------------------------------------------------------------
(* Properties: each is stated in the module of its component. *)

\* A durable sign-in that fails leaves neither a grant nor a record, and a
\* sign-out is final for it.
FailedSignInsLeaveNothing ==
    /\ unit = "faults" => Faults2!FailureLeavesNothing /\ Faults2!SignedOutIsEmpty
    /\ unit = "accounts" => Accounts2!SignedOutIsEmpty

\* A later sign-in or sign-out is final for an earlier one, whose compensation
\* spares the others.
FencedSignInsTouchNothing ==
    [][/\ unit = "fences" => Fences3!NoneCommitsOvertaken
       /\ unit = "faults" => Faults2!SparesCommitted]_unitsVars

\* What a browser account says of its record is true, no grant nobody knows of
\* is in use, and a sign-out is final.
BrowserAccountIsTrue ==
    /\ unit = "sign-ins" => SignIns2!ReadyIsOwned /\ SignIns2!AbandonedGrantIsFenced
    /\ unit = "two stopped" => Stopped2!ReadyIsOwned /\ Stopped2!AbandonedGrantIsFenced
    /\ unit = "one stopped" => Stopped1!ReadyIsOwned /\ Stopped1!AbandonedGrantIsFenced
    /\ unit = "recovering" =>
          /\ Recovering!ConfirmedSignedOutIsEmpty
          /\ Recovering!SignOutOutlivesSignIns
          /\ Recovering!SignOutCleansFenced

\* What the in-memory store refuses it did not do, and what a store does
\* replaces what its writer had seen; at the Keychain only a writer that was
\* stopped may have written what it is not told of.  The xAI driver reports
\* what happened at the issuer and to its caller, and leaves no exchange behind.
ServicesAnswerTruly ==
    /\ unit = "secrets" => Secrets!UnsuccessfulIsUnchanged /\ Secrets!NoLostUpdate
    /\ unit = "same keychain" =>
          SameKeychain!OnlyTheStoppedAreUnsure /\ SameKeychain!NoLostUpdate
    /\ unit = "keychains" => Keychains!OnlyTheStoppedAreUnsure /\ Keychains!NoLostUpdate
    /\ unit = "driver" =>
          Driver!OutcomeIsTrue /\ Driver!NothingOutlivesTheCall /\ Driver!RunningIsCounted

=============================================================================
