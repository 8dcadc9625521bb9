-------------------------- MODULE KeychainSecretStore --------------------------
(***************************************************************************)
(* FUnrealAIMacKeychainSecretStore: one record of the user's Keychain and  *)
(* the threads of several processes that use it.  A store's mutex orders   *)
(* the writers of one process; between processes only the Keychain does.   *)
(* A call that the platform has made is not undone: an operation that is   *)
(* stopped meanwhile answers so, whatever it did.                          *)
(***************************************************************************)
EXTENDS Naturals

CONSTANTS Clients, Stores,
          StoreOf,       \* the store object, hence the process, of a client
          MaxRevision,   \* the largest revision, at which the code refuses to write
          MaxWrites      \* bound: values ever written; a value is its number

VARIABLES item,     \* the record, or None; life is the value it was created with
          writes,   \* values written so far
          op,       \* the operation of each client
          known,    \* what each client last loaded
          stopped,  \* clients whose operation is cancelled or timed out
          mutex     \* the clients that hold their store's MutationMutex

vars == <<item, writes, op, known, stopped, mutex>>

None == [value |-> 0, revision |-> 0, life |-> 0]
Nothing == [loaded |-> FALSE, got |-> None]
Idle == [kind |-> "none", at |-> "none"]

Init ==
    /\ item = None
    /\ writes = 0
    /\ op = [c \in Clients |-> Idle]
    /\ known = [c \in Clients |-> Nothing]
    /\ stopped = {}
    /\ mutex = {}

\* A client creates, replaces or deletes what it last loaded.
Begin(c, kind) ==
    /\ op[c] = Idle
    /\ kind # "load" => known[c].loaded
    /\ known' = IF kind = "load" THEN [known EXCEPT ![c] = Nothing] ELSE known
    /\ op' = [op EXCEPT ![c] = [kind |-> kind, at |-> "begun", expected |-> known'[c].got.revision,
                                before |-> None, after |-> None,
                                status |-> "none", result |-> "none"]]
    /\ UNCHANGED <<item, writes, stopped, mutex>>

Interrupt(c) ==
    /\ op[c].at \in {"begun", "waiting", "calling", "called"}
    /\ c \notin stopped
    /\ stopped' = stopped \union {c}
    /\ UNCHANGED <<item, writes, op, known, mutex>>

Answer(c, result) == op' = [op EXCEPT ![c].at = "answered", ![c].result = result]

\* Nothing is asked of the platform for a stopped operation, a delete of what
\* does not exist, or a store at the largest revision.
Check(c) ==
    /\ op[c].at = "begun"
    /\ UNCHANGED <<item, writes, known, stopped, mutex>>
    /\ CASE c \in stopped -> Answer(c, "stopped")
         [] c \notin stopped /\ op[c].kind = "load" ->
                op' = [op EXCEPT ![c].at = "calling"]
         [] c \notin stopped /\ op[c].kind = "store" /\ op[c].expected = MaxRevision ->
                Answer(c, "conflict")
         [] c \notin stopped /\ op[c].kind = "delete" /\ op[c].expected = 0 ->
                Answer(c, "failed")
         [] OTHER -> op' = [op EXCEPT ![c].at = "waiting"]

\* A writer checks again under the mutex.
Lock(c) ==
    /\ op[c].at = "waiting"
    /\ \A d \in mutex : StoreOf[d] # StoreOf[c]
    /\ UNCHANGED <<item, writes, known, stopped>>
    /\ IF c \in stopped
       THEN Answer(c, "stopped") /\ UNCHANGED mutex
       ELSE op' = [op EXCEPT ![c].at = "calling"] /\ mutex' = mutex \union {c}

\* The platform's status, and the record around its call.
Called(c, status) ==
    op' = [op EXCEPT ![c].at = "called", ![c].status = status,
                     ![c].before = item, ![c].after = item']

Calls(c, kind) == op[c].at = "calling" /\ op[c].kind = kind

\* SecItemCopyMatching.
CopyMatching(c) ==
    /\ Calls(c, "load")
    /\ UNCHANGED <<item, writes, known, stopped, mutex>>
    /\ Called(c, IF item = None THEN "notFound" ELSE "success")

Write(value, revision, life) ==
    /\ writes < MaxWrites
    /\ writes' = value
    /\ item' = [value |-> value, revision |-> revision, life |-> life]

\* SecItemAdd, for the expected revision zero: a record that exists is left.
Add(c) ==
    /\ Calls(c, "store")
    /\ op[c].expected = 0
    /\ UNCHANGED <<known, stopped, mutex>>
    /\ IF item = None
       THEN Write(writes + 1, 1, writes + 1) /\ Called(c, "success")
       ELSE UNCHANGED <<item, writes>> /\ Called(c, "duplicate")

\* Mutant: the update is looked up by the record's name alone.
UpdateUnmatched(c) ==
    /\ Calls(c, "store")
    /\ op[c].expected # 0
    /\ UNCHANGED <<known, stopped, mutex>>
    /\ IF item # None
       THEN Write(writes + 1, op[c].expected + 1, item.life) /\ Called(c, "success")
       ELSE UNCHANGED <<item, writes>> /\ Called(c, "notFound")

\* SecItemUpdate: the query names the revision as well as the record.
Update(c) ==
    /\ Calls(c, "store")
    /\ op[c].expected # 0
    /\ UNCHANGED <<known, stopped, mutex>>
    /\ IF item.revision = op[c].expected
       THEN Write(writes + 1, op[c].expected + 1, item.life) /\ Called(c, "success")
       ELSE UNCHANGED <<item, writes>> /\ Called(c, "notFound")

\* SecItemDelete, by record and revision.
Remove(c) ==
    /\ Calls(c, "delete")
    /\ UNCHANGED <<writes, known, stopped, mutex>>
    /\ IF item.revision = op[c].expected
       THEN item' = None /\ Called(c, "success")
       ELSE UNCHANGED item /\ Called(c, "notFound")

\* A locked Keychain, a denied access or a lost service change nothing.
PlatformFails(c) ==
    /\ op[c].at = "calling"
    /\ UNCHANGED <<item, writes, known, stopped, mutex>>
    /\ Called(c, "unavailable")

\* Mutant: a record that exists is taken for one's own.
DuplicateIsFine(c) ==
    CASE op[c].status \in {"success", "duplicate"} -> "succeeded"
      [] op[c].status = "unavailable"              -> "failed"
      [] op[c].status = "notFound"                 -> "notFound"

MapStatus(c) ==
    CASE op[c].status = "success"     -> "succeeded"
      [] op[c].status = "duplicate"   -> "conflict"
      [] op[c].status = "unavailable" -> "failed"
      [] op[c].status = "notFound"    -> IF op[c].expected # 0 /\ op[c].kind # "load"
                                         THEN "conflict" ELSE "notFound"

\* The context is checked again after the call, before its status is read.
AfterCall(c) ==
    /\ op[c].at = "called"
    /\ Answer(c, IF c \in stopped THEN "stopped" ELSE MapStatus(c))
    /\ mutex' = mutex \ {c}
    /\ UNCHANGED <<item, writes, known, stopped>>

Return(c) ==
    /\ op[c].at = "answered"
    /\ op' = [op EXCEPT ![c] = Idle]
    /\ known' = [known EXCEPT ![c] =
          IF op[c].kind = "load" /\ op[c].result \in {"succeeded", "notFound"}
          THEN [loaded |-> TRUE, got |-> op[c].after] ELSE Nothing]
    /\ stopped' = stopped \ {c}
    /\ UNCHANGED <<item, writes, mutex>>

\* A process ends: its threads are gone, and what the platform did stays.
Crash(s) ==
    LET gone == {c \in Clients : StoreOf[c] = s}
    IN /\ \E c \in gone : op[c] # Idle
       /\ op' = [c \in Clients |-> IF c \in gone THEN Idle ELSE op[c]]
       /\ known' = [c \in Clients |-> IF c \in gone THEN Nothing ELSE known[c]]
       /\ stopped' = stopped \ gone
       /\ mutex' = mutex \ gone
       /\ UNCHANGED <<item, writes>>

Next ==
    \/ \E c \in Clients :
          \/ \E kind \in {"load", "store", "delete"} : Begin(c, kind)
          \/ Interrupt(c) \/ Check(c) \/ Lock(c)
          \/ CopyMatching(c) \/ Add(c) \/ Update(c) \/ Remove(c) \/ PlatformFails(c)
          \/ AfterCall(c) \/ Return(c)
    \/ \E s \in Stores : Crash(s)

Spec == Init /\ [][Next]_vars

-----------------------------------------------------------------------------
(* Properties *)

Applied(o) == o.after # o.before

\* A writer's answer is true unless it was stopped: what succeeded was done,
\* and what was refused or failed changed nothing, whichever process was faster.
\* Only a stopped writer has to look again.
OnlyTheStoppedAreUnsure ==
    \A c \in Clients :
        (op[c].at = "answered" /\ op[c].kind # "load" /\ op[c].result # "stopped") =>
            (Applied(op[c]) <=> op[c].result = "succeeded")

\* What a writer changes, even if it is told that it was stopped, is the value
\* it had loaded: no write of another process in between is lost.  (A record
\* deleted and made again is another record, at the same revisions.)
NoLostUpdate ==
    \A c \in Clients :
        (op[c].at \in {"called", "answered"} /\ op[c].kind # "load" /\ Applied(op[c])) =>
            (known[c].got.life = op[c].before.life => known[c].got.value = op[c].before.value)

=============================================================================
