--------------------------- MODULE MemorySecretStore ---------------------------
(***************************************************************************)
(* FUnrealAIMemorySecretStore under concurrent clients.  An operation      *)
(* checks its context, copies outside the lock, and decides under it.      *)
(***************************************************************************)
EXTENDS Naturals, FiniteSets

CONSTANTS Clients, Handles,
          MaxRecords,
          MaxRevision,   \* bound: revisions of a record
          MaxWrites      \* bound: values ever written; a value is its number

VARIABLES records,   \* Records: [value, revision] of the handles that have one;
                     \* life is the value the record was created with
          writes,    \* values written so far
          op,        \* the operation of each client
          known,     \* what each client last loaded
          stopped    \* clients whose operation is cancelled or timed out

vars == <<records, writes, op, known, stopped>>

Idle == [kind |-> "none", stage |-> "none"]
None == [value |-> 0, revision |-> 0, life |-> 0]
Nothing == [of |-> {}, got |-> None]
Record(h) == IF h \in DOMAIN records THEN records[h] ELSE None

Init ==
    /\ records = [h \in {} |-> None]
    /\ writes = 0
    /\ op = [c \in Clients |-> Idle]
    /\ known = [c \in Clients |-> Nothing]
    /\ stopped = {}

\* A client writes or deletes what it loaded, or creates what it did not find.
Begin(c, kind, h) ==
    /\ op[c].kind = "none"
    /\ kind = "load" \/ known[c].of \subseteq {h}
    /\ known' = IF kind = "load" THEN [known EXCEPT ![c] = Nothing] ELSE known
    /\ op' = [op EXCEPT ![c] = [kind |-> kind, handle |-> h, stage |-> "checked",
                                expected |-> known'[c].got.revision,
                                before |-> None, after |-> None, got |-> None,
                                result |-> "none"]]
    /\ UNCHANGED <<records, writes, stopped>>

Interrupt(c) ==
    /\ op[c].stage \in {"checked", "copied"}
    /\ c \notin stopped
    /\ stopped' = stopped \union {c}
    /\ UNCHANGED <<records, writes, op, known>>

\* before and after: the record around the step in which the answer was decided.
Answer(c, result, got) ==
    op' = [op EXCEPT ![c].stage = "answered", ![c].result = result, ![c].got = got,
                     ![c].before = Record(op[c].handle),
                     ![c].after = IF op[c].handle \in DOMAIN records'
                                  THEN records'[op[c].handle] ELSE None]

-----------------------------------------------------------------------------
\* Load copies value and revision under the lock ...
LoadCopy(c) ==
    LET h == op[c].handle
    IN /\ op[c].kind = "load"
       /\ op[c].stage = "checked"
       /\ UNCHANGED <<records, writes, known, stopped>>
       /\ IF c \in stopped THEN Answer(c, "stopped", None)
          ELSE IF h \notin DOMAIN records THEN Answer(c, "notFound", None)
          ELSE op' = [op EXCEPT ![c].stage = "copied", ![c].got = records[h]]

\* ... and checks its context again outside it.
LoadAnswer(c) ==
    /\ op[c].kind = "load"
    /\ op[c].stage = "copied"
    /\ UNCHANGED <<records, writes, known, stopped>>
    /\ IF c \in stopped THEN Answer(c, "stopped", None)
       ELSE Answer(c, "succeeded", op[c].got)

\* Mutant: any revision replaces a record.
WritableUnmatched(h, expected) ==
    IF h \in DOMAIN records
    THEN expected # 0 /\ records[h].revision < MaxRevision
    ELSE expected = 0 /\ Cardinality(DOMAIN records) < MaxRecords

\* Revision zero creates; any other replaces the revision it names.
Writable(h, expected) ==
    IF h \in DOMAIN records
    THEN /\ expected # 0 /\ expected = records[h].revision
         /\ records[h].revision < MaxRevision
    ELSE expected = 0 /\ Cardinality(DOMAIN records) < MaxRecords

NewRevision(h) == IF h \in DOMAIN records THEN records[h].revision + 1 ELSE 1

Put(h) ==
    /\ writes < MaxWrites
    /\ writes' = writes + 1
    /\ records' = [x \in DOMAIN records \union {h} |->
          IF x # h THEN records[x]
          ELSE [value |-> writes + 1, revision |-> NewRevision(h),
                life |-> IF h \in DOMAIN records THEN records[h].life ELSE writes + 1]]

\* Mutant: the operation is checked after the write.
CheckedAfterwards(c) ==
    LET o == op[c]
    IN /\ o.kind = "store"
       /\ o.stage = "checked"
       /\ IF Writable(o.handle, o.expected)
          THEN /\ Put(o.handle)
               /\ Answer(c, IF c \in stopped THEN "stopped" ELSE "succeeded", Record(o.handle))
          ELSE /\ UNCHANGED <<records, writes>>
               /\ Answer(c, "refused", None)
       /\ UNCHANGED <<known, stopped>>

\* Store checks its context twice before the lock and once under it.
Store(c) ==
    LET o == op[c]
    IN /\ o.kind = "store"
       /\ o.stage = "checked"
       /\ IF c \notin stopped /\ Writable(o.handle, o.expected)
          THEN /\ Put(o.handle)
               /\ Answer(c, "succeeded", None)
          ELSE /\ UNCHANGED <<records, writes>>
               /\ Answer(c, IF c \in stopped THEN "stopped" ELSE "refused", None)
       /\ UNCHANGED <<known, stopped>>

Delete(c) ==
    LET o == op[c]
    IN /\ o.kind = "delete"
       /\ o.stage = "checked"
       /\ IF c \notin stopped /\ o.expected # 0 /\ Record(o.handle).revision = o.expected
          THEN /\ records' = [h \in DOMAIN records \ {o.handle} |-> records[h]]
               /\ Answer(c, "succeeded", None)
          ELSE /\ UNCHANGED records
               /\ Answer(c, IF c \in stopped THEN "stopped" ELSE "refused", None)
       /\ UNCHANGED <<writes, known, stopped>>

Return(c) ==
    /\ op[c].stage = "answered"
    /\ op' = [op EXCEPT ![c] = Idle]
    /\ stopped' = stopped \ {c}
    /\ known' = [known EXCEPT ![c] = IF op[c].result = "succeeded" /\ op[c].kind = "load"
                                 THEN [of |-> {op[c].handle}, got |-> op[c].got]
                                 ELSE Nothing]
    /\ UNCHANGED <<records, writes>>

Clear ==
    /\ DOMAIN records # {}
    /\ records' = [h \in {} |-> None]
    /\ UNCHANGED <<writes, op, known, stopped>>

Next ==
    \/ \E c \in Clients :
          \/ \E h \in Handles, kind \in {"load", "store", "delete"} : Begin(c, kind, h)
          \/ Interrupt(c)
          \/ LoadCopy(c) \/ LoadAnswer(c) \/ Store(c) \/ Delete(c) \/ Return(c)
    \/ Clear

Spec == Init /\ [][Next]_vars

-----------------------------------------------------------------------------
(* Properties *)

\* A writer whose operation was stopped or refused is told so only if it
\* changed nothing: a caller that hears cancelled may forget its value.
UnsuccessfulIsUnchanged ==
    \A c \in Clients :
        (op[c].stage = "answered" /\ op[c].result # "succeeded") =>
            op[c].after = op[c].before

\* A successful write replaces the value its writer had loaded: another write
\* in between fails it.  (A record deleted and made again is another record,
\* at the same revisions.)
NoLostUpdate ==
    \A c \in Clients :
        (op[c].stage = "answered" /\ op[c].kind = "store" /\ op[c].result = "succeeded") =>
            (known[c].got.life = op[c].before.life => known[c].got.value = op[c].before.value)

=============================================================================
