----------------------- MODULE KeychainSecretStoreProofs -----------------------
(***************************************************************************)
(* For any clients, in any processes: a writer that was not stopped is     *)
(* told whether it wrote, and replaces nothing but the value it loaded.    *)
(* Revisions alone do not show the second, since a record that is created  *)
(* again starts at revision one: the invariant follows every value by the  *)
(* life of its record, within which revisions only grow.                   *)
(***************************************************************************)
EXTENDS KeychainSecretStore, TLAPS

Record == [value : Nat, revision : Nat, life : Nat]

Kinds == {"load", "store", "delete"}
Statuses == {"none", "success", "duplicate", "unavailable", "notFound"}
Operation ==
    [kind : Kinds, at : {"begun", "waiting", "calling", "called", "answered"},
     expected : Nat, before : Record, after : Record, status : Statuses,
     result : {"none", "stopped", "conflict", "failed", "succeeded", "notFound"}]

TypeOK ==
    /\ item \in Record
    /\ writes \in Nat
    /\ op \in [Clients -> {Idle} \cup Operation]
    /\ known \in [Clients -> [loaded : BOOLEAN, got : Record]]

\* What a client may have loaded: nothing, or a value of some life of the
\* record, older than the record where that life goes on.
Loadable(r) ==
    \/ r = None
    \/ /\ r.revision > 0 /\ r.life > 0 /\ r.life <= writes /\ r.value <= writes
       /\ r.life = item.life => r.revision <= item.revision
       /\ r.life = item.life /\ r.revision = item.revision => r = item

Before(c) == op[c].at \in {"begun", "waiting", "calling"}
Writer(c) == op[c] # Idle /\ op[c].kind # "load"

\* What the platform did for a writer is what its status says.
StatusFits(c) ==
    /\ Before(c) => op[c].before = None /\ op[c].after = None
    /\ op[c].at \in {"waiting", "calling"} /\ op[c].kind = "delete" => op[c].expected # 0
    /\ op[c].at = "called" => op[c].status # "none"
    /\ op[c].at = "called" /\ Writer(c) => (Applied(op[c]) <=> op[c].status = "success")

\* A writer expects what its client has loaded.
ExpectationFits(c) ==
    /\ Writer(c) => op[c].expected = known[c].got.revision
    /\ op[c].kind = "load" => Loadable(op[c].after)
    /\ Loadable(known[c].got)

\* The two properties, of one client.
AnswerFits(c) ==
    op[c].at = "answered" /\ op[c].kind # "load" /\ op[c].result # "stopped" =>
        (Applied(op[c]) <=> op[c].result = "succeeded")

ChangeFits(c) ==
    op[c].at \in {"called", "answered"} /\ op[c].kind # "load" /\ Applied(op[c]) =>
        (known[c].got.life = op[c].before.life => known[c].got.value = op[c].before.value)

ClientFits(c) == StatusFits(c) /\ ExpectationFits(c) /\ AnswerFits(c) /\ ChangeFits(c)

KeychainInv ==
    /\ TypeOK
    /\ Loadable(item)
    /\ \A c \in Clients : ClientFits(c)

-----------------------------------------------------------------------------
(* Loaded values while others write *)

\* What may happen to the record: nothing, a new life, a new revision, an end.
ItemStep ==
    \/ UNCHANGED <<item, writes>>
    \/ item = None /\ Write(writes + 1, 1, writes + 1)
    \/ item # None /\ Write(writes + 1, item.revision + 1, item.life)
    \/ item' = None /\ UNCHANGED writes

LEMMA LoadedStaysLoadable ==
    ASSUME TypeOK, Loadable(item), ItemStep
    PROVE  /\ item' \in Record /\ writes' \in Nat
           /\ \A r \in Record : Loadable(r) => Loadable(r)'
           /\ Loadable(item)'
<1> USE DEF Record
<1>1. item \in Record /\ writes \in Nat
    BY DEF TypeOK
<1>2. CASE UNCHANGED <<item, writes>>
    BY <1>1, <1>2 DEF Loadable
<1>3. CASE item = None /\ Write(writes + 1, 1, writes + 1)
    BY <1>1, <1>3 DEF Loadable, Write, None
<1>4. CASE item # None /\ Write(writes + 1, item.revision + 1, item.life)
    BY <1>1, <1>4 DEF Loadable, Write, None
<1>5. CASE item' = None /\ UNCHANGED writes
    BY <1>1, <1>5 DEF Loadable, None
<1> QED BY <1>2, <1>3, <1>4, <1>5 DEF ItemStep

\* A client's step is judged by the client alone.
Alone(c) ==
    /\ ItemStep
    /\ \A d \in Clients : d # c => op'[d] = op[d] /\ known'[d] = known[d]

LEMMA AloneKeeps ==
    ASSUME KeychainInv, NEW c \in Clients, Alone(c), ClientFits(c)',
           op' \in [Clients -> {Idle} \cup Operation],
           known' \in [Clients -> [loaded : BOOLEAN, got : Record]]
    PROVE  KeychainInv'
<1>1. /\ item' \in Record /\ writes' \in Nat /\ Loadable(item)'
      /\ \A r \in Record : Loadable(r) => Loadable(r)'
    BY LoadedStaysLoadable DEF KeychainInv, Alone
<1>2. TypeOK'
    BY <1>1 DEF TypeOK
<1>3. ASSUME NEW d \in Clients, d # c PROVE ClientFits(d)'
    <2>1. ClientFits(d) /\ op'[d] = op[d] /\ known'[d] = known[d]
        BY <1>3 DEF KeychainInv, Alone
    <2>2. known[d].got \in Record /\ (op[d].kind = "load" => op[d].after \in Record)
        BY DEF KeychainInv, TypeOK, Idle, Operation
    <2>3. ExpectationFits(d)'
        BY <1>1, <2>1, <2>2 DEF ClientFits, ExpectationFits, Writer
    <2>4. StatusFits(d)' /\ AnswerFits(d)' /\ ChangeFits(d)'
        BY <2>1 DEF ClientFits, StatusFits, AnswerFits, ChangeFits, Before, Writer
    <2> QED BY <2>3, <2>4 DEF ClientFits
<1> QED BY <1>1, <1>2, <1>3 DEF KeychainInv

LEMMA BusyOperation ==
    ASSUME TypeOK, NEW c \in Clients, op[c].at # "none"
    PROVE  op[c] \in Operation /\ op[c] # Idle
BY DEF TypeOK, Idle

\* An operation goes on to a place, its other fields being what they were.
Goes(c, o) == op' = [op EXCEPT ![c] = o]

LEMMA GoesTo ==
    ASSUME TypeOK, NEW c \in Clients, NEW o \in {Idle} \cup Operation, Goes(c, o)
    PROVE  /\ op' \in [Clients -> {Idle} \cup Operation]
           /\ op'[c] = o /\ \A d \in Clients : d # c => op'[d] = op[d]
BY DEF TypeOK, Goes

-----------------------------------------------------------------------------
(* The steps of a client *)

LEMMA BeginKeeps ==
    ASSUME KeychainInv, NEW c \in Clients, NEW kind \in Kinds, Begin(c, kind)
    PROVE  KeychainInv'
<1> DEFINE o == [kind |-> kind, at |-> "begun", expected |-> known'[c].got.revision,
                 before |-> None, after |-> None, status |-> "none", result |-> "none"]
<1>1. TypeOK /\ ClientFits(c) /\ None \in Record /\ Nothing.got = None /\ None.revision = 0
    BY DEF KeychainInv, None, Nothing, Record
<1>2. /\ known' \in [Clients -> [loaded : BOOLEAN, got : Record]]
      /\ \A d \in Clients : d # c => known'[d] = known[d]
      /\ known'[c].got = (IF kind = "load" THEN None ELSE known[c].got)
    BY <1>1 DEF Begin, TypeOK, Nothing
<1>3. known'[c].got.revision \in Nat
    BY <1>2 DEF Record
<1>4. o \in Operation /\ Goes(c, o)
    BY <1>1, <1>3 DEF Begin, Goes, Operation, Kinds, Statuses
<1>5. /\ op' \in [Clients -> {Idle} \cup Operation] /\ op'[c] = o
      /\ \A d \in Clients : d # c => op'[d] = op[d]
    BY <1>1, <1>4, GoesTo
<1>6. UNCHANGED <<item, writes>>
    BY DEF Begin
<1>7. Loadable(None)' /\ Loadable(known[c].got)'
    BY <1>1, <1>2, <1>6 DEF Loadable, ClientFits, ExpectationFits
<1>8. ClientFits(c)'
    BY <1>5, <1>7 DEF ClientFits, StatusFits, ExpectationFits, AnswerFits, ChangeFits, Before, Writer
<1> QED BY <1>2, <1>5, <1>6, <1>8, AloneKeeps DEF Alone, ItemStep

\* A step that only moves the operation on or answers it unapplied.
LEMMA AnswersUnapplied ==
    ASSUME KeychainInv, NEW c \in Clients, Before(c),
           \/ \E place \in {"waiting", "calling"} :
                 /\ op' = [op EXCEPT ![c].at = place]
                 /\ op[c].kind = "delete" => op[c].expected # 0
           \/ \E result \in {"stopped", "conflict", "failed"} : Answer(c, result),
           UNCHANGED <<item, writes, known>>
    PROVE  KeychainInv'
<1>1. TypeOK /\ ClientFits(c) /\ op[c] \in Operation /\ op[c] # Idle
    BY BusyOperation DEF KeychainInv, Before
<1>2. PICK place \in {"waiting", "calling", "answered"},
           result \in {"none", "stopped", "conflict", "failed", "succeeded", "notFound"} :
         /\ op' = [op EXCEPT ![c] = [op[c] EXCEPT !.at = place, !.result = result]]
         /\ place \in {"waiting", "calling"} /\ op[c].kind = "delete" => op[c].expected # 0
         /\ place = "answered" => result \in {"stopped", "conflict", "failed"}
    <2>1. CASE \E place \in {"waiting", "calling"} :
                 /\ op' = [op EXCEPT ![c].at = place]
                 /\ op[c].kind = "delete" => op[c].expected # 0
        <3>1. PICK place \in {"waiting", "calling"} :
                 /\ op' = [op EXCEPT ![c].at = place]
                 /\ op[c].kind = "delete" => op[c].expected # 0
            BY <2>1
        <3>2. [op[c] EXCEPT !.at = place] = [op[c] EXCEPT !.at = place, !.result = op[c].result]
            BY <1>1 DEF Operation
        <3>3. op' = [op EXCEPT ![c] = [op[c] EXCEPT !.at = place, !.result = op[c].result]]
            BY <3>1, <3>2
        <3> QED BY <1>1, <3>1, <3>3 DEF Operation
    <2>2. CASE \E result \in {"stopped", "conflict", "failed"} : Answer(c, result)
        BY <1>1, <2>2 DEF Answer, TypeOK
    <2> QED BY <2>1, <2>2
<1> DEFINE o == [op[c] EXCEPT !.at = place, !.result = result]
<1>3. /\ o \in Operation /\ o # Idle /\ o.at = place /\ o.result = result
      /\ o.kind = op[c].kind /\ o.expected = op[c].expected /\ o.status = op[c].status
      /\ o.before = None /\ o.after = None
    BY <1>1, <1>2 DEF Operation, Idle, ClientFits, StatusFits
<1>4. /\ op' \in [Clients -> {Idle} \cup Operation] /\ op'[c] = o
      /\ \A d \in Clients : d # c => op'[d] = op[d]
    BY <1>1, <1>2, <1>3, GoesTo DEF Goes
<1>5. StatusFits(c)' /\ AnswerFits(c)' /\ ChangeFits(c)'
    BY <1>2, <1>3, <1>4 DEF StatusFits, AnswerFits, ChangeFits, Before, Writer, Applied
<1>6. ExpectationFits(c)'
    BY <1>1, <1>3, <1>4 DEF ClientFits, ExpectationFits, Writer, Loadable
<1>7. known' \in [Clients -> [loaded : BOOLEAN, got : Record]]
    BY <1>1 DEF TypeOK
<1> QED BY <1>4, <1>5, <1>6, <1>7, AloneKeeps DEF Alone, ItemStep, ClientFits

LEMMA CheckKeeps ==
    ASSUME KeychainInv, NEW c \in Clients, Check(c)
    PROVE  KeychainInv'
<1>1. TypeOK /\ Before(c) /\ op[c] \in Operation
    BY BusyOperation DEF KeychainInv, Check, Before
<1>2. \/ \E place \in {"waiting", "calling"} :
             /\ op' = [op EXCEPT ![c].at = place]
             /\ op[c].kind = "delete" => op[c].expected # 0
      \/ \E result \in {"stopped", "conflict", "failed"} : Answer(c, result)
    BY DEF Check
<1> QED BY <1>1, <1>2, AnswersUnapplied DEF Check

LEMMA LockKeeps ==
    ASSUME KeychainInv, NEW c \in Clients, Lock(c)
    PROVE  KeychainInv'
<1>1. Before(c) /\ (op[c].kind = "delete" => op[c].expected # 0)
    BY DEF KeychainInv, Lock, Before, ClientFits, StatusFits
<1>2. \/ \E place \in {"waiting", "calling"} : op' = [op EXCEPT ![c].at = place]
      \/ \E result \in {"stopped", "conflict", "failed"} : Answer(c, result)
    BY DEF Lock
<1> QED BY <1>1, <1>2, AnswersUnapplied DEF Lock

\* The platform has been called: the status says whether the record changed, and a
\* writer changed the value its client had loaded.
LEMMA CalledKeeps ==
    ASSUME KeychainInv, NEW c \in Clients, op[c].at = "calling", NEW status \in Statuses,
           Called(c, status), status # "none", ItemStep, UNCHANGED known,
           op[c].kind = "load" => UNCHANGED item,
           op[c].kind # "load" =>
              /\ item' # item <=> status = "success"
              /\ item' # item /\ known[c].got.life = item.life => known[c].got.value = item.value
    PROVE  KeychainInv'
<1>1. TypeOK /\ ClientFits(c) /\ op[c] \in Operation /\ op[c] # Idle /\ Loadable(item)
    BY BusyOperation DEF KeychainInv
<1>2. /\ item' \in Record /\ writes' \in Nat /\ Loadable(item)'
      /\ \A r \in Record : Loadable(r) => Loadable(r)'
    BY <1>1, LoadedStaysLoadable
<1> DEFINE o == [op[c] EXCEPT !.at = "called", !.status = status, !.before = item, !.after = item']
<1>3. op' = [op EXCEPT ![c] = o]
    BY <1>1 DEF Called, TypeOK
<1>4. /\ o \in Operation /\ o # Idle /\ o.at = "called" /\ o.status = status /\ o.before = item
      /\ o.after = item' /\ o.kind = op[c].kind /\ o.expected = op[c].expected
    BY <1>1, <1>2 DEF Operation, Idle, TypeOK
<1>5. /\ op' \in [Clients -> {Idle} \cup Operation] /\ op'[c] = o
      /\ \A d \in Clients : d # c => op'[d] = op[d]
    BY <1>1, <1>3, <1>4, GoesTo DEF Goes
<1>6. StatusFits(c)' /\ AnswerFits(c)' /\ ChangeFits(c)'
    BY <1>4, <1>5 DEF StatusFits, AnswerFits, ChangeFits, Before, Writer, Applied
<1>7. ExpectationFits(c)'
    <2>1. Loadable(known[c].got) /\ known[c].got \in Record
        BY <1>1 DEF ClientFits, ExpectationFits, TypeOK
    <2> QED BY <1>1, <1>2, <1>4, <1>5, <2>1 DEF ClientFits, ExpectationFits, Writer
<1>8. known' \in [Clients -> [loaded : BOOLEAN, got : Record]]
    BY <1>1 DEF TypeOK
<1> QED BY <1>5, <1>6, <1>7, <1>8, AloneKeeps DEF Alone, ClientFits

LEMMA PlatformKeeps ==
    ASSUME KeychainInv, NEW c \in Clients,
           CopyMatching(c) \/ Add(c) \/ Update(c) \/ Remove(c) \/ PlatformFails(c)
    PROVE  KeychainInv'
<1>1. /\ TypeOK /\ item \in Record /\ writes \in Nat /\ known[c].got \in Record
      /\ Loadable(item) /\ Loadable(known[c].got) /\ op[c].at = "calling"
      /\ op[c] \in Operation /\ op[c] # Idle
    BY BusyOperation DEF KeychainInv, ClientFits, ExpectationFits, TypeOK,
       CopyMatching, Add, Update, Remove, PlatformFails, Calls
<1>2. /\ op[c].kind # "load" => op[c].expected = known[c].got.revision
      /\ op[c].kind = "delete" => op[c].expected # 0
    BY <1>1 DEF KeychainInv, ClientFits, ExpectationFits, StatusFits, Writer
<1>3. \A v, r, l \in Nat : [value |-> v, revision |-> r, life |-> l] = item => v = item.value
    OBVIOUS
<1>4. CASE CopyMatching(c)
    BY <1>1, <1>4, CalledKeeps DEF CopyMatching, Calls, ItemStep, Statuses
<1>5. CASE Add(c)
    <2>1. known[c].got = None /\ None.life = 0 /\ None.value = 0
        BY <1>1, <1>2, <1>5 DEF Add, Calls, Loadable, None, Record
    <2>2. CASE item = None
        <3>1. item' # item /\ Called(c, "success") /\ ItemStep /\ UNCHANGED known
            BY <1>5, <2>2 DEF Add, ItemStep, Write, None
        <3> QED BY <1>1, <1>5, <2>1, <2>2, <3>1, CalledKeeps DEF Add, Calls, Statuses
    <2>3. CASE item # None
        BY <1>1, <1>5, <2>3, CalledKeeps DEF Add, Calls, ItemStep, Statuses
    <2> QED BY <2>2, <2>3
<1>6. CASE Update(c)
    <2>1. CASE item.revision = op[c].expected
        <3>1. item # None
            BY <1>6, <2>1 DEF Update, None
        <3>2. known[c].got.life = item.life => known[c].got.value = item.value
            BY <1>1, <1>2, <1>6, <2>1 DEF Update, Calls, Loadable, None
        <3>3. Write(writes + 1, item.revision + 1, item.life) /\ Called(c, "success") /\ UNCHANGED known
            BY <1>6, <2>1 DEF Update
        <3>4. item.value <= writes
            BY <1>1, <3>1 DEF Loadable
        <3>5. item' # item
            BY <1>1, <3>3, <3>4 DEF Write, Record
        <3> QED BY <1>1, <1>6, <3>1, <3>2, <3>3, <3>5, CalledKeeps
                DEF Update, Calls, ItemStep, Statuses
    <2>2. CASE item.revision # op[c].expected
        BY <1>1, <1>6, <2>2, CalledKeeps DEF Update, Calls, ItemStep, Statuses
    <2> QED BY <2>1, <2>2
<1>7. CASE Remove(c)
    <2>1. CASE item.revision = op[c].expected
        <3>1. item # None /\ item' # item
            BY <1>2, <1>7, <2>1 DEF Remove, Calls, None
        <3>2. known[c].got.life = item.life => known[c].got.value = item.value
            BY <1>1, <1>2, <1>7, <2>1 DEF Remove, Calls, Loadable, None
        <3> QED BY <1>1, <1>7, <2>1, <3>1, <3>2, CalledKeeps DEF Remove, Calls, ItemStep, Statuses
    <2>2. CASE item.revision # op[c].expected
        BY <1>1, <1>7, <2>2, CalledKeeps DEF Remove, Calls, ItemStep, Statuses
    <2> QED BY <2>1, <2>2
<1>8. CASE PlatformFails(c)
    BY <1>1, <1>8, CalledKeeps DEF PlatformFails, ItemStep, Statuses
<1> QED BY <1>4, <1>5, <1>6, <1>7, <1>8

LEMMA AfterCallKeeps ==
    ASSUME KeychainInv, NEW c \in Clients, AfterCall(c)
    PROVE  KeychainInv'
<1>1. TypeOK /\ ClientFits(c) /\ op[c] \in Operation /\ op[c] # Idle /\ op[c].at = "called"
    BY BusyOperation DEF KeychainInv, AfterCall
<1> DEFINE result == IF c \in stopped THEN "stopped" ELSE MapStatus(c)
           o == [op[c] EXCEPT !.at = "answered", !.result = result]
<1>2. MapStatus(c) \in {"succeeded", "conflict", "failed", "notFound"}
      /\ (MapStatus(c) = "succeeded" <=> op[c].status = "success")
    BY <1>1 DEF ClientFits, StatusFits, MapStatus, Operation, Statuses
<1>3. op' = [op EXCEPT ![c] = o]
    BY <1>1 DEF AfterCall, Answer, TypeOK
<1>4. /\ o \in Operation /\ o # Idle /\ o.at = "answered" /\ o.result = result
      /\ o.kind = op[c].kind /\ o.expected = op[c].expected
      /\ o.before = op[c].before /\ o.after = op[c].after
    BY <1>1, <1>2 DEF Operation, Idle
<1>5. /\ op' \in [Clients -> {Idle} \cup Operation] /\ op'[c] = o
      /\ \A d \in Clients : d # c => op'[d] = op[d]
    BY <1>1, <1>3, <1>4, GoesTo DEF Goes
<1>6. UNCHANGED <<item, writes, known>> /\ known' \in [Clients -> [loaded : BOOLEAN, got : Record]]
    BY <1>1 DEF AfterCall, TypeOK
<1>7. StatusFits(c)' /\ AnswerFits(c)' /\ ChangeFits(c)'
    BY <1>1, <1>2, <1>4, <1>5, <1>6
    DEF ClientFits, StatusFits, AnswerFits, ChangeFits, Before, Writer, Applied
<1>8. ExpectationFits(c)'
    BY <1>1, <1>4, <1>5, <1>6 DEF ClientFits, ExpectationFits, Writer, Loadable
<1> QED BY <1>5, <1>6, <1>7, <1>8, AloneKeeps DEF Alone, ItemStep, ClientFits

LEMMA IdleFits ==
    ASSUME NEW c \in Clients, op[c] = Idle, Loadable(known[c].got)
    PROVE  ClientFits(c)
BY DEF ClientFits, StatusFits, ExpectationFits, AnswerFits, ChangeFits, Before, Writer, Idle

LEMMA ReturnKeeps ==
    ASSUME KeychainInv, NEW c \in Clients, Return(c)
    PROVE  KeychainInv'
<1>1. TypeOK /\ ClientFits(c) /\ op[c] \in Operation /\ UNCHANGED <<item, writes>>
    BY BusyOperation DEF KeychainInv, Return
<1>2. Nothing.got = None /\ Nothing \in [loaded : BOOLEAN, got : Record]
    BY DEF Nothing, None, Record
<1>3. /\ known' \in [Clients -> [loaded : BOOLEAN, got : Record]]
      /\ \A d \in Clients : d # c => known'[d] = known[d]
      /\ known'[c].got # None => op[c].kind = "load" /\ known'[c].got = op[c].after
    <2> DEFINE got == IF op[c].kind = "load" /\ op[c].result \in {"succeeded", "notFound"}
                      THEN [loaded |-> TRUE, got |-> op[c].after] ELSE Nothing
    <2>1. known' = [known EXCEPT ![c] = got]
        BY DEF Return
    <2>2. /\ got \in [loaded : BOOLEAN, got : Record]
          /\ got.got # None => op[c].kind = "load" /\ got.got = op[c].after
        <3>1. CASE got = Nothing
            <4> HIDE DEF got
            <4> QED BY <1>2, <3>1
        <3>2. CASE op[c].kind = "load" /\ got = [loaded |-> TRUE, got |-> op[c].after]
            <4>1. op[c].after \in Record
                BY <1>1 DEF Operation
            <4> HIDE DEF got
            <4> QED BY <3>2, <4>1
        <3> QED BY <3>1, <3>2
    <2> HIDE DEF got
    <2> QED BY <1>1, <2>1, <2>2 DEF TypeOK
<1>4. /\ op' \in [Clients -> {Idle} \cup Operation] /\ op'[c] = Idle
      /\ \A d \in Clients : d # c => op'[d] = op[d]
    BY <1>1, GoesTo DEF Return, Goes
<1>5. Loadable(known[c].got)'
    BY <1>1, <1>3 DEF ClientFits, ExpectationFits, Loadable
<1>6. ClientFits(c)'
    BY <1>4, <1>5, IdleFits DEF ClientFits, StatusFits, ExpectationFits, AnswerFits, ChangeFits,
       Before, Writer, Idle
<1> QED BY <1>1, <1>3, <1>4, <1>6, AloneKeeps DEF Alone, ItemStep

LEMMA UntouchedKeep ==
    ASSUME KeychainInv, UNCHANGED <<item, writes>>,
           op' \in [Clients -> {Idle} \cup Operation],
           known' \in [Clients -> [loaded : BOOLEAN, got : Record]],
           \A c \in Clients : \/ op'[c] = op[c] /\ known'[c] = known[c]
                              \/ op'[c] = Idle /\ known'[c] = Nothing
    PROVE  KeychainInv'
<1>1. TypeOK' /\ Loadable(item)'
    BY DEF KeychainInv, TypeOK, Loadable
<1>2. ASSUME NEW c \in Clients PROVE ClientFits(c)'
    <2>1. CASE op'[c] = op[c] /\ known'[c] = known[c]
        BY <2>1 DEF KeychainInv, ClientFits, StatusFits, ExpectationFits, AnswerFits, ChangeFits,
           Before, Writer, Loadable
    <2>2. CASE op'[c] = Idle /\ known'[c] = Nothing
        BY <2>2 DEF ClientFits, StatusFits, ExpectationFits, AnswerFits, ChangeFits,
           Before, Writer, Idle, Nothing, Loadable
    <2> QED BY <2>1, <2>2
<1> QED BY <1>1, <1>2 DEF KeychainInv

LEMMA CrashKeeps ==
    ASSUME KeychainInv, NEW s \in Stores, Crash(s)
    PROVE  KeychainInv'
<1>1. TypeOK /\ Nothing \in [loaded : BOOLEAN, got : Record] /\ UNCHANGED <<item, writes>>
    BY DEF KeychainInv, Crash, Nothing, None, Record
<1>2. /\ op' \in [Clients -> {Idle} \cup Operation]
      /\ known' \in [Clients -> [loaded : BOOLEAN, got : Record]]
    BY <1>1 DEF Crash, TypeOK
<1>3. \A c \in Clients : \/ op'[c] = op[c] /\ known'[c] = known[c]
                         \/ op'[c] = Idle /\ known'[c] = Nothing
    BY DEF Crash
<1> QED BY <1>1, <1>2, <1>3, UntouchedKeep

-----------------------------------------------------------------------------

LEMMA InitHolds == Init => KeychainInv
<1> SUFFICES ASSUME Init PROVE KeychainInv
    OBVIOUS
<1>1. None \in Record /\ Nothing \in [loaded : BOOLEAN, got : Record] /\ Nothing.got = None
    BY DEF None, Nothing, Record
<1>2. TypeOK /\ Loadable(item)
    BY <1>1 DEF Init, TypeOK, Loadable
<1>3. \A c \in Clients : ClientFits(c)
    BY <1>1, IdleFits DEF Init, Loadable
<1> QED BY <1>2, <1>3 DEF KeychainInv

LEMMA StepKeeps == ASSUME KeychainInv, [Next]_vars PROVE KeychainInv'
<1>1. TypeOK
    BY DEF KeychainInv
<1>2. CASE UNCHANGED vars
    BY <1>1, <1>2, UntouchedKeep DEF vars, TypeOK
<1>3. ASSUME NEW c \in Clients, Interrupt(c) PROVE KeychainInv'
    BY <1>1, <1>3, UntouchedKeep DEF Interrupt, TypeOK
<1> QED
    BY <1>2, <1>3, BeginKeeps, CheckKeeps, LockKeeps, PlatformKeeps, AfterCallKeeps,
       ReturnKeeps, CrashKeeps
    DEF Next, Kinds

LEMMA KeychainInvariant == Spec => []KeychainInv
<1>1. Init => KeychainInv
    BY InitHolds
<1>2. KeychainInv /\ [Next]_vars => KeychainInv'
    BY StepKeeps
<1> QED BY <1>1, <1>2, PTL DEF Spec

\* A writer that was not stopped is told what it did, whichever process was faster and
\* whatever the platform refused.
THEOREM WritersAreTold == Spec => []OnlyTheStoppedAreUnsure
<1>1. KeychainInv => OnlyTheStoppedAreUnsure
    BY DEF KeychainInv, ClientFits, AnswerFits, OnlyTheStoppedAreUnsure
<1> QED BY <1>1, KeychainInvariant, PTL

\* A writer changes only the value it loaded: no write in between, by a thread of its own
\* process or of another, is lost.
THEOREM NoWriteIsLost == Spec => []NoLostUpdate
<1>1. KeychainInv => NoLostUpdate
    BY DEF KeychainInv, ClientFits, ChangeFits, NoLostUpdate
<1> QED BY <1>1, KeychainInvariant, PTL

=============================================================================
