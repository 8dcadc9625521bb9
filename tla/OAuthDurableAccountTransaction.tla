-------------------- MODULE OAuthDurableAccountTransaction --------------------
(***************************************************************************)
(* Browser sign-ins that turn an issued grant into the account's stored    *)
(* record, or take it back: the exact record they wrote is deleted and the *)
(* grant revoked.  A fence per account - a generation and a count - settles *)
(* which of several sign-ins and a sign-out wins.  The authorization       *)
(* executor, the secret store, the sign-out owner and the broker that      *)
(* rotates a stored grant are outside.                                     *)
(***************************************************************************)
EXTENDS Naturals, FiniteSets

CONSTANTS Transactions,
          AccountOf,                \* the account each of them signs in
          Faulty,                   \* those whose calls may fail or lose answers
          MaxActiveAccountFences,
          SignOuts,                 \* accounts somebody signs out of
          MaxRotations              \* rotations by the broker (bound)

VARIABLES fence,        \* account -> [generation, active]; active 0: no fence
          txn,          \* transaction -> where it is and what it holds
          store,        \* account -> [revision, grant, turn]; revision 0: none
          granted,      \* transactions the issuer gave a grant
          revoked,      \* those whose grant the issuer took back
          interrupted,  \* those cancelled or out of time
          overtaken,    \* those a sign-out or a later sign-in has fenced
          outrun,       \* those whose record another deleted before their own delete
          signOut,      \* account -> state of its sign-out
          rotations

vars == <<fence, txn, store, granted, revoked, interrupted, overtaken, outrun,
          signOut, rotations>>

Accounts == {AccountOf[t] : t \in Transactions}
Nobody == "nobody"
NoRecord == [revision |-> 0, grant |-> Nobody, turn |-> 0]

Places == {"new", "authorizing", "qualifying", "loading", "storing",
           "committing", "reconciling", "deleting", "revoking", "ending", "over"}
\* "uncertain" is AuthPersistenceFailed, "failed" any other error.
Outcomes == {"none", "success", "failed", "uncertain", "busy"}

TypeOK ==
    /\ \A a \in Accounts : fence[a].generation \in Nat /\ fence[a].active \in Nat
    /\ \A t \in Transactions :
          /\ txn[t].at \in Places
          /\ txn[t].outcome \in Outcomes
          /\ txn[t].resolved \in BOOLEAN
          /\ {txn[t].generation, txn[t].expected} \subseteq Nat
    /\ \A a \in Accounts :
          /\ store[a].revision \in Nat
          /\ store[a].grant \in Transactions \cup {Nobody}
          /\ store[a].revision = 0 <=> store[a] = NoRecord
    /\ granted \cup revoked \cup interrupted \cup overtaken \cup outrun \subseteq Transactions
    /\ \A a \in Accounts :
          signOut[a].at \in {"no", "loading", "deleting", "done", "failed"}
    /\ rotations \in 0 .. MaxRotations

Init ==
    /\ fence = [a \in Accounts |-> [generation |-> 0, active |-> 0]]
    /\ txn = [t \in Transactions |->
                 [at |-> "new", outcome |-> "none", generation |-> 0,
                  expected |-> 0, resolved |-> TRUE]]
    /\ store = [a \in Accounts |-> NoRecord]
    /\ granted = {} /\ revoked = {} /\ interrupted = {} /\ overtaken = {}
    /\ outrun = {}
    /\ signOut = [a \in Accounts |-> [at |-> "no", revision |-> 0, before |-> {}]]
    /\ rotations = 0

\* Two answers for a call that may fail, the good one for any other.
Answers(t) == IF t \in Faulty THEN BOOLEAN ELSE {TRUE}

Goes(t, place) == txn' = [txn EXCEPT ![t].at = place]

\* On to the compensation: outcome is the error it would report.
Fails(t, place, error) ==
    txn' = [txn EXCEPT ![t].at = place, ![t].outcome = error]

Running(a) ==
    {t \in Transactions : AccountOf[t] = a /\ txn[t].at \notin {"new", "over"}}

-----------------------------------------------------------------------------
(* The fence. *)

\* An operation of the account: an existing generation moves on.
BeginAuthorization(t) ==
    LET a == AccountOf[t] IN
    /\ txn[t].at = "new"
    /\ IF fence[a].active = 0
          /\ Cardinality({b \in Accounts : fence[b].active > 0})
                >= MaxActiveAccountFences
       THEN /\ txn' = [txn EXCEPT ![t].at = "over", ![t].outcome = "busy"]
            /\ UNCHANGED <<fence, overtaken>>
       ELSE /\ fence' = [fence EXCEPT ![a] =
                           [generation |-> @.generation + 1, active |-> @.active + 1]]
            /\ txn' = [txn EXCEPT ![t].at = "authorizing",
                                  ![t].generation = fence[a].generation + 1]
            /\ overtaken' = overtaken \cup Running(a)
    /\ UNCHANGED <<store, granted, revoked, interrupted, outrun, signOut, rotations>>

\* Mutant: the first to end takes the fence with it.
FirstTakesAll(f) == [generation |-> 0, active |-> 0]

\* The fence goes with the last operation, and its generation with it.
Released(f) ==
    IF f.active = 1 THEN [generation |-> 0, active |-> 0]
    ELSE [f EXCEPT !.active = IF @ = 0 THEN 0 ELSE @ - 1]

EndAuthorization(t) ==
    /\ txn[t].at = "ending"
    /\ Goes(t, "over")
    /\ fence' = [fence EXCEPT ![AccountOf[t]] = Released(@)]
    /\ UNCHANGED <<store, granted, revoked, interrupted, overtaken, outrun, signOut,
                   rotations>>

\* Mutant: only the token and the deadline are looked at.
Uninterrupted(t) == t \notin interrupted

IsCommitCandidateCurrent(t) ==
    /\ t \notin interrupted
    /\ fence[AccountOf[t]].active > 0
    /\ fence[AccountOf[t]].generation = txn[t].generation

-----------------------------------------------------------------------------
(* AuthorizeAndCommit. *)

\* A failure after the executor issued a credential takes that back; one
\* whose credential could not be copied is taken back as well.
Authorize(t, issued, accepted) ==
    /\ txn[t].at = "authorizing"
    /\ accepted => issued
    /\ IF ~issued
       THEN Fails(t, "ending", "failed") /\ UNCHANGED granted
       ELSE /\ granted' = granted \cup {t}
            /\ IF accepted THEN Goes(t, "qualifying")
               ELSE Fails(t, "revoking", "failed")
    /\ UNCHANGED <<fence, store, revoked, interrupted, overtaken, outrun, signOut,
                   rotations>>

\* The checks before the store is touched: twice that the operation is still
\* current, which cannot become true again, and that the grant is complete,
\* names the account, covers the scopes and can be encoded.
Qualify(t, valid) ==
    /\ txn[t].at = "qualifying"
    /\ IF valid /\ IsCommitCandidateCurrent(t) THEN Goes(t, "loading")
       ELSE Fails(t, "revoking", "failed")
    /\ UNCHANGED <<fence, store, granted, revoked, interrupted, overtaken, outrun, signOut,
                   rotations>>

\* The record a store of this transaction would replace.
LoadExisting(t, answered) ==
    /\ txn[t].at = "loading"
    /\ IF ~IsCommitCandidateCurrent(t) THEN Fails(t, "revoking", "failed")
       ELSE IF ~answered THEN Fails(t, "revoking", "uncertain")
       ELSE txn' = [txn EXCEPT ![t].at = "storing",
                               ![t].expected = store[AccountOf[t]].revision]
    /\ UNCHANGED <<fence, store, granted, revoked, interrupted, overtaken, outrun, signOut,
                   rotations>>

\* The compare-and-swap, which may be applied without an answer, or neither.
StoreGrant(t, applied, answered) ==
    LET a == AccountOf[t]
        matches == store[a].revision = txn[t].expected
    IN
    /\ txn[t].at = "storing"
    /\ applied => matches
    /\ answered => (applied <=> matches)
    /\ store' = IF applied
                THEN [store EXCEPT ![a] = [revision |-> @.revision + 1,
                                           grant |-> t, turn |-> 0]]
                ELSE store
    /\ IF answered /\ applied THEN Goes(t, "committing")
       ELSE Fails(t, "reconciling", "uncertain")
    /\ UNCHANGED <<fence, granted, revoked, interrupted, overtaken, outrun, signOut,
                   rotations>>

\* The last look at token, deadline, expiry, result and fence.
Commit(t, valid) ==
    /\ txn[t].at = "committing"
    /\ IF valid /\ IsCommitCandidateCurrent(t)
       THEN txn' = [txn EXCEPT ![t].at = "ending", ![t].outcome = "success"]
       ELSE Fails(t, "reconciling", "failed")
    /\ UNCHANGED <<fence, store, granted, revoked, interrupted, overtaken, outrun, signOut,
                   rotations>>

\* Mutant: the revision alone is taken for the attempt.
SameRevision(t) == store[AccountOf[t]].revision = txn[t].expected + 1

\* The record is this attempt's: its revision and its value.
ExactAttempt(t) ==
    /\ store[AccountOf[t]].revision = txn[t].expected + 1
    /\ store[AccountOf[t]].grant = t /\ store[AccountOf[t]].turn = 0

\* Mutant: somebody else's record settles the attempt.
AnyAnswerSettles(t) == TRUE

NothingStored(t) == store[AccountOf[t]].revision = 0

\* ReconcileAttemptedStore: what became of the attempt.
Reconcile(t, answered) ==
    /\ txn[t].at = "reconciling"
    /\ txn' = [txn EXCEPT
                 ![t].at = IF answered /\ ExactAttempt(t) THEN "deleting"
                           ELSE "revoking",
                 ![t].resolved = answered /\ NothingStored(t)]
    /\ UNCHANGED <<fence, store, granted, revoked, interrupted, overtaken, outrun, signOut,
                   rotations>>

Deleting(a) == {t \in Transactions : AccountOf[t] = a /\ txn[t].at = "deleting"}

DeleteAttempt(t, applied, answered) ==
    LET a == AccountOf[t]
        matches == store[a].revision = txn[t].expected + 1
    IN
    /\ txn[t].at = "deleting"
    /\ applied => matches
    /\ answered => (applied <=> matches)
    /\ store' = IF applied THEN [store EXCEPT ![a] = NoRecord] ELSE store
    /\ txn' = [txn EXCEPT ![t].at = "revoking",
                          ![t].resolved = answered /\ (applied \/ NothingStored(t))]
    /\ outrun' = IF applied THEN outrun \cup (Deleting(a) \ {t}) ELSE outrun
    /\ UNCHANGED <<fence, granted, revoked, interrupted, overtaken, signOut,
                   rotations>>

\* Mutant: the revocation's answer is not part of the outcome.
LocalOnly(t, answered) == txn[t].resolved

Compensated(t, answered) == txn[t].resolved /\ answered

\* RevokeIssuedGrantToken, then FailAfterAuthorization's verdict.
Revoke(t, applied, answered) ==
    /\ txn[t].at = "revoking"
    /\ answered => applied
    /\ revoked' = IF applied THEN revoked \cup {t} ELSE revoked
    /\ txn' = [txn EXCEPT ![t].at = "ending",
                          ![t].outcome = IF Compensated(t, answered) THEN @
                                         ELSE "uncertain"]
    /\ UNCHANGED <<fence, store, granted, interrupted, overtaken, outrun, signOut,
                   rotations>>

-----------------------------------------------------------------------------
(* Around it: the token and the clock, the owner of a sign-out, the broker. *)

Interrupt(t) ==
    /\ t \in Faulty \ interrupted
    /\ txn[t].at \notin {"new", "ending", "over"}
    /\ interrupted' = interrupted \cup {t}
    /\ UNCHANGED <<fence, txn, store, granted, revoked, overtaken, outrun, signOut,
                   rotations>>

InvalidateAccountForSignOut(a) ==
    /\ a \in SignOuts
    /\ signOut[a].at = "no"
    /\ signOut' = [signOut EXCEPT ![a] =
                     [@ EXCEPT !.at = "loading",
                               !.before = {t \in Transactions :
                                              AccountOf[t] = a /\ txn[t].at # "new"}]]
    /\ fence' = IF fence[a].active > 0
                THEN [fence EXCEPT ![a].generation = @ + 1] ELSE fence
    /\ overtaken' = overtaken \cup Running(a)
    /\ UNCHANGED <<txn, store, granted, revoked, interrupted, outrun, rotations>>

\* The account provider then loads the record and deletes what it loaded.
SignOutLoads(a) ==
    /\ signOut[a].at = "loading"
    /\ signOut' = [signOut EXCEPT ![a].revision = store[a].revision,
                     ![a].at = IF store[a].revision = 0 THEN "done" ELSE "deleting"]
    /\ UNCHANGED <<fence, txn, store, granted, revoked, interrupted, overtaken,
                   outrun, rotations>>

SignOutDeletes(a) ==
    /\ signOut[a].at = "deleting"
    /\ IF store[a].revision = signOut[a].revision
       THEN /\ store' = [store EXCEPT ![a] = NoRecord]
            /\ signOut' = [signOut EXCEPT ![a].at = "done"]
            /\ outrun' = outrun \cup Deleting(a)
       ELSE /\ signOut' = [signOut EXCEPT ![a].at =
                             IF store[a].revision = 0 THEN "done" ELSE "failed"]
            /\ UNCHANGED <<store, outrun>>
    /\ UNCHANGED <<fence, txn, granted, revoked, interrupted, overtaken, rotations>>

\* The broker replaces a stored grant by its refreshed successor.
Rotate(a) ==
    /\ rotations < MaxRotations
    /\ store[a].revision > 0
    /\ store' = [store EXCEPT ![a].revision = @ + 1, ![a].turn = @ + 1]
    /\ rotations' = rotations + 1
    /\ UNCHANGED <<fence, txn, granted, revoked, interrupted, overtaken, outrun, signOut>>

-----------------------------------------------------------------------------

Finished ==
    /\ \A t \in Transactions : txn[t].at = "over"
    /\ UNCHANGED vars

Next ==
    \/ \E t \in Transactions :
          \/ BeginAuthorization(t) \/ EndAuthorization(t) \/ Interrupt(t)
          \/ \E b \in Answers(t) : \/ Qualify(t, b) \/ LoadExisting(t, b)
                                   \/ Commit(t, b) \/ Reconcile(t, b)
          \/ \E b, c \in Answers(t) : \/ Authorize(t, b, c) \/ Revoke(t, b, c)
          \/ \E b \in BOOLEAN, c \in Answers(t) :
                StoreGrant(t, b, c) \/ DeleteAttempt(t, b, c)
    \/ \E a \in Accounts :
          \/ InvalidateAccountForSignOut(a) \/ SignOutLoads(a) \/ SignOutDeletes(a)
          \/ Rotate(a)
    \/ Finished

Spec == Init /\ [][Next]_vars

-----------------------------------------------------------------------------
(* Properties. *)

Over(t) == txn[t].at = "over"

\* A sign-in that fails with anything but AuthPersistenceFailed has left
\* nothing behind: its grant is not stored, also after lost answers and
\* rotations, and the issuer has taken it back.
FailureLeavesNothing ==
    \A t \in Transactions :
       Over(t) /\ txn[t].outcome = "failed" =>
          /\ store[AccountOf[t]].grant # t
          /\ t \in granted => t \in revoked

\* "Linearizes sign-out ahead of any unclaimed commit": once a sign-out has
\* ended well no sign-in begun before it leaves its grant in the store, unless
\* it says so with AuthPersistenceFailed.
SignedOutIsEmpty ==
    \A t \in Transactions :
       LET a == AccountOf[t] IN
       signOut[a].at = "done" /\ t \in signOut[a].before /\ store[a].grant = t =>
          ~Over(t) \/ txn[t].outcome = "uncertain"

\* A sign-in fenced by a sign-out or a later sign-in never succeeds after it,
\* though the account's generations start again once its fence is gone.
NoneCommitsOvertaken ==
    \A t \in Transactions :
       t \in overtaken /\ txn'[t].outcome = "success" => txn[t].outcome = "success"

OvertakenNeverCommits == [][NoneCommitsOvertaken]_vars

\* Compensation deletes "only its exact attempted store value": a committed
\* grant leaves the store by a sign-out or for a later sign-in's.  The
\* compensation of another deletes it only when that one's own record was
\* deleted after it had been read back: revisions start again at one.
SparesCommitted ==
    \A t \in Transactions :
       LET a == AccountOf[t] IN
       txn[t].outcome = "success" /\ store[a].grant = t =>
          \/ store'[a].grant # Nobody
          \/ signOut[a].at # "done" /\ signOut'[a].at = "done"
          \/ \E s \in outrun : txn[s].at = "deleting" /\ txn'[s].at # "deleting"

CommittedIsSpared == [][SparesCommitted]_vars

=============================================================================
