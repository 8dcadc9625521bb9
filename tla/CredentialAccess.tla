---------------------------- MODULE CredentialAccess ----------------------------
(***************************************************************************)
(* The revocation protocol between a credential freshness source and the   *)
(* access contexts whose tokens it issued: FCredentialFreshnessState, its  *)
(* tokens, and TryDispatch of both kinds of context.  A dispatch holds the *)
(* read lock; Invalidate and BeginShutdown only try the write lock.        *)
(*                                                                         *)
(* A step is one atomic access, or a stretch under one lock that reads     *)
(* nothing others write.  The clock is external: a lease may be found      *)
(* expired whenever it is looked at.                                       *)
(***************************************************************************)
EXTENDS Naturals, FiniteSets

CONSTANTS Credentialed,    \* contexts that carry a lease
          Anonymous,       \* contexts that carry a route only
          Dispatchers,     \* threads that make and dispatch contexts
          Administrators,  \* threads that invalidate and shut down
          MaxGeneration    \* bound: the greatest generation word

VARIABLES source,     \* FCredentialFreshnessState
          context,    \* the access contexts
          thread,     \* where each thread is
          applied,    \* dispatches of each context
          revoked,    \* contexts revoked by a call that has returned
          quiet       \* those of a call that returned true

vars == <<source, context, thread, applied, revoked, quiet>>

Contexts == Credentialed \union Anonymous
Threads == Dispatchers \union Administrators

Idle == [pc |-> "idle", on |-> "none", saw |-> {}]

Init ==
    /\ source = [gen |-> 1, down |-> FALSE, closing |-> FALSE, revoking |-> FALSE,
                 readers |-> {}, writer |-> FALSE]
    /\ context = [c \in Contexts |-> [token |-> 0, ready |-> FALSE, claimed |-> FALSE,
                                      mutex |-> FALSE]]
    /\ thread = [t \in Threads |-> Idle]
    /\ applied = [c \in Contexts |-> 0]
    /\ revoked = {}
    /\ quiet = {}

-----------------------------------------------------------------------------
Open == ~source.closing /\ ~source.revoking

\* A token is compared under the read lock, which a flag makes unnecessary.
CanRead == ~Open \/ ~source.writer

Fresh(c) == Open /\ ~source.down /\ source.gen = context[c].token

Issued == {c \in Contexts : context[c].token # 0}

Goto(t, pc) == thread' = [thread EXCEPT ![t].pc = pc]
Return(t) == thread' = [thread EXCEPT ![t] = Idle]

-----------------------------------------------------------------------------
(* A context: GetToken, then Create *)

GetToken(t, c) ==
    /\ thread[t].pc = "idle" /\ context[c].token = 0 /\ CanRead
    /\ \A u \in Threads : thread[u].on # c
    /\ Open /\ ~source.down
    /\ context' = [context EXCEPT ![c].token = source.gen]
    /\ thread' = [thread EXCEPT ![t] = [Idle EXCEPT !.pc = "create", !.on = c]]
    /\ UNCHANGED <<source, applied, revoked, quiet>>

\* TryCreate and CreateCredentialed, or CreateAnonymous.
Create(t) ==
    /\ thread[t].pc = "create" /\ CanRead
    /\ context' = [context EXCEPT ![thread[t].on].ready = Fresh(thread[t].on)]
    /\ Return(t)
    /\ UNCHANGED <<source, applied, revoked, quiet>>

-----------------------------------------------------------------------------
(* TryDispatch *)

\* A credentialed context is claimed under its mutex, which the thread keeps;
\* a claimed one, and one of another destination, are refused unconsumed.
ClaimLease(t, c) ==
    /\ thread[t].pc = "idle" /\ c \in Credentialed /\ context[c].ready
    /\ ~context[c].claimed /\ ~context[c].mutex
    /\ context' = [context EXCEPT ![c].claimed = TRUE, ![c].mutex = TRUE]
    /\ thread' = [thread EXCEPT ![t] = [Idle EXCEPT !.pc = "screen", !.on = c]]
    /\ UNCHANGED <<source, applied, revoked, quiet>>

\* Mutant: the anonymous claim is read, and stored by nobody.
ReadClaim(c) == UNCHANGED context

ExchangeClaim(c) == context' = [context EXCEPT ![c].claimed = TRUE]

\* An anonymous context is consumed even when the destination is another.
ClaimRoute(t, c) ==
    /\ thread[t].pc = "idle" /\ c \in Anonymous /\ context[c].ready
    /\ ~context[c].claimed
    /\ ExchangeClaim(c)
    /\ \/ thread' = [thread EXCEPT ![t] = [Idle EXCEPT !.pc = "screen", !.on = c]]
       \/ UNCHANGED thread
    /\ UNCHANGED <<source, applied, revoked, quiet>>

\* Leaving TryDispatch: the mutex is left, the lease is gone.
Unlocked(c) == [context EXCEPT ![c].mutex = FALSE]

Refuse(t) ==
    /\ context' = Unlocked(thread[t].on)
    /\ Return(t)

\* IsCurrent, before the lock.
Screen(t) ==
    /\ thread[t].pc = "screen" /\ CanRead
    /\ \/ Fresh(thread[t].on) /\ Goto(t, "lock") /\ UNCHANGED context
       \/ ~Fresh(thread[t].on) /\ Refuse(t)
    /\ UNCHANGED <<source, applied, revoked, quiet>>

LockShared(t) ==
    /\ thread[t].pc = "lock" /\ ~source.writer
    /\ source' = [source EXCEPT !.readers = @ \union {t}]
    /\ Goto(t, "recheck")
    /\ UNCHANGED <<context, applied, revoked, quiet>>

\* Mutant: only the generation is compared again under the lock.
CheckedBefore(c) == source.gen = context[c].token

FreshUnderLock(c) == Fresh(c)

\* The lock is held from the comparison to the end of the dispatch.
Recheck(t) ==
    /\ thread[t].pc = "recheck"
    /\ \/ /\ FreshUnderLock(thread[t].on)
          /\ applied' = [applied EXCEPT ![thread[t].on] = @ + 1]
          /\ Goto(t, "dispatching")
          /\ UNCHANGED <<source, context>>
       \/ /\ ~FreshUnderLock(thread[t].on)
          /\ source' = [source EXCEPT !.readers = @ \ {t}]
          /\ Refuse(t)
          /\ UNCHANGED applied
    /\ UNCHANGED <<revoked, quiet>>

\* IsExpired, looked at before and under the lock.
Expired(t) ==
    /\ thread[t].pc \in {"lock", "recheck"} /\ thread[t].on \in Credentialed
    /\ source' = [source EXCEPT !.readers = @ \ {t}]
    /\ Refuse(t)
    /\ UNCHANGED <<applied, revoked, quiet>>

Dispatched(t) ==
    /\ thread[t].pc = "dispatching"
    /\ source' = [source EXCEPT !.readers = @ \ {t}]
    /\ Refuse(t)
    /\ UNCHANGED <<applied, revoked, quiet>>

-----------------------------------------------------------------------------
(* Revocation *)

\* What the caller may rely on from now on.
Answer(t, result) ==
    /\ revoked' = revoked \union thread[t].saw
    /\ quiet' = IF result THEN quiet \union thread[t].saw ELSE quiet
    /\ Return(t)

Invalidate(t) ==
    /\ thread[t].pc = "idle"
    /\ \/ ~source.closing
          /\ thread' = [thread EXCEPT ![t] = [Idle EXCEPT !.pc = "revoke", !.saw = Issued]]
          /\ UNCHANGED revoked
       \/ source.closing /\ revoked' = revoked \union Issued /\ UNCHANGED thread
    /\ UNCHANGED <<source, context, applied, quiet>>

RequestRevocation(t) ==
    /\ thread[t].pc = "revoke"
    /\ source' = [source EXCEPT !.revoking = TRUE]
    /\ Goto(t, "advance")
    /\ UNCHANGED <<context, applied, revoked, quiet>>

\* Mutant: a reader does not keep a writer out.
NoWriter == ~source.writer

\* TryWriteLock
Lockable == ~source.writer /\ source.readers = {}

\* Under the lock nobody else reads or writes the generation.
Advance(t) ==
    /\ thread[t].pc = "advance"
    /\ \/ /\ ~Lockable \/ source.down
          /\ Answer(t, FALSE)
          /\ UNCHANGED source
       \/ /\ Lockable /\ ~source.down /\ source.gen = MaxGeneration
          /\ source' = [source EXCEPT !.down = TRUE]
          /\ Answer(t, FALSE)
       \/ /\ Lockable /\ ~source.down /\ source.gen < MaxGeneration
          /\ source' = [source EXCEPT !.gen = @ + 1, !.writer = TRUE]
          /\ Goto(t, "reopen")
          /\ UNCHANGED <<revoked, quiet>>
    /\ UNCHANGED <<context, applied>>

\* The shutdown flag is read, and the revocation flag is cleared after it.
Reopen(t) ==
    /\ thread[t].pc = "reopen"
    /\ Goto(t, IF source.closing THEN "unlock" ELSE "clear")
    /\ UNCHANGED <<source, context, applied, revoked, quiet>>

Clear(t) ==
    /\ thread[t].pc = "clear"
    /\ source' = [source EXCEPT !.revoking = FALSE]
    /\ Goto(t, "unlock")
    /\ UNCHANGED <<context, applied, revoked, quiet>>

UnlockWrite(t) ==
    /\ thread[t].pc = "unlock"
    /\ source' = [source EXCEPT !.writer = FALSE]
    /\ Answer(t, TRUE)
    /\ UNCHANGED <<context, applied>>

BeginShutdown(t) ==
    /\ thread[t].pc = "idle"
    /\ source' = [source EXCEPT !.closing = TRUE]
    /\ thread' = [thread EXCEPT ![t] = [Idle EXCEPT !.pc = "close", !.saw = Issued]]
    /\ UNCHANGED <<context, applied, revoked, quiet>>

RequestShutdown(t) ==
    /\ thread[t].pc = "close"
    /\ source' = [source EXCEPT !.revoking = TRUE]
    /\ Goto(t, "down")
    /\ UNCHANGED <<context, applied, revoked, quiet>>

ShutDown(t) ==
    /\ thread[t].pc = "down"
    /\ \/ ~Lockable /\ Answer(t, FALSE) /\ UNCHANGED source
       \/ /\ Lockable
          /\ source' = [source EXCEPT !.down = TRUE]
          /\ Answer(t, ~source.down)
    /\ UNCHANGED <<context, applied>>

\* Invalidate and BeginShutdown called by the dispatcher itself never try the
\* lock its thread holds.
InvalidateInside(t) ==
    /\ thread[t].pc = "dispatching"
    /\ source' = [source EXCEPT !.revoking = ~source.closing \/ @]
    /\ revoked' = revoked \union Issued
    /\ UNCHANGED <<context, thread, applied, quiet>>

BeginShutdownInside(t) ==
    /\ thread[t].pc = "dispatching"
    /\ source' = [source EXCEPT !.closing = TRUE, !.revoking = TRUE]
    /\ revoked' = revoked \union Issued
    /\ UNCHANGED <<context, thread, applied, quiet>>

-----------------------------------------------------------------------------
Next ==
    \/ \E t \in Dispatchers :
          \/ \E c \in Contexts : GetToken(t, c) \/ ClaimLease(t, c) \/ ClaimRoute(t, c)
          \/ Create(t) \/ Screen(t) \/ LockShared(t) \/ Recheck(t) \/ Expired(t)
          \/ Dispatched(t) \/ InvalidateInside(t) \/ BeginShutdownInside(t)
    \/ \E t \in Administrators :
          \/ Invalidate(t) \/ RequestRevocation(t) \/ Advance(t) \/ Reopen(t)
          \/ Clear(t) \/ UnlockWrite(t)
          \/ BeginShutdown(t) \/ RequestShutdown(t) \/ ShutDown(t)

Spec == Init /\ [][Next]_vars

-----------------------------------------------------------------------------
(* Properties *)

\* Once a call to Invalidate or BeginShutdown has returned, whatever it
\* returned, no context issued before the call passes its last freshness
\* check: "false still leaves every token fail-closed".  Invalidate clears the
\* request flag that a concurrent call may just have set.
RevokedIsNeverGranted ==
    [][\A t \in Threads :
        thread'[t].pc = "dispatching" /\ thread[t].pc # "dispatching" =>
            thread[t].on \notin revoked]_vars

\* After a call that returned true, no dispatch of an older context is in
\* progress: the secret is not in use any more.
QuietAfterInvalidate ==
    \A t \in Threads :
        thread[t].pc = "dispatching" => thread[t].on \notin quiet

\* Two threads that dispatch one context present its credential once.
OneDispatch == \A c \in Contexts : applied[c] <= 1

=============================================================================
