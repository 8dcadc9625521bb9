------------------------------ MODULE OidcKeyCache ------------------------------
(***************************************************************************)
(* The verification of identity tokens in the authorization kernel: the key *)
(* set of the issuer is cached, and fetched again when a token's key is not *)
(* in it or does not fit, while the issuer rotates and withdraws its keys.  *)
(***************************************************************************)
EXTENDS Naturals

CONSTANTS Verifications, \* bound: the calls of VerifyIdToken
          KeyIdOf,       \* of the keys the issuer makes, 1 and up (a bound, too)
          Timeout,       \* of a verification: its operation context's deadline
          CacheAge,      \* the least of the issuer's and the request's maximum age
          MaxTime        \* bound: of the clock

ABSENT == 0
KeyIds == {KeyIdOf[v] : v \in DOMAIN KeyIdOf}
NEVER == MaxTime + 1

VARIABLES published, \* by the issuer: the key of each identifier, ABSENT for none
          made,      \* how many keys it made
          withdrawn, \* when each was withdrawn
          cache,     \* KeyCache: key set and the time it was cached
          check,     \* the thread of each verification
          now

vars == <<published, made, withdrawn, cache, check, now>>
issuerVars == <<published, made, withdrawn>>

NoKeys == [k \in KeyIds |-> ABSENT]
NoEntry == [keys |-> NoKeys, at |-> NEVER]
Idle == [at |-> "new", kid |-> "none", key |-> ABSENT, deadline |-> 0, keys |-> NoKeys,
         forced |-> FALSE, result |-> "none", end |-> 0]

Init ==
    /\ published = [NoKeys EXCEPT ![KeyIdOf[1]] = 1]
    /\ made = 1
    /\ withdrawn = [v \in DOMAIN KeyIdOf |-> NEVER]
    /\ cache = NoEntry
    /\ check = [c \in Verifications |-> Idle]
    /\ now = 0

-----------------------------------------------------------------------------
(* The issuer: external *)

Withdrawing(v) == IF v = ABSENT THEN withdrawn ELSE [withdrawn EXCEPT ![v] = now]

\* A new key, under an identifier of its own or in place of another.
Rotate ==
    /\ made + 1 \in DOMAIN KeyIdOf /\ made' = made + 1
    /\ published' = [published EXCEPT ![KeyIdOf[made + 1]] = made + 1]
    /\ withdrawn' = Withdrawing(published[KeyIdOf[made + 1]])
    /\ UNCHANGED <<cache, check, now>>

Withdraw(k) ==
    /\ published[k] # ABSENT
    /\ published' = [published EXCEPT ![k] = ABSENT]
    /\ withdrawn' = Withdrawing(published[k])
    /\ UNCHANGED <<made, cache, check, now>>

Tick ==
    /\ now < MaxTime /\ now' = now + 1
    /\ \E c \in Verifications : check[c].result = "none"
    /\ UNCHANGED <<issuerVars, cache, check>>

-----------------------------------------------------------------------------
(* A verification *)

At(c, place) == check[c].at = place
Over(c) == now >= check[c].deadline

Ends(c, result) == check' = [check EXCEPT ![c].at = "over", ![c].result = result, ![c].end = now]

\* The token the exchange returned and its header.  The issuer may still
\* sign with a key it no longer publishes.
InspectProtectedHeader(c) ==
    /\ At(c, "new")
    /\ \E v \in 1 .. made :
          check' = [check EXCEPT ![c].kid = KeyIdOf[v], ![c].key = v,
                                 ![c].deadline = now + Timeout, ![c].at = "looking"]
    /\ UNCHANGED <<issuerVars, cache, now>>

Fresh == cache.at # NEVER /\ now - cache.at < CacheAge

\* Mutant: what is cached does for a forced refresh too.
LookUnforced(c) ==
    /\ At(c, "looking")
    /\ IF Over(c) THEN Ends(c, "ended")
       ELSE check' = [check EXCEPT ![c].keys = IF Fresh THEN cache.keys ELSE @,
                                   ![c].at = IF Fresh THEN "finding" ELSE "fetching"]
    /\ UNCHANGED <<issuerVars, cache, now>>

\* FetchKeySet: the cached keys, under the mutex.
Look(c) ==
    /\ At(c, "looking")
    /\ LET hit == ~check[c].forced /\ Fresh
       IN IF Over(c) THEN Ends(c, "ended")
          ELSE check' = [check EXCEPT ![c].keys = IF hit THEN cache.keys ELSE @,
                                      ![c].at = IF hit THEN "finding" ELSE "fetching"]
    /\ UNCHANGED <<issuerVars, cache, now>>

\* The issuer answers with what it publishes at that moment, or does not.
Fetch(c) ==
    /\ At(c, "fetching")
    /\ \/ check' = [check EXCEPT ![c].keys = published, ![c].at = "fetched"]
       \/ Ends(c, IF Over(c) THEN "ended" ELSE "failed")
    /\ UNCHANGED <<issuerVars, cache, now>>

\* Mutant: an answer is good however late it comes.
CacheLate(c) ==
    /\ At(c, "fetched")
    /\ cache' = [keys |-> check[c].keys, at |-> now]
    /\ check' = [check EXCEPT ![c].at = "finding"]
    /\ UNCHANGED <<issuerVars, now>>

\* The answer replaces what is cached, which may be newer.
CacheKeySet(c) ==
    /\ At(c, "fetched")
    /\ IF Over(c) \/ check[c].keys = NoKeys
       THEN Ends(c, IF Over(c) THEN "ended" ELSE "failed") /\ UNCHANGED cache
       ELSE /\ cache' = [keys |-> check[c].keys, at |-> now]
            /\ check' = [check EXCEPT ![c].at = "finding"]
    /\ UNCHANGED <<issuerVars, now>>

\* FindKey, then VerifyAndDecodeIdToken: the first time the key is missing or
\* rejects the signature, the key set is fetched again.
Verify(c) ==
    /\ At(c, "finding")
    /\ LET fits == check[c].keys[check[c].kid] = check[c].key
       IN IF fits THEN check' = [check EXCEPT ![c].at = "verified"]
          ELSE IF check[c].forced THEN Ends(c, IF Over(c) THEN "ended" ELSE "rejected")
          ELSE check' = [check EXCEPT ![c].forced = TRUE, ![c].at = "looking"]
    /\ UNCHANGED <<issuerVars, cache, now>>

\* The claims are the request's and in time, or not.
ValidateClaims(c) ==
    /\ At(c, "verified")
    /\ IF Over(c) THEN Ends(c, "ended")
       ELSE \E result \in {"accepted", "refused"} : Ends(c, result)
    /\ UNCHANGED <<issuerVars, cache, now>>

ClearCaches ==
    /\ cache # NoEntry /\ cache' = NoEntry
    /\ UNCHANGED <<issuerVars, check, now>>

-----------------------------------------------------------------------------
Next ==
    \/ Rotate \/ \E k \in KeyIds : Withdraw(k)
    \/ \E c \in Verifications :
          \/ InspectProtectedHeader(c) \/ Look(c) \/ Fetch(c) \/ CacheKeySet(c) \/ Verify(c)
          \/ ValidateClaims(c)
    \/ ClearCaches \/ Tick

Spec == Init /\ [][Next]_vars

-----------------------------------------------------------------------------
(* Properties *)

\* No cache and no answer that overtook another rejects a token whose key the
\* issuer still publishes.
PublishedKeyIsNeverRejected ==
    \A c \in Verifications :
        check[c].result = "rejected" => withdrawn[check[c].key] <= check[c].end

\* A withdrawn key is accepted for the cache's age and the two fetches of it
\* that its deadlines bound, though an older answer may replace a newer one.
WithdrawnKeyIsForgotten ==
    \A c \in Verifications :
        check[c].result = "accepted" =>
            check[c].end < withdrawn[check[c].key] + CacheAge + 2 * Timeout

=============================================================================
