---------------------------- MODULE ContractKeys ----------------------------
(***************************************************************************)
(* The rotating JWKS cache behind the verification of signed identity      *)
(* contracts (ContractVerifier in runlet/src/contract.rs).                 *)
(*                                                                         *)
(* Concurrent requests look their key up, refresh the cache when it is     *)
(* missing and min_refresh allows, and look it up again; the cache's lock  *)
(* is not held over the fetch.  The endpoint rotates its keys, and may be  *)
(* down.  A token is its kid and what decode and the ctr gate say of it.   *)
(***************************************************************************)
EXTENDS Naturals, FiniteSets

CONSTANTS
    Verifications,     \* the requests that carry a contract
    Impatient,    \* those whose client may leave
    Kids,         \* the key ids the endpoint may publish
    Foreign,      \* a key id it never publishes
    MinRefresh,   \* ContractVerifier.min_refresh, in ticks
    Unset,        \* no value
    Failed        \* no answer, or one that does not parse

ASSUME KeysAssumption ==
    /\ IsFiniteSet(Verifications) /\ IsFiniteSet(Kids) /\ Impatient \subseteq Verifications
    /\ Foreign \notin Kids /\ MinRefresh \in Nat /\ Unset \notin Kids \cup {Foreign}
    /\ Failed # Unset

VARIABLES
    keys,         \* KeyCache.keys, as the set of their kids
    since,        \* ticks since KeyCache.last_refresh, up to MinRefresh; Unset before it
    stage,           \* request -> the step of verify it is at
    kid,          \* request -> the kid of its token
    fetched,      \* request -> what its own fetch_keys returned
    published,    \* the key set the endpoint serves (environment)
    up,           \* the endpoint answers (environment)
    loaded,       \* a fetch has succeeded (history)
    emptied       \* the endpoint has served no usable key (history)

keysVars == <<keys, since, stage, kid, fetched, published, up, loaded, emptied>>

Stages == {"idle", "lookup", "check", "sent", "received", "again", "decode",
          "accepted", "malformed", "unknown_key", "keys_unavailable", "invalid", "version"}
Ended == {"accepted", "malformed", "unknown_key", "keys_unavailable", "invalid", "version"}

\* ContractVerifier::new; the JWKS is fetched lazily.
KeysInit ==
    /\ keys = {} /\ since = Unset
    /\ stage = [r \in Verifications |-> "idle"]
    /\ kid = [r \in Verifications |-> Unset]
    /\ fetched = [r \in Verifications |-> Unset]
    /\ published \in SUBSET Kids /\ up = TRUE /\ loaded = FALSE
    /\ emptied = (published = {})

Enter(r, step) == stage' = [stage EXCEPT ![r] = step]

-----------------------------------------------------------------------------

\* verify: decode_header; a header without a kid is malformed.
DecodeHeader(r) ==
    /\ stage[r] = "idle"
    /\ \/ Enter(r, "malformed") /\ UNCHANGED kid
       \/ \E k \in Kids \cup {Foreign} :
             kid' = [kid EXCEPT ![r] = k] /\ Enter(r, "lookup")
    /\ UNCHANGED <<keys, since, fetched, published, up, loaded, emptied>>

\* key_for_kid: the cached key.
Lookup(r) ==
    /\ stage[r] = "lookup"
    /\ Enter(r, IF kid[r] \in keys THEN "decode" ELSE "check")
    /\ UNCHANGED <<keys, since, kid, fetched, published, up, loaded, emptied>>

MayRefresh == since = Unset \/ since >= MinRefresh

\* refresh_keys: too soon after the last one, or fetch_keys sends its request.
CheckRefresh(r) ==
    /\ stage[r] = "check"
    /\ Enter(r, IF MayRefresh THEN "sent" ELSE "again")
    /\ UNCHANGED <<keys, since, kid, fetched, published, up, loaded, emptied>>

\* fetch_keys: the endpoint's answer, parsed; None when it is down.
Answer(r) ==
    /\ stage[r] = "sent"
    /\ fetched' = [fetched EXCEPT ![r] = IF up THEN published ELSE Failed]
    /\ Enter(r, "received")
    /\ UNCHANGED <<keys, since, kid, published, up, loaded, emptied>>

\* Mutant: a failed fetch replaces the keys as well.
StoreAlways(r) ==
    /\ stage[r] = "received"
    /\ since' = 0
    /\ keys' = IF fetched[r] # Failed THEN fetched[r] ELSE {}
    /\ loaded' = (loaded \/ fetched[r] # Failed)
    /\ Enter(r, "again")
    /\ UNCHANGED <<kid, fetched, published, up, emptied>>

\* Mutant: a fetch only fills a cold cache.
StoreOnce(r) ==
    /\ stage[r] = "received"
    /\ since' = 0
    /\ keys' = IF keys = {} /\ fetched[r] # Failed THEN fetched[r] ELSE keys
    /\ loaded' = (loaded \/ fetched[r] # Failed)
    /\ Enter(r, "again")
    /\ UNCHANGED <<kid, fetched, published, up, emptied>>

\* refresh_keys: the timestamp moves; the keys are replaced if the fetch succeeded.
Store(r) ==
    /\ stage[r] = "received"
    /\ since' = 0
    /\ keys' = IF fetched[r] # Failed THEN fetched[r] ELSE keys
    /\ loaded' = (loaded \/ fetched[r] # Failed)
    /\ Enter(r, "again")
    /\ UNCHANGED <<kid, fetched, published, up, emptied>>

\* key_for_kid: the second lookup, and why it fails.
LookupAgain(r) ==
    /\ stage[r] = "again"
    /\ Enter(r, IF kid[r] \in keys THEN "decode"
               ELSE IF keys = {} THEN "keys_unavailable" ELSE "unknown_key")
    /\ UNCHANGED <<keys, since, kid, fetched, published, up, loaded, emptied>>

\* verify: decode with that key, then the ctr gate.
Decode(r) ==
    /\ stage[r] = "decode"
    /\ \E result \in {"accepted", "invalid", "version"} : Enter(r, result)
    /\ UNCHANGED <<keys, since, kid, fetched, published, up, loaded, emptied>>

\* The request is over; another may come.
Over(r) ==
    /\ Enter(r, "idle")
    /\ kid' = [kid EXCEPT ![r] = Unset]
    /\ fetched' = [fetched EXCEPT ![r] = Unset]
    /\ UNCHANGED <<keys, since, published, up, loaded, emptied>>

Leave(r) == stage[r] \in Ended /\ Over(r)

\* The client leaves; the handler's future is dropped at an await.
Cancel(r) ==
    /\ r \in Impatient /\ stage[r] \in {"lookup", "check", "sent", "received", "again"}
    /\ Over(r)

Tick ==
    /\ since # Unset /\ since < MinRefresh
    /\ since' = since + 1
    /\ UNCHANGED <<keys, stage, kid, fetched, published, up, loaded, emptied>>

\* The identity plane rotates its keys, goes down, or comes back.
Rotate ==
    /\ published' \in (SUBSET Kids) \ {published}
    /\ emptied' = (emptied \/ published' = {})
    /\ UNCHANGED <<keys, since, stage, kid, fetched, up, loaded>>

Flip ==
    /\ up' = ~up
    /\ UNCHANGED <<keys, since, stage, kid, fetched, published, loaded, emptied>>

Verify(r) ==
    \/ Lookup(r) \/ CheckRefresh(r) \/ Answer(r) \/ Store(r) \/ LookupAgain(r) \/ Decode(r)

KeysNext ==
    \/ \E r \in Verifications : DecodeHeader(r) \/ Verify(r) \/ Leave(r) \/ Cancel(r)
    \/ Tick \/ Rotate \/ Flip

KeysSpec == KeysInit /\ [][KeysNext]_keysVars

\* A request that does not leave is answered, for which the endpoint has to answer or
\* fail, as its client has no timeout; requests keep coming, and time passes.
KeysFairSpec ==
    /\ KeysSpec /\ WF_keysVars(Tick)
    /\ \A r \in Verifications \ Impatient :
          /\ WF_keysVars(Verify(r)) /\ WF_keysVars(Leave(r))
          /\ \A k \in Kids : SF_keysVars(DecodeHeader(r) /\ kid'[r] = k)

-----------------------------------------------------------------------------

\* Types; a key in the cache is one the endpoint may publish, and a request
\* past its lookups has a kid the endpoint may publish.
KeysTypeOK ==
    /\ keys \subseteq Kids
    /\ since = Unset \/ since \in 0..MinRefresh
    /\ stage \in [Verifications -> Stages]
    /\ kid \in [Verifications -> Kids \cup {Foreign, Unset}]
    /\ fetched \in [Verifications -> {Unset, Failed} \cup SUBSET Kids]
    /\ \A r \in Verifications : stage[r] \in {"decode", "accepted"} => kid[r] \in Kids

\* contract.rs:9-11, "keeps the last-good key set across a transient JWKS
\* outage": once a fetch has succeeded there are keys, whatever fails later and
\* in whatever order fetches end, unless the endpoint itself served none.
LastGoodKept == loaded /\ ~emptied => keys # {}

\* A key that is published for good reaches the cache and stays there, once the
\* endpoint answers again: neither min_refresh nor fetches that overtake each
\* other keep it out for ever.
CacheCatchesUp ==
    \A k \in Kids : <>[](up /\ k \in published) => <>[](k \in keys)

-----------------------------------------------------------------------------
(* Claims of comments and specifications that the code does not meet; the   *)
(* README describes the counterexamples                                     *)

\* contract.rs:159, "Minimum interval between unknown-kid refetches, bounding
\* churn under bad-token bursts": requests do not fetch at the same time.
FetchesBounded == \A q, r \in Verifications : stage[q] = "sent" /\ stage[r] = "sent" => q = r

\* openspec identity-contract-verification, "Unknown kid triggers a refresh then
\* verifies": a request is not refused a key that its own refresh brought.
OwnRefreshCounts ==
    \A r \in Verifications :
        stage[r] = "unknown_key" => fetched[r] \in {Unset, Failed} \/ kid[r] \notin fetched[r]
=============================================================================
