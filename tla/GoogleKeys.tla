------------------------------ MODULE GoogleKeys ------------------------------
(***************************************************************************)
(* Google's signing keys (google_keys.rs): the published set is cached; a  *)
(* stale cache, or a key it has never seen, is fetched again, the latter   *)
(* not within seconds of the last fetch.  The cache is not locked while    *)
(* the answer is on its way, so an older answer may be stored over a newer *)
(* one, and counts as fetched when it is stored.                           *)
(***************************************************************************)
EXTENDS Integers

CONSTANTS Keyids,         \* Google's keys
          Forged,         \* key ids Google never had
          Sites,          \* sign-ins in flight at once
          NoKey,
          CacheTTL,       \* an hour
          MinRefetch,     \* thirty seconds
          FetchTTL,       \* the client's timeout, ten seconds
          LastInstant     \* bound: the clock

ASSUME GoogleKeysConstants ==
    /\ Keyids \cap Forged = {} /\ NoKey \notin Keyids \cup Forged
    /\ CacheTTL \in Nat /\ MinRefetch \in Nat /\ FetchTTL \in Nat /\ LastInstant \in Nat

VARIABLES instant,
          published,      \* what the URL answers
          withdrawn,      \* when each key left the set, 0 if it has not
          cache,          \* keys, time, and whether there is one yet
          site,
          oldest          \* the longest a key was accepted after it was withdrawn

keyVars == <<instant, published, withdrawn, cache, site, oldest>>

KeyRequest == [pc : {"idle", "fetch", "store"}, kid : Keyids \cup Forged \cup {NoKey},
               got : SUBSET Keyids, at : Nat]

NoKeyRequest == [pc |-> "idle", kid |-> NoKey, got |-> {}, at |-> 0]

GoogleKeysTypeOK ==
    /\ instant \in 0..LastInstant
    /\ published \subseteq Keyids
    /\ withdrawn \in [Keyids -> 0..LastInstant]
    /\ cache \in [filled : BOOLEAN, keys : SUBSET Keyids, at : 0..LastInstant]
    /\ site \in [Sites -> KeyRequest]
    /\ oldest \in 0..LastInstant

GoogleKeysInit ==
    /\ instant = 0
    /\ published = Keyids
    /\ withdrawn = [k \in Keyids |-> 0]
    /\ cache = [filled |-> FALSE, keys |-> {}, at |-> 0]
    /\ site = [s \in Sites |-> NoKeyRequest]
    /\ oldest = 0

Age == instant - cache.at

CacheEver == cache.filled

\* The cached set is not stale.
CacheFresh == cache.filled /\ Age < CacheTTL

Answered200(k) ==
    oldest' = IF k \in published \/ instant - withdrawn[k] <= oldest THEN oldest
              ELSE instant - withdrawn[k]

\* decoding_key, under the read lock: a fresh cache has the key ...
KeyCached(s, k) ==
    /\ site[s].pc = "idle"
    /\ CacheFresh /\ k \in cache.keys
    /\ Answered200(k)
    /\ UNCHANGED <<instant, published, withdrawn, cache, site>>

\* ... or it is looked for at Google's.  A key unknown to a set that has only
\* just been fetched is refused instead, which changes nothing.
KeyUnknown(s, k) ==
    /\ site[s].pc = "idle"
    /\ ~(CacheFresh /\ (k \in cache.keys \/ Age < MinRefetch))
    /\ site' = [site EXCEPT ![s] = [NoKeyRequest EXCEPT !.pc = "fetch", !.kid = k, !.at = instant]]
    /\ UNCHANGED <<instant, published, withdrawn, cache, oldest>>

\* fetch: what is published while the request is out; a set without a usable
\* key is an error.
Fetch(s) ==
    /\ site[s].pc = "fetch"
    /\ published # {}
    /\ site' = [site EXCEPT ![s].pc = "store", ![s].got = published]
    /\ UNCHANGED <<instant, published, withdrawn, cache, oldest>>

FetchFails(s) ==
    /\ site[s].pc = "fetch"
    /\ site' = [site EXCEPT ![s] = NoKeyRequest]
    /\ UNCHANGED <<instant, published, withdrawn, cache, oldest>>

\* Under the write lock.
Store(s) ==
    LET k == site[s].kid
    IN /\ site[s].pc = "store"
       /\ cache' = [filled |-> TRUE, keys |-> site[s].got, at |-> instant]
       /\ IF k \in site[s].got THEN Answered200(k) ELSE UNCHANGED oldest
       /\ site' = [site EXCEPT ![s] = NoKeyRequest]
       /\ UNCHANGED <<instant, published, withdrawn>>

\* Google withdraws a key.
Withdraw(k) ==
    /\ k \in published
    /\ published' = published \ {k}
    /\ withdrawn' = [withdrawn EXCEPT ![k] = instant]
    /\ UNCHANGED <<instant, cache, site, oldest>>

\* Time passes, and no request outlives the timeout of the client.
KeyTime ==
    /\ instant < LastInstant
    /\ \A s \in Sites : site[s].pc # "idle" => instant - site[s].at < FetchTTL
    /\ instant' = instant + 1
    /\ UNCHANGED <<published, withdrawn, cache, site, oldest>>

GoogleKeysNext ==
    \/ \E s \in Sites : \/ \E k \in Keyids : KeyCached(s, k)
                        \/ \E k \in Keyids \cup Forged : KeyUnknown(s, k)
                        \/ Fetch(s) \/ FetchFails(s) \/ Store(s)
    \/ \E k \in Keyids : Withdraw(k)
    \/ KeyTime

GoogleKeysSpec == GoogleKeysInit /\ [][GoogleKeysNext]_keyVars

\* A key Google withdrew is not accepted for longer than the cache and one
\* fetch last, although old answers may be stored late and looked at again
\* (google_keys.rs: CACHE_TTL "bounds how stale a working set gets").
WithdrawnKeyFades == oldest <= CacheTTL + FetchTTL
===============================================================================
