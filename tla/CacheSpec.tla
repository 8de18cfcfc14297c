------------------------------ MODULE CacheSpec ------------------------------
(***************************************************************************)
(* What the response cache promises (spec section 4.2), without the LRU    *)
(* order and without locks: a bounded map from fingerprints to stored      *)
(* responses with a deadline.                                              *)
(*   - lookup hands out the stored response with every TTL set to the      *)
(*     whole seconds left, at least 1, and says whether it has expired;    *)
(*     it never changes what is stored;                                    *)
(*   - insert stores a response that meets every cacheability rule, with   *)
(*     deadline now + min RR TTL, and is a no-op for any other;            *)
(*   - the cache holds at most dns_cache_size entries, and an insert       *)
(*     drops another entry only to make room for a new key;                *)
(*   - a failed refresh erases the key, and teardown clears everything.    *)
(* ResponseCache, driven by Forwarder, is checked to implement this.       *)
(***************************************************************************)
EXTENDS Integers, FiniteSets

CONSTANTS Keys, Responses, CacheSize, TicksPerSec, MaxTime, NoEntry, Clients

VARIABLES
    store,   \* fingerprint -> [resp, expires, storedAt] or NoEntry
    now,     \* the steady clock, in ticks
    served   \* client -> the result of its last lookup, or NoEntry

specVars == <<store, now, served>>

Present == {k \in Keys : store[k] # NoEntry}

\* The minimum TTL across the answer, authority and additional sections;
\* a response without RRs has minimum 0.
MinTtl(r) == IF r.ttls = {} THEN 0 ELSE CHOOSE x \in r.ttls : \A y \in r.ttls : x <= y

\* The cacheability rules of spec 4.2, all of which must hold.
SpecCacheable(k, r) ==
    /\ CacheSize > 0
    /\ ~r.tc
    /\ r.qdcount = 1
    /\ r.rcode = "NOERROR"
    /\ ~r.ext
    /\ k.qtype \in {"A", "AAAA"} => k.qtype \in r.answer
    /\ MinTtl(r) >= 1

\* The whole seconds left of d ticks, rounded up: the n with
\* (n - 1) * TicksPerSec < d <= n * TicksPerSec.
RemainingSec(d) ==
    LET bound == IF d < 0 THEN -d ELSE d
    IN CHOOSE n \in -bound..bound + 1 :
           (n - 1) * TicksPerSec < d /\ d <= n * TicksPerSec

Init ==
    /\ store = [k \in Keys |-> NoEntry]
    /\ now = 0
    /\ served = [c \in Clients |-> NoEntry]

Tick ==
    /\ now < MaxTime
    /\ now' = now + 1
    /\ UNCHANGED <<store, served>>

\* lookup(key): a hit on a cache that is on, for a request it may answer.
Lookup(c, k, reqExt) ==
    /\ served' = [served EXCEPT ![c] =
          IF CacheSize > 0 /\ ~reqExt /\ store[k] # NoEntry
          THEN LET left == RemainingSec(store[k].expires - now)
               IN [resp |-> store[k].resp,
                   ttl |-> IF left < 1 THEN 1 ELSE left,
                   expired |-> left <= 0,
                   storedAt |-> store[k].storedAt,
                   at |-> now]
          ELSE NoEntry]
    /\ UNCHANGED <<store, now>>

\* The caller is done with the result of its lookup.
Release(c) ==
    /\ served' = [served EXCEPT ![c] = NoEntry]
    /\ UNCHANGED <<store, now>>

(* insert(key, response): a cacheable response is stored; when the key is *)
(* new and the cache full, exactly one other entry makes room.            *)
Insert(k, r) ==
    /\ SpecCacheable(k, r)
    /\ \E evicted \in SUBSET (Present \ {k}) :
          /\ Cardinality(evicted) =
                IF k \notin Present /\ Cardinality(Present) >= CacheSize THEN 1 ELSE 0
          /\ store' = [x \in Keys |->
                IF x = k THEN [resp |-> r, expires |-> now + MinTtl(r) * TicksPerSec,
                               storedAt |-> now]
                ELSE IF x \in evicted THEN NoEntry ELSE store[x]]
    /\ UNCHANGED <<now, served>>

Erase(k) ==
    /\ store' = [store EXCEPT ![k] = NoEntry]
    /\ UNCHANGED <<now, served>>

Clear ==
    /\ store' = [k \in Keys |-> NoEntry]
    /\ UNCHANGED <<now, served>>

Next ==
    \/ Tick
    \/ \E c \in Clients : Release(c) \/ \E k \in Keys, e \in BOOLEAN : Lookup(c, k, e)
    \/ \E k \in Keys : Erase(k) \/ \E r \in Responses : Insert(k, r)
    \/ Clear

Spec == Init /\ [][Next]_specVars

=============================================================================
