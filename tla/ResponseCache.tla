--------------------------- MODULE ResponseCache ---------------------------
(***************************************************************************)
(* The forwarder's response cache (src/proxy/src/dns_forwarder.cpp):       *)
(* create_response_from_cache, compute_min_rr_ttl, put_response_into_cache *)
(* and deinit's clear, over the lru_cache of ag_cache.h.                  *)
(*                                                                         *)
(* A DNS response is abstracted to the fields the cacheability rules and   *)
(* the TTL patching read: rcode, TC bit, qdcount, unsupported EDNS         *)
(* extensions, the RR types of the answer section and the set of RR TTLs   *)
(* of all sections.  Time is counted in ticks, TicksPerSec per second, so  *)
(* that the ceil<seconds> of the lookup is a real conversion.              *)
(***************************************************************************)
EXTENDS Integers, Sequences, SequencesExt

CONSTANTS
    Keys,          \* request fingerprints, records [qtype, name]
    Responses,     \* upstream answers that may be put into the cache
    CacheSize,     \* settings->dns_cache_size, the LRU capacity
    TicksPerSec,   \* clock resolution: ticks of the steady clock per second
    MaxTime,       \* bound on the clock, in ticks
    NoEntry,       \* model value: no cache entry for a key
    U32Max         \* UINT32_MAX, the largest RR TTL, scaled down for TLC

ASSUME /\ CacheSize \in Nat /\ TicksPerSec \in Nat \ {0} /\ MaxTime \in Nat
       /\ U32Max \in Nat \ {0}

(* A cached_response: the stripped template, its deadline, and (ghost) the *)
(* time it was stored, which the code does not keep.                       *)
Entry == [resp: Responses, expires: Int, storedAt: Int]

-----------------------------------------------------------------------------
(* lru_cache (ag_cache.h): the recency order, most recently used first.    *)

\* lru_cache::get: a hit becomes the most recently used entry.
LruPromote(order, k) == Cons(k, Remove(order, k))

\* lru_cache::make_lru: the entry becomes the least recently used one.
LruDemote(order, k) == Append(Remove(order, k), k)

\* lru_cache::insert: replace in place, or evict the least recently used
\* entry when the cache is at capacity; the key becomes most recently used.
LruInsertOrder(order, k) ==
    IF k \in ToSet(order) \/ Len(order) < CacheSize
    THEN LruPromote(order, k)
    ELSE Cons(k, Front(order))

LruEvicted(order, k) ==
    IF k \in ToSet(order) \/ Len(order) < CacheSize THEN {} ELSE {Last(order)}

-----------------------------------------------------------------------------
\* Mutation: a truncating duration_cast in place of ceil.
FloorSec(d) ==
    IF d >= 0 THEN d \div TicksPerSec ELSE -((-d + TicksPerSec - 1) \div TicksPerSec)

(* ceil<seconds>(d) for a duration of d ticks.                             *)
CeilSec(d) ==
    IF d >= 0 THEN (d + TicksPerSec - 1) \div TicksPerSec
              ELSE -((-d) \div TicksPerSec)

(* compute_min_rr_ttl: minimum TTL over the RRs of all sections, where    *)
(* UINT32_MAX is both the start value and the "no RRs" marker.            *)
ComputeMinRrTtl(r) ==
    LET m == IF r.ttls = {} THEN U32Max
             ELSE CHOOSE x \in r.ttls : \A y \in r.ttls : x <= y
    IN IF m = U32Max THEN 0 ELSE m

\* has_unsupported_extensions
HasUnsupportedExtensions(r) == r.ext

\* Mutation: an A/AAAA response without an answer of its type is cached.
CacheableNoTypeCheck(k, r) ==
    /\ CacheSize # 0
    /\ ~r.tc
    /\ r.qdcount = 1
    /\ r.rcode = "NOERROR"
    /\ ~HasUnsupportedExtensions(r)
    /\ ComputeMinRrTtl(r) # 0

(* The checks of put_response_into_cache, in the code's order; a response *)
(* that fails one of them is not cached.                                  *)
Cacheable(k, r) ==
    /\ CacheSize # 0
    /\ ~r.tc
    /\ r.qdcount = 1
    /\ r.rcode = "NOERROR"
    /\ ~HasUnsupportedExtensions(r)
    /\ k.qtype \in {"A", "AAAA"} => k.qtype \in r.answer
    /\ ComputeMinRrTtl(r) # 0

-----------------------------------------------------------------------------
(* Functions of the cache state, shared with the modules that compose it.  *)

\* Mutation: the TTL of an expired entry is not clamped to 1.
FromCacheUnclamped(c, k, t) ==
    LET left == CeilSec(c[k].expires - t)
    IN [resp |-> c[k].resp, ttl |-> left, expired |-> left <= 0,
        storedAt |-> c[k].storedAt, at |-> t]

\* The cache_result of create_response_from_cache for key k at time t.
FromCache(c, k, t) ==
    LET left == CeilSec(c[k].expires - t)
    IN [resp     |-> c[k].resp,
        ttl      |-> IF left <= 0 THEN 1 ELSE left,
        expired  |-> left <= 0,
        storedAt |-> c[k].storedAt,
        at       |-> t]

\* The lookup reaches the cache: caching on, a request without unsupported
\* extensions, and an entry for the key.
CacheHit(c, k, reqExt) == CacheSize # 0 /\ ~reqExt /\ c[k] # NoEntry

-----------------------------------------------------------------------------
VARIABLES
    cache,    \* key -> cached_response or NoEntry
    lru,      \* recency order of the present keys, most recent first
    now,      \* ag::steady_clock, in ticks
    served    \* client -> cache_result of its last lookup, or NoEntry

CONSTANT Clients   \* threads that call create_response_from_cache

cacheVars == <<cache, lru, now, served>>

TypeOK ==
    /\ cache \in [Keys -> Entry \cup {NoEntry}]
    /\ lru \in Seq(Keys)
    /\ now \in 0..MaxTime
    /\ served \in [Clients -> [resp: Responses, ttl: Nat \ {0}, expired: BOOLEAN,
                               storedAt: Int, at: Int] \cup {NoEntry}]

Init ==
    /\ cache = [k \in Keys |-> NoEntry]
    /\ lru = <<>>
    /\ now = 0
    /\ served = [c \in Clients |-> NoEntry]

\* The steady clock advances.
Tick ==
    /\ now < MaxTime
    /\ now' = now + 1
    /\ UNCHANGED <<cache, lru, served>>

(* create_response_from_cache(key, request): on a hit the entry is cloned *)
(* and its TTLs patched to the whole seconds left, at least 1; an expired *)
(* entry is made least recently used, a live one most recently used.      *)
Lookup(c, k, reqExt) ==
    /\ IF CacheHit(cache, k, reqExt)
       THEN /\ served' = [served EXCEPT ![c] = FromCache(cache, k, now)]
            /\ lru' = IF FromCache(cache, k, now).expired
                      THEN LruDemote(lru, k) ELSE LruPromote(lru, k)
       ELSE /\ served' = [served EXCEPT ![c] = NoEntry]
            /\ UNCHANGED lru
    /\ UNCHANGED <<cache, now>>

(* put_response_into_cache(key, response): a cacheable response is stored *)
(* with deadline now + min RR TTL, evicting the least recently used entry *)
(* when the cache is full; anything else leaves the cache as it is.       *)
Put(k, r) ==
    /\ IF Cacheable(k, r)
       THEN /\ cache' = [x \in Keys |->
                  IF x = k THEN [resp |-> r,
                                 expires |-> now + ComputeMinRrTtl(r) * TicksPerSec,
                                 storedAt |-> now]
                  ELSE IF x \in LruEvicted(lru, k) THEN NoEntry
                  ELSE cache[x]]
            /\ lru' = LruInsertOrder(lru, k)
       ELSE UNCHANGED <<cache, lru>>
    /\ UNCHANGED <<now, served>>

\* response_cache.val.clear(), by deinit.
Clear ==
    /\ cache' = [k \in Keys |-> NoEntry]
    /\ lru' = <<>>
    /\ UNCHANGED <<now, served>>

Next ==
    \/ Tick
    \/ \E c \in Clients, k \in Keys, e \in BOOLEAN : Lookup(c, k, e)
    \/ \E k \in Keys, r \in Responses : Put(k, r)
    \/ Clear

Spec == Init /\ [][Next]_cacheVars

-----------------------------------------------------------------------------
(* Properties.                                                             *)

(* A response create_response_from_cache hands out never claims more time *)
(* than it has: its TTL is never above the TTL the upstream               *)
(* gave, and a response returned as not expired is younger than that TTL, *)
(* with the TTL the whole seconds left rounded up (spec section 8, first  *)
(* invariant).                                                            *)
ServedTtlSound ==
    \A c \in Clients : served[c] # NoEntry =>
        LET s == served[c]
            life == ComputeMinRrTtl(s.resp) * TicksPerSec
        IN /\ s.ttl <= ComputeMinRrTtl(s.resp)
           /\ ~s.expired =>
                 /\ s.at < s.storedAt + life
                 /\ (s.ttl - 1) * TicksPerSec < s.storedAt + life - s.at
                 /\ s.storedAt + life - s.at <= s.ttl * TicksPerSec

=============================================================================
