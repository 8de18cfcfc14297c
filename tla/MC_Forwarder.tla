--------------------------- MODULE MC_Forwarder ---------------------------
(* Model-checking instance of Forwarder.  Two caller threads; the A and   *)
(* AAAA fingerprints of one name plus the A query of the Mozilla canary;  *)
(* a one-entry cache so that inserts evict; one tick per second.          *)
(* The cache key of CacheKey over small names of bytes a, A and '.'.    *)
EXTENDS Forwarder, CacheKey

MCKeys == {[qtype |-> "A", name |-> "n1"], [qtype |-> "AAAA", name |-> "n1"],
           [qtype |-> "A", name |-> "use-application-dns.net"]}

\* An answer with the given rcode, answer RR types and RR TTLs.
Answer(rc, types, ttls) ==
    [rcode |-> rc, tc |-> FALSE, qdcount |-> 1, ext |-> FALSE,
     answer |-> types, ttls |-> ttls]

MCResponses == {Answer("NOERROR", {"A"}, {1}), Answer("NOERROR", {"AAAA"}, {2}),
                Answer("NXDOMAIN", {}, {1})}

\* optimistic_cache on, and optimistic_cache off with block_ipv6 on.
MCSettings == {[optimisticCache |-> TRUE, blockIpv6 |-> FALSE],
               [optimisticCache |-> FALSE, blockIpv6 |-> TRUE]}

\* std::tolower over the label bytes of the model.
MCLower == [b \in Bytes |-> IF b = "A" THEN "a" ELSE b]

MCOptimistic == {[optimisticCache |-> TRUE, blockIpv6 |-> FALSE]}
(* While the forwarder serves, handle_message looks up and inserts every  *)
(* request under get_cache_key: two requests share a cache entry if and   *)
(* only if the spec's fingerprints are equal.  Names that differ only in  *)
(* case share one; requests that differ in type, class, DO, CD or name    *)
(* (label boundaries included) never do.                                  *)
CacheKeyIsFingerprint == phase = "serving" => KeyMatchesFingerprint

=============================================================================
