------------------------------ MODULE Forwarder ------------------------------
(***************************************************************************)
(* dns_forwarder (src/proxy/src/dns_forwarder.cpp): concurrent callers of  *)
(* handle_message and deinit, sharing the response cache of ResponseCache. *)
(*                                                                         *)
(* An expired hit with optimistic_cache on hands a refresh task to         *)
(* uv_queue_work(nullptr, ...) (line 953).  libuv's uv_queue_work starts   *)
(* with uv__req_init, which increments loop->active_reqs.count on the null *)
(* loop: the process dies there.  The refresh worker, its finalizer and    *)
(* the cancel loop of deinit therefore never run, and async_reqs is empty  *)
(* in every state in which the process is alive.                           *)
(*                                                                         *)
(* handle_message is cut at the points where another thread can interleave *)
(* with it: the cache lookup (shared lock), the async_reqs emplace (mutex),*)
(* the reply from the cache, the filter stage, and the upstream stage,     *)
(* which takes as long as the exchange and ends with the cache insert.     *)
(* Filter verdicts and upstream answers are inputs chosen by \E.           *)
(***************************************************************************)
EXTENDS Integers, Sequences, SequencesExt

CONSTANTS
    Keys, Responses, CacheSize, TicksPerSec, MaxTime, NoEntry, U32Max,
    Threads,          \* caller threads of handle_message (listener workers)
    MozillaHost,      \* the name MOZILLA_DOH_HOST, without the trailing dot
    Settings,         \* the settings a forwarder may be initialized with
    Dns64,            \* settings->dns64.has_value()
    Failure           \* model value: do_upstream_exchange returned no response

ASSUME Settings \subseteq [optimisticCache: BOOLEAN, blockIpv6: BOOLEAN] /\ Dns64 \in BOOLEAN

VARIABLES
    cache, lru, now, served,  \* the response cache (ResponseCache)
    pc,          \* thread -> stage of handle_message it is at
    req,         \* thread -> [key, ext] of the request it handles, or NoEntry
    lastEvents,  \* thread -> processed events fired by its last finished request
    phase,       \* forwarder lifecycle: serving, stopped (deinit returned),
                 \* crashed (the process died)
    settings     \* this->settings, fixed by init

RC == INSTANCE ResponseCache WITH Clients <- Threads

vars == <<cache, lru, now, served, pc, req, lastEvents, phase, settings>>

\* settings->optimistic_cache and settings->block_ipv6
OptimisticCache == settings.optimisticCache
BlockIpv6 == settings.blockIpv6
threadVars == <<pc, req, lastEvents>>

Stages == {"idle", "lookup", "emplace", "reply_cached", "filter", "exchange"}

TypeOK ==
    /\ RC!TypeOK
    /\ pc \in [Threads -> Stages]
    /\ req \in [Threads -> [key: Keys, ext: BOOLEAN] \cup {NoEntry}]
    /\ lastEvents \in [Threads -> Nat \cup {NoEntry}]
    /\ phase \in {"serving", "stopped", "crashed"}
    /\ settings \in Settings

Init ==
    /\ RC!Init
    /\ pc = [t \in Threads |-> "idle"]
    /\ req = [t \in Threads |-> NoEntry]
    /\ lastEvents = [t \in Threads |-> NoEntry]
    /\ phase = "serving"
    /\ settings \in Settings

-----------------------------------------------------------------------------
(* Helpers.                                                                *)

\* handle_message returns after firing `fired` processed events.
Finish(t, fired) ==
    /\ pc' = [pc EXCEPT ![t] = "idle"]
    /\ req' = [req EXCEPT ![t] = NoEntry]
    /\ lastEvents' = [lastEvents EXCEPT ![t] = fired]

Goto(t, stage) ==
    /\ pc' = [pc EXCEPT ![t] = stage]
    /\ UNCHANGED <<req, lastEvents>>

\* Types of the answer RRs the post-filter looks at.
FilteredRRs == {"CNAME", "A", "AAAA"}

\* DNS64 answers try_dns64_aaaa_synthesis may build from an A exchange.
Synthesized == {r \in Responses : r.answer = {"AAAA"} /\ r.rcode = "NOERROR"}

-----------------------------------------------------------------------------
(* handle_message, one action per stage.                                   *)

(* A request that does not parse, or parses without a question: an event *)
(* is fired with the error and the call returns (empty bytes or SERVFAIL).*)
RejectRequest(t) ==
    /\ phase = "serving" /\ pc[t] = "idle"
    /\ Finish(t, 1)
    /\ UNCHANGED <<cache, lru, now, served, phase, settings>>

\* The request parses and has a question; its fingerprint is computed.
Receive(t) ==
    /\ phase = "serving" /\ pc[t] = "idle"
    /\ \E k \in Keys, ext \in BOOLEAN :
          req' = [req EXCEPT ![t] = [key |-> k, ext |-> ext]]
    /\ pc' = [pc EXCEPT ![t] = "lookup"]
    /\ UNCHANGED <<lastEvents, cache, lru, now, served,
                   phase, settings>>

(* create_response_from_cache, then the branch on its result: a live hit  *)
(* is answered, an expired one too when the optimistic cache is on (after *)
(* queueing a refresh); a miss or an expired entry otherwise goes on.     *)
Lookup(t) ==
    LET k == req[t].key
        hit == RC!CacheHit(cache, k, req[t].ext)
        expired == hit /\ RC!FromCache(cache, k, now).expired
    IN /\ pc[t] = "lookup"
       /\ RC!Lookup(t, k, req[t].ext)
       /\ Goto(t, IF hit /\ ~expired THEN "reply_cached"
                  ELSE IF hit /\ OptimisticCache THEN "emplace"
                  ELSE "filter")
       /\ UNCHANGED <<phase, settings>>

(* async_reqs.emplace(cache_key) under async_reqs_mtx: async_reqs is      *)
(* empty, so a new task takes the request and is passed to                *)
(* uv_queue_work(nullptr, ...), which dereferences the null loop: the     *)
(* process dies with every thread where it is.                            *)
Emplace(t) ==
    /\ pc[t] = "emplace"
    /\ phase' = "crashed"
    /\ UNCHANGED <<threadVars, cache, lru, now, served, settings>>

(* The cached response is serialized and the event finalized with the     *)
(* request packet (finalize_processed_event reads its question); the      *)
(* cache_result goes out of scope.                                        *)
ReplyCached(t) ==
    /\ pc[t] = "reply_cached"
    /\ Finish(t, 1)
    /\ served' = [served EXCEPT ![t] = NoEntry]
    /\ UNCHANGED <<cache, lru, now, phase, settings>>

\* Mutation: the canary returns without finalize_processed_event.
FilterStageCanaryNoEvent(t) ==
    LET k == req[t].key IN
    /\ pc[t] = "filter"
    /\ \/ /\ k.qtype \in {"A", "AAAA"} /\ k.name = MozillaHost
          /\ Finish(t, 0)
       \/ /\ ~(k.qtype \in {"A", "AAAA"} /\ k.name = MozillaHost)
          /\ \E blocked \in BOOLEAN :
                IF blocked THEN Finish(t, 1) ELSE Goto(t, "exchange")
    /\ UNCHANGED <<cache, lru, now, served, phase, settings>>

(* Mozilla canary, IPv6 blocking and the pre-filter by domain.  The IPv6  *)
(* block calls apply_filter with fire_event = false and returns either   *)
(* the SOA response or the filter's blocking response without an event.  *)
FilterStage(t) ==
    LET k == req[t].key IN
    /\ pc[t] = "filter"
    /\ \/ /\ k.qtype \in {"A", "AAAA"} /\ k.name = MozillaHost
          /\ Finish(t, 1)
       \/ /\ ~(k.qtype \in {"A", "AAAA"} /\ k.name = MozillaHost)
          /\ BlockIpv6 /\ k.qtype = "AAAA"
          /\ Finish(t, 0)
       \/ /\ ~(k.qtype \in {"A", "AAAA"} /\ k.name = MozillaHost)
          /\ ~(BlockIpv6 /\ k.qtype = "AAAA")
          /\ \E blocked \in BOOLEAN :
                IF blocked THEN Finish(t, 1) ELSE Goto(t, "exchange")
    /\ UNCHANGED <<cache, lru, now, served, phase, settings>>

(* do_upstream_exchange and what follows it: SERVFAIL when no upstream   *)
(* answered; otherwise, for a NOERROR answer, the post-filter over its    *)
(* CNAME/A/AAAA records and DNS64 synthesis; then the event and           *)
(* put_response_into_cache.                                               *)
ExchangeStage(t) ==
    LET k == req[t].key IN
    /\ pc[t] = "exchange"
    /\ \E res \in Responses \cup {Failure} :
          \/ /\ res = Failure
             /\ Finish(t, 1)
             /\ UNCHANGED <<cache, lru>>
          \/ /\ res # Failure /\ res.rcode = "NOERROR"
             /\ res.answer \cap FilteredRRs # {}
             /\ Finish(t, 1)             \* a CNAME or an address is blocked
             /\ UNCHANGED <<cache, lru>>
          \/ /\ res # Failure
             /\ \E final \in
                  IF res.rcode = "NOERROR" /\ Dns64 /\ k.qtype = "AAAA"
                     /\ "AAAA" \notin res.answer
                  THEN {res} \cup Synthesized ELSE {res} :
                    /\ Finish(t, 1)
                    /\ RC!Put(k, final)
    /\ UNCHANGED <<now, served, phase, settings>>

-----------------------------------------------------------------------------
(* deinit, called once no handle_message call is running.  async_reqs is  *)
(* empty, so the uv_cancel loop does nothing and the wait on              *)
(* async_reqs_cv returns at once; settings, upstreams, fallbacks and the  *)
(* filter are destroyed and the cache is cleared.                         *)
Deinit ==
    /\ phase = "serving"
    /\ \A t \in Threads : pc[t] = "idle"
    /\ phase' = "stopped"
    /\ RC!Clear
    /\ UNCHANGED <<threadVars, settings>>

\* A dead process takes no step.
Next ==
    /\ phase # "crashed"
    /\ \/ RC!Tick /\ UNCHANGED <<threadVars, phase, settings>>
       \/ \E t \in Threads :
             \/ RejectRequest(t) \/ Receive(t) \/ Lookup(t) \/ Emplace(t)
             \/ ReplyCached(t) \/ FilterStage(t) \/ ExchangeStage(t)
       \/ Deinit

\* Callers, the clock and deinit are driven from outside; nothing is forced.
Spec == Init /\ [][Next]_vars

-----------------------------------------------------------------------------
(* Properties.                                                             *)

(* Every handle_message call fires exactly one processed event, whichever *)
(* path returns: rejection, cache hit, canary, filter block, SERVFAIL,    *)
(* post-filter block or upstream answer (spec 4.1 and 6).  The IPv6 block *)
(* returns without finalize_processed_event, so this holds only for a     *)
(* forwarder without block_ipv6.                                          *)
EventOncePerRequest ==
    ~BlockIpv6 => \A t \in Threads : lastEvents[t] \in {NoEntry, 1}

(* A response a thread answers from the cache never claims more time    *)
(* than it has (ResponseCache), under the lookups, inserts and the deinit *)
(* clear that concurrent handle_message calls and deinit perform.         *)
ServedTtlSound == RC!ServedTtlSound

\* The promise of spec 4.2, with the cache's entries seen as its store.
Abstract == INSTANCE CacheSpec WITH store <- cache, Clients <- Threads

(* Every step of the forwarder does to the cache what spec 4.2 allows:   *)
(* lookups hand out the stored response with the TTL patched to the      *)
(* seconds left and change no entry; an insert stores exactly the        *)
(* responses the cacheability rules accept, with deadline now + min TTL, *)
(* and evicts one entry only when a new key meets a full cache; the      *)
(* deinit clear removes entries.  LRU order is hidden.                    *)
CacheRefinesSpec == Abstract!Spec

(* Spec 4.2: on an expired hit with optimistic_cache on, the stale entry *)
(* is returned and a refresh scheduled in the background; the forwarder   *)
(* goes on serving.  The process never dies on that path.                 *)
ForwarderAlive == phase # "crashed"

=============================================================================
