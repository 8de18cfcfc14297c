# TLA+ models of the DnsLibs DNS proxy

These are models of the concurrent parts of `src/proxy/src/`, checked with TLC:
- the forwarder (`dns_forwarder.cpp`): request pipeline, response cache, the optimistic refresh's queueing, teardown;
- one request's path through the filter stages, the blocking-response synthesizer, DNS64 synthesis and the prefix-discovery thread;
- its upstream dispatcher;
- the UDP and TCP listeners (`dnsproxy_listener.cpp`): per-connection life cycle, TCP framing, shutdown.

## 1. The system

| Part | Code | State | Operations |
|---|---|---|---|
| Request pipeline | `dns_forwarder::handle_message` (905-1058) | per call: the parsed request, `req_holder`, the event | parse, question check, fingerprint, cache lookup, refresh emplace, canary, IPv6 block, pre-filter, upstream exchange, post-filter, DNS64, event, cache insert |
| Cache key | `get_cache_key` (37-70) | none (pure) | header `qtype\|qclass\|DOCD\|`, then the owner's labels lowercased, each followed by '.' |
| Response cache | `create_response_from_cache`, `compute_min_rr_ttl`, `put_response_into_cache` (754-903) | `response_cache`: an `lru_cache<key, cached_response>` under a `shared_mutex` | lookup (shared lock, but `get`/`make_lru` reorder the LRU list), insert (exclusive), clear |
| Optimistic refresh | `async_reqs`, `async_request_worker`, `async_request_finalizer` (944-954, 1187-1214) | `async_reqs`: key -> task owning the request packet and a `uv_work_t`; `async_reqs_mtx`, `async_reqs_cv` | emplace + `uv_queue_work`, worker (exchange, then put or erase), finalizer (erase task, notify) |
| Teardown | `dns_forwarder::deinit` (707-752) | the above | cancel queued tasks, wait for started ones, destroy upstreams/filter, clear cache |
| Upstream dispatcher | `do_upstream_exchange` (1144-1185) | per-upstream RTT (shared) | sort by RTT, primaries then fallbacks, one retry on a non-timeout error |
| Blocking responses | `create_blocking_response` and helpers (87-350) | none (pure) | choose REFUSED / NXDOMAIN / SOA / addresses by mode, rule kind, qtype |
| DNS64 | `try_dns64_aaaa_synthesis` (457-548), discovery thread in `init` (650-696) | `dns64_prefixes` under a mutex | discovery replaces the prefix set; synthesis reads it and runs an A exchange |
| Listener base | `listener_base` (33-160) | loop thread, escape hatch | init, `shutdown` (async send), `escape_hatch_cb` -> `before_stop`, `await_shutdown` |
| UDP listener | `listener_udp` (162-291) | `m_pending` tasks | recv -> queue work -> `handle_message` on the pool -> send; cancel on stop |
| TCP framing | `tcp_dns_payload_parser` (293-332) | state, size, buffer | push data, next payload |
| TCP connections | `tcp_dns_connection`, `listener_tcp` (334-630) | per connection: parser, pending works (each with a `canceled` flag and a mutex), idle timer, `m_closed`; `m_connections`, the listening handle | accept (`conn_cb`, `start`), read/frame, queue work, write, idle timeout, close, shutdown via `before_stop` |

How the parts interact:
- Each listener runs a libuv loop on its own thread. It queues one `handle_message` call per request on the libuv pool, and answers from `after_work_cb`.
- So `handle_message` runs concurrently on pool threads. All calls share the cache, `async_reqs` and the upstream RTTs.
- A call that answers from an expired entry with `optimistic_cache` on hands a refresh task to `uv_queue_work(nullptr, ...)` (line 953). libuv's `uv_queue_work` starts with `uv__req_init`, which increments `loop->active_reqs.count` on that null loop, so the process dies there. The refresh worker (`async_request_worker`), its finalizer and `deinit`'s cancel-and-wait are therefore never reached: `async_reqs` is empty in every state in which the process is alive.

Hard behaviours:
- `uv_cancel` racing the pool at shutdown, in the UDP listener and each TCP connection;
- the live `rtt()` comparator of the dispatcher's sort changing under another caller's `adjust_rtt`;
- the LRU list at capacity, and the `ceil` conversion at the expiry boundary;
- the path-dependent firing of processed events;
- retries and timeouts in dispatch;
- the TCP idle timer racing a request in progress;
- frames split or merged across TCP reads.

## 2. Modules

**`ResponseCache.tla`** models the cache. Its variables:
- `cache`: key -> `[resp, expires, storedAt]` or `NoEntry`;
- `lru`: the recency order, most recent first;
- `now`: the steady clock in ticks;
- `served`: the last `cache_result` each client got.

Its actions:
- `Lookup` models `create_response_from_cache`, with the promote or demote of the LRU entry.
- `Put` models `put_response_into_cache`: the cacheability checks (`Cacheable`), the min-TTL deadline and eviction.
- `Clear` models `deinit`'s clear. (The refresh worker's `erase` is never reached; see above.)

A response is abstracted to the fields the rules read: rcode, TC, qdcount, EDNS extensions, answer RR types and the set of RR TTLs. Time has `TicksPerSec` ticks per second, so `CeilSec` is a real ceiling. `UINT32_MAX` is the constant `U32Max`, scaled down. The `lru_cache` class comes from `ag_cache.h`, which is not in this repository, so `LruPromote`, `LruDemote` and `LruInsertOrder` are modelled from its interface. `ResponseCache` is checked through `Forwarder`, which drives it.

**`CacheSpec.tla`** is what spec 4.2 promises of the cache, with no LRU order and no locks. Its state is a map from fingerprints to `[resp, expires]` with a capacity. It has these actions:
- `Lookup` patches the TTL to the seconds left (`RemainingSec`, defined by its bounds rather than by a division), and changes no entry.
- `Insert` stores exactly the responses the spec's cacheability rules accept (`SpecCacheable`, `MinTtl`). It drops one other entry only when a new key meets a full cache.
- `Erase`, `Clear` and `Release` remove an entry, empty the cache, and drop a lookup's result (spec 4.2 allows a refresh's erase, which the code never reaches).

`Forwarder` instantiates it with `store <- cache`, and checks `CacheRefinesSpec == Abstract!Spec`.

**`CacheKey.tla`** models `get_cache_key` as operators. It has no state.
- `KeyHeader` is the formatted header. Each number is one token, because its decimal text has no '|'.
- `NameKey` is the copy loop over the owner's wire form (`Wire`), written as a `RECURSIVE` operator over the 0-based offset of the length byte.
- `GetCacheKey` adds the special case of the root (rdf size 1).

The reference is `Fingerprint`, the spec 3 tuple with the name lowercased label by label. `KeyMatchesFingerprint` says that two questions get the same key exactly when their fingerprints are equal. `MC_Forwarder` composes it with the forwarder as `CacheKeyIsFingerprint`, a state invariant over a constant that TLC evaluates once. Run `cache_key_dot` checks it over label bytes that include '.', and it fails (see Findings).

**`Forwarder.tla`** composes `ResponseCache` with `INSTANCE ... WITH Clients <- Threads`. It cuts `handle_message` into the stages where another thread can interleave:
- `RejectRequest`, `Receive`, `Lookup`;
- `Emplace`: under the `async_reqs` mutex, the emplace and `uv_queue_work(nullptr, ...)`. The process dies (`phase = "crashed"`) and `Next` allows no further step;
- `ReplyCached`;
- `FilterStage`: canary, IPv6 block and pre-filter;
- `ExchangeStage`: exchange, post-filter, DNS64, event and insert.

`Deinit` is `deinit` in one step. Its `uv_cancel` loop runs over an empty `async_reqs` and its wait returns at once, then it clears the cache. `lastEvents` counts the events of a call. Filter verdicts and upstream answers are inputs chosen by `\E`. Callers, the clock and `deinit` are driven from outside, so `Spec` has no fairness.

**`UpstreamDispatch.tla`** models `do_upstream_exchange` for concurrent callers sharing the RTT map. `std::sort` over a few elements is the libstdc++ insertion sort:
- `SortOuter`: compare with the first element, and rotate to the front if smaller;
- `SortInner`: `__unguarded_linear_insert`, with no bounds check.

Every comparison reads the live `rtt`, so each is one step. If a concurrent `adjust_rtt` makes the walk pass the first element, the thread goes to `"oob"`: the read before `begin()` is undefined behaviour, and the model stops there. `Exchange` covers the exchange and `adjust_rtt`. `Retry` is the one retry after a non-timeout error. `EndGroup` moves from the primaries to the fallbacks, and then returns a failure.

**`TcpConnection.tla`** models a TCP listener that accepts one connection, and its three kinds of actor:
- the peer: `PeerSend`, `PeerEof`;
- the loop thread: `ConnCb` (`conn_cb`: the accept either fails, or calls `StartRead` = `start()` and then inserts into `m_connections`, the variable `inMap`), `ReadData`/`ReadEof` (`read_cb`), `IdleTimeout`, `Stop` (`escape_hatch_cb` -> `listener_tcp::before_stop`: closes the listening handle and `close()`s a connection still in the map), `AfterWork` (`after_work_cb` with `do_write`), `WriteCb` and `LoopExit` (`uv_run` returns when no handle and no work is left);
- the caller of `shutdown()`: `Shutdown` sends the escape hatch (`hatch`: open, sent, closed);
- the pool: `WorkPick`, `WorkLock` (`work_cb` takes the mutex and checks `canceled`), `WorkDone`.

`do_close` is split where it can block:
- `DoCloseStart` sets `m_closed` and stops the timer;
- `DoCloseCancel(w)` takes each pending work's mutex, `uv_cancel`s the work and sets `canceled`. It cannot run while `work_cb` holds the mutex inside `handle_message`, and meanwhile the loop thread runs nothing else;
- `DoCloseEnd` closes the stream, and the close callback erases the connection from `m_connections`.

`persistent` (`m_persistent`) is chosen at Init. The ghost `touched` records a callback that writes through an erased connection.

**`TcpPayloadParser.tla`** models `tcp_dns_payload_parser` and the `while (next_payload)` loop of `read_cb` as the RECURSIVE operator `Drain`. `Encode` frames the peer's messages with big-endian lengths. `ReadChunk` delivers any prefix of the remaining bytes, so every chunking is explored. Bytes range over `0..Base-1`, with `Base` standing in for 256.

**`UdpListener.tla`** models `listener_udp` with the shutdown path of `listener_base`. Each datagram is a task that goes through `Recv`, `WorkPick`, `WorkRun`, `AfterWork` and `SendCb`. On shutdown:
- `Shutdown` is `uv_async_send`;
- `EscapeHatch` is `escape_hatch_cb` running `BeforeStop` (`before_stop`: it closes the handle and cancels the pending tasks) and closing the hatch;
- `LoopExit` is `uv_run` returning once no handle is open and no request is active.

The ghost `frees` counts the deletes of each task.

**`BlockingResponse.tla`** gives `create_blocking_response` and every helper it calls as pure operators. A response is `[rcode, answer, soa]`:
- `answer` is the sequence of answer RRs, each `[type, rdata]`, where `rdata` is the sequence of the RR's address fields;
- `soa` is the RETRY of the authority SOA, or 0 when there is none.

Ids, flags, TTLs and the other SOA fields are copied or constant in the code and left out. `RecordResponse` keeps what `create_arecord_response` really builds: one RR with one rdata per rule. `CreateBlockingResponse` is the code's three switches as one `CASE` in the code's order: non-A/AAAA question, adblock-style rule, blocking IP, then the addresses.

**`RequestFilter.tla`** follows the forwarder from `init` to one request after a cache miss, from the canary check to the returned response, at the granularity of `handle_message`'s stages:
- `ForwarderInit` is `dns_forwarder::init`'s control flow. It fails (deinit, no request) on an invalid custom address (`ValidCustom`), when no upstream or fallback could be created, or when the filter cannot be created. Otherwise it starts the discovery thread when DNS64 is configured.
- `Canary` is the Mozilla DoH canary.
- `Ipv6Block` runs `apply_filter` without an event and keeps its response only for a non-NOERROR rcode.
- `PreFilter` is `apply_filter` on the query name.
- `Exchange` is the outcome of `do_upstream_exchange`: no answer, NOERROR, or another rcode.
- `PostFilter` is one turn of the per-record loop, `apply_cname_filter` or `apply_ip_filter` with the carried rules.
- `Dns64Stage` is the `has_aaaa` check plus `try_dns64_aaaa_synthesis` with its early returns. `Synthesize` builds the answer list with `FoldLeft`, as the code's loop does.

The DNS64 discovery thread of `init` is `DiscoverStep`: `max_tries` rounds over `NumUpstreams` upstreams. It interleaves with the request, so synthesis sees either no prefixes or the discovered ones. Synthesis holds the prefix mutex across its A exchange (line 458), so it is one atomic step.

The matching engine (`dnsfilter`) is not in this repository. `Matches` lists the rule sequences `match` may return. `EffectiveChoices` is what spec 5 allows `get_effective_rules` to pick from the matches plus the carried rules: one adblock rule, or the hosts rules deduplicated. Every `apply_filter` call is `Apply(eff)`. It keeps the effective rules for the next stage, and appends them to the processed event with `EventAppendRules` (`event_append_rules`: the new texts go to the front, the whitelist flag comes from the first rule). The ghosts `origin`, `checked` and `applied` record which path produced the result, which answer records were filtered, and every rule any stage selected.

The `Mutation:` operators are variants of mapped definitions, each with a plausible bug. `PROJECT.json` lists which property each one breaks.

## 3. Runs

| Run | cfg | Checks | Result |
|---|---|---|---|
| forwarder | `MC_Forwarder.cfg` (settings: optimistic on, or optimistic off with IPv6 block on) | `TypeOK`, `EventOncePerRequest`, `ServedTtlSound`, `CacheRefinesSpec` | pass (144k states, ~11 s) |
| dispatch | `MC_UpstreamDispatch.cfg` (one caller, three primaries, one fallback) | `TypeOK`, `SortedBySnapshot`, `CallReturns` | pass (3k states) |
| dispatch_concurrent | `MC_UpstreamDispatch_concurrent.cfg` (two callers, two primaries, one fallback) | `PrimariesBeforeFallbacks` | pass (738k states, ~15 s) |
| tcp | `MC_TcpConnection.cfg` | `TypeOK`, `NoUseAfterClose`, `AnsweredOrClosed`, `OneShotCloses`, `ShutdownCompletes` | pass (2.7k states) |
| parser | `MC_TcpPayloadParser.cfg` | `FramesPreserved` | pass (2.2k states) |
| udp | `MC_UdpListener.cfg` | `ShutdownCompletes` | pass (958 states) |
| forwarder_crash | `MC_Forwarder_crash.cfg` (optimistic on) | `ForwarderAlive` | violation: the first expired hit calls `uv_queue_work` with a null loop |
| cache_key_dot | `MC_Forwarder_key.cfg` (label bytes a, A and '.') | `CacheKeyIsFingerprint` | violation: the one-label name `a.a` and the two-label name `a.a` share a key |
| dispatch_oob | `MC_UpstreamDispatch_oob.cfg` | `SortInBounds` | violation: a concurrent `adjust_rtt` sends the unguarded insert before `begin()` |
| request_filter | `MC_RequestFilter.cfg` | `TypeOK`, `Ipv6BlockOutcome`, `ReturnedAnswerFiltered`, `BlockingMatchesTable`, `BlockedAddressesOfFamily`, `EventRulesApplied`, `RequestCompletes`, `DiscoveryEnds` | pass (65k states, ~11 s) |
| request_filter_rdata | `MC_RequestFilter_rdata.cfg` | `OneAddressPerRR` | violation: two hosts rules give one A RR with two addresses |
| tcp_idle | `MC_TcpConnection_idle.cfg` | `RequestNotDroppedByIdle` | violation: the idle timer closes a connection whose request is in `handle_message` |

What the passing runs show:
- **Events:** every `handle_message` call fires exactly one processed event, whichever path returns, when `block_ipv6` is off.
- **Cache under concurrency:** no served TTL claims more time than is left, across the `ceil` rounding and the expiry boundary, under concurrent lookups, inserts and the final clear.
- **Cache refinement:** every step that the callers and `deinit` take on the cache is a step of `CacheSpec`. Lookups change no entry. Only cacheable responses are stored, with the spec's deadline. An entry is evicted only to make room for a new key in a full cache. A refinement is a safety check, so it catches a response cached against the rules, but not one the code declines to cache.
- **Dispatch order:** the dispatcher orders a group by the snapshot of RTTs when no other caller races it. Primaries always precede fallbacks, even under concurrent RTT updates. Every call returns.
- **TCP close:** `do_close`'s cancel-under-mutex protocol prevents every use of a closed connection, whether the work is queued, taken or running.
- **TCP requests:** on an open connection every request is answered. A one-shot connection queues one request and closes once that request is answered.
- **TCP listener:** a `shutdown()` always ends with the loop thread exiting, whatever state the connection and its works are in.
- **Framing:** every chunking of the stream yields exactly the messages sent.
- **UDP shutdown:** every task is deleted exactly once, and the loop exits.
- **Filtering:** every upstream answer that is returned had each of its CNAME, A and AAAA records run through the filter with the rules carried from the earlier stages.
- **IPv6 block:** an AAAA question answers SOA with RETRY 60, unless the filter blocks it with a non-NOERROR response, which is returned instead.
- **Init protects every request:** every address a blocking response puts in an A record is IPv4, and in an AAAA record IPv6. Custom addresses of the wrong family are possible in the settings, and only init's one-time check keeps them out.
- **Events:** the event of a request names every rule any stage selected, each once, although the post-filter selects the carried pre-filter rules again at every record.
- **Progress:** init ends, and so does the request it lets through, whether or not DNS64 discovery has found prefixes. The discovery thread ends after a success or its last round.
- **Blocking table:** for A and AAAA questions, every blocking response, whichever stage blocked, matches the table of spec 4.3 (`SpecTable`, written from the spec) in rcode, SOA and addresses, over all five modes and every custom address set or empty.

Findings (details in `PROJECT.json`):
- The optimistic refresh is queued with `uv_queue_work(nullptr, ...)` (line 953). The first expired hit with `optimistic_cache` on kills the process, where spec 4.2 says the stale entry is returned and refreshed in the background. No test under `src/` exercises this path.
- `get_cache_key` copies label bytes raw and joins the labels with '.' (line 58), without escaping a '.' byte inside a label. The one-label name whose label is `a.a` and the two-label name `a.a` therefore share a cache entry, although their fingerprints differ, and one name's cached answer is served for the other. Without the '.' byte the same check passes over names of up to two labels of up to three bytes (19.6k states), so the key does tell apart case, label boundaries, the four header fields and the root.
- The dispatcher's `std::sort` comparator reads RTTs other threads write, which is undefined behaviour for `std::sort`.
- Two hosts rules of one family give ONE A (or AAAA) RR with both addresses as rdata (line 177), where spec 8 scenario 3 expects two RRs.
- The TCP idle timer is re-armed only when a request is framed (line 441), so it cancels requests that run longer than the idle timeout.

Disagreements seen while modelling that no run checks (the project keeps one run per question):
- With `block_ipv6`, an AAAA request is answered without `finalize_processed_event` (line 985), so it fires no event. `EventOncePerRequest` fails in that setting.
- When every upstream times out, `err_str` is never set (line 1184), so the SERVFAIL event carries no error; spec 7 says it carries the combined error.
- For a question other than A/AAAA blocked by a hosts rule, the code answers REFUSED in REFUSED mode and NXDOMAIN in NXDOMAIN mode (lines 298-312); spec 4.3's table gives SOA(900). `SpecTable` is therefore checked on A and AAAA only.
- DNS64 synthesis runs after the post-filter (line 1043). Neither the A answer it fetches nor the synthesized AAAA records are filtered, so a blocked IPv4 address reaches the client embedded in an IPv6 one. The spec does not say it should be filtered.
- `event_append_rules` inserts each new rule text at the front of `event.rules` (line 376). The rules of the post-filter therefore precede those of the pre-filter, where spec 4.1 says post-filter rules are appended and spec 1 calls the list insertion-ordered. `EventRulesApplied` checks the content of the list, not its order.
- `compute_min_rr_ttl` maps a minimum TTL of `UINT32_MAX` to 0 (line 841), so a response whose RRs all have the largest TTL is not cached. Spec 4.2 would cache it. A refinement cannot show the difference, because not caching is a stuttering step of `CacheSpec`.
- Spec 4.2 says an expired hit is bumped to most-recently-used. The code calls `cache.make_lru` (line 791). `ag_cache.h` is not in this repository, and `ResponseCache` reads the name as "make least recently used" (`LruDemote`). `CacheSpec` hides the order, so neither reading is checked.
- Behind the crash at line 953, the refresh code has problems of its own. They would appear once a loop is passed:
  - a failing refresh erases the key whatever is there now (line 1199), which may be a live entry another request stored meanwhile;
  - a refresh answer with a TTL shorter than the exchange took stores an expired entry (line 1202);
  - line 959 uses `request` after `req_holder` was moved into the task, whose finalizer may already have freed it;
  - `deinit` erases a task after a successful `uv_cancel` (line 718), but libuv still calls its `after_work_cb`.
- In `conn_cb`, `start()` runs before the connection is inserted into `m_connections` (lines 576-583). When `uv_read_start` fails, the close callback's erase runs first, and the closed connection then stays in the map until the listener is destroyed. This is harmless: `before_stop` `close()`s it again, and `m_closed` turns that into a no-op.
- In `conn_cb`, when `uv_accept` fails (line 575) the handle that `uv_tcp_init` registered with the loop is freed without `uv_close`. The model's `ConnCb` refuses without a handle, so `LoopExit` does not wait for it; the run would need a handle variable that the code never closes to show the loop holding a freed handle.

Bounds and why they are enough:
- **forwarder:** two threads, so one can look up while the other inserts. There are three keys: A and AAAA of one name, and the canary. The responses are an A answer, an AAAA answer and an uncacheable NXDOMAIN. The one-entry cache makes every insert of a new key evict. Two ticks per second and four ticks let entries expire mid-second, so the `ceil` matters.
- **forwarder:** the two settings are chosen at Init, so the optimistic path (up to the crash) and the IPv6-block path are checked in one run.
- **forwarder_crash:** one tick per second and a two-tick clock: an entry stored at 0 has expired at 1.
- **cache_key_dot:** every question of up to two labels of up to three bytes among a, A and '.': three bytes are needed for a label `a.a`, and an upper-case letter for case to matter.
- **request_filter:** init, then one request over qtypes A, AAAA and TXT, with the canary name and one other name. The settings cover all five modes, the custom addresses valid, empty or of the other family, and `block_ipv6` and DNS64 on and off. The rule lists are: none, adblock, exception, two IPv4 hosts, IPv4+IPv6 hosts, and 0.0.0.0. The answers are: CNAME+A, AAAA, CNAME, TXT and NXDOMAIN. There are two DNS64 upstreams and two rounds, with a good and a rejected prefix. Every branch of `create_blocking_response` and every early return of synthesis is reached.
- **dispatch:** three primaries are enough for the inner walk of the insertion sort. `MaxRtt = 1` gives ties and inversions.
- **dispatch_concurrent:** two callers, so one caller's `adjust_rtt` can fall between the other's comparisons.
- **tcp:** two requests: both can be pending at close, and one read can hold both frames. One connection: `before_stop` then meets it pending, refused, open, closing or closed.
- **parser:** up to two messages of 0-3 bytes with `Base = 2`. Lengths 2 and 3 use both length bytes, and the chunkings split the prefix.
- **udp:** three datagrams, so `before_stop` can meet a queued, a taken and a finished task together.

Every action and every inline disjunct fires in some passing run. The IPv6 block now also fires in forwarder, and `"oob"` only in dispatch_concurrent.

**Fairness** is weak fairness on the steps that some thread runs without waiting for anything outside the system:
- **Forwarder:** none. Its steps are calls from outside and the clock, and the refresh work that the pool would run is never queued.
- **Dispatch:** a caller keeps running the call it is in.
- **Request filter:** the thread that calls `init` and then `handle_message` keeps running it; every upstream exchange ends in an answer or a timeout. The detached discovery thread runs its loop. Both are weak fairness on the thread's whole step. The filter's verdict is a nondeterministic input, so fairness cannot force a particular verdict, but it can force some step. A loop that only fails to advance while other verdicts are possible is therefore not detected (`RequestCompletes` is about steps that are disabled, such as waiting for discovery).
- **TCP and UDP:** the loop runs ready callbacks and the pool runs queued works. On TCP this includes the escape hatch callback (`Stop`) once `shutdown()` has sent it, and `uv_run`'s return (`LoopExit`) once nothing is left.

Peers, datagrams, the idle timer, shutdown and new calls are never forced.

**Deadlock:** the forwarder, request-filter, TCP, parser and UDP cfgs say `CHECK_DEADLOCK FALSE`. Each of those systems really stops:
- the forwarder after `deinit`, and the process once it has died at line 953;
- the request filter once its one request is answered and discovery has ended;
- a TCP listener once its loop thread has exited, or, when nobody calls `shutdown()`, with a closed connection and nothing else to do;
- the parser when the bytes run out;
- the UDP loop after it exits.

A hang before that point is caught by `AnsweredOrClosed` or `ShutdownCompletes` (TCP and UDP), and by `RequestCompletes` and `DiscoveryEnds` (request filter).

## 4. Not modelled (yet), and the plan

Components not modelled yet:
1. **Several TCP connections under one listener.** `before_stop` is checked for one connection. Several connections would need a map of connections, which would multiply the TCP state space by the works of every connection.
2. **The optimistic refresh task** (`async_request_worker`, `async_request_finalizer`, `deinit`'s cancel-and-wait). The code never runs it, because it dies at line 953. Modelling it would mean modelling a program the repository does not contain.

Out of scope:
- logging, base64 and the event's text fields, which are formatting;
- the filter engine and `ag_cache.h`, which are not in this repository;
- the listeners' bind/open/listen error paths, which are configuration I/O (`init`'s validation of custom addresses, and its upstream and filter failures, are modelled in `RequestFilter`);
- `event_loop.cpp` and the plain upstream, whose I/O the dispatcher model abstracts to outcomes.
