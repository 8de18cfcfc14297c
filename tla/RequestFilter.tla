---------------------------- MODULE RequestFilter ----------------------------
(***************************************************************************)
(* What handle_message (src/proxy/src/dns_forwarder.cpp) does with a      *)
(* request the cache did not answer: the Mozilla canary, the IPv6 block,   *)
(* the pre-filter by domain, the upstream exchange, the post-filter over   *)
(* the CNAME, A and AAAA records of the answer, and DNS64 synthesis, with  *)
(* apply_filter and create_blocking_response (BlockingResponse) deciding   *)
(* each filter stage.  Alongside runs the DNS64 prefix-discovery thread    *)
(* that init starts; try_dns64_aaaa_synthesis holds the prefixes' mutex    *)
(* from its emptiness check to its return, upstream exchange included, so *)
(* it is one step here.  Before the request, init validates the settings  *)
(* and builds the upstreams and the filter, and may fail; every           *)
(* apply_filter appends its effective rules to the request's processed    *)
(* event (event_append_rules).                                            *)
(*                                                                         *)
(* The filter library (filter.match, dnsfilter::get_effective_rules), the  *)
(* upstreams and dns64::discover_prefixes are not part of this repository: *)
(* what they return is chosen by \E among small sets.                      *)
(***************************************************************************)
EXTENDS Integers, Sequences, SequencesExt, BlockingResponse

CONSTANTS
    Settings,      \* dnsproxy_settings: [mode, custom4, custom6, blockIpv6, dns64]
    Names,         \* query names other than the canary
    MozillaHost,   \* MOZILLA_DOH_HOST
    Matches,       \* rule sequences filter.match may return for a hostname
    Answers,       \* responses [rcode, answer] an upstream may return
    AAnswers,      \* responses to the auxiliary A query of DNS64 synthesis
    PrefixLists,   \* non-empty prefix lists discover_prefixes may return
    BadPrefixes,   \* prefixes synthesize_ipv4_embedded_ipv6_address rejects
    NumUpstreams,  \* Len(settings.dns64->upstreams)
    MaxTries,      \* settings.dns64->max_tries
    None           \* no response: the exchange failed, or not yet exchanged

QTypes == {"A", "AAAA", "TXT"}

\* Answer RR types the post-filter runs through apply_filter.
FilteredTypes == {"CNAME", "A", "AAAA"}

VARIABLES
    settings,     \* this->settings
    qtype, qname, \* the question of the request
    stage,        \* "init", "failed", "canary", "exchange", "postfilter" or "done"
    upstream,     \* the response do_upstream_exchange returned, or None
    idx,          \* the answer RR the post-filter loop is at
    carried,      \* effective_rules, carried from one apply_filter to the next
    result,       \* the response handle_message returns, or None
    origin,       \* what produced result (ghost)
    checked,      \* indices of upstream answer RRs run through the filter (ghost)
    evRules,      \* event.rules: the texts (ids) of the rules, front first
    whitelist,    \* event.whitelist
    applied,      \* every rule some apply_filter selected as effective (ghost)
    prefixes,     \* dns64_prefixes->val
    tries,        \* rounds the discovery thread has left (its counter i)
    usIdx,        \* the discovery upstream the current round is at
    discovering   \* the discovery thread is running

requestVars == <<qtype, qname, stage, upstream, idx, carried, result, origin,
                 checked, evRules, whitelist, applied>>
eventVars == <<evRules, whitelist, applied>>
discoveryVars == <<prefixes, tries, usIdx, discovering>>
vars == <<settings, requestVars, discoveryVars>>

\* A synthesized address: the prefix with the IPv4 address embedded.
Embed(p, a) == <<p, a>>

TypeOK ==
    /\ settings \in Settings
    /\ qtype \in QTypes /\ qname \in Names \cup {MozillaHost}
    /\ stage \in {"init", "failed", "canary", "exchange", "postfilter", "done"}
    /\ upstream \in Answers \cup {None}
    /\ idx \in Nat \ {0}
    /\ origin \in {"none", "canary", "ipv6", "blocked", "servfail", "upstream",
                   "synthesized"}
    /\ checked \subseteq Nat
    /\ evRules \in Seq(STRING) /\ whitelist \in BOOLEAN
    /\ prefixes \in PrefixLists \cup {<<>>}
    /\ tries \in 0..MaxTries /\ usIdx \in 1..NumUpstreams + 1
    /\ discovering \in BOOLEAN

(* The settings init is called with, which it has not validated yet, and  *)
(* the request that will come once it has returned; the event is empty.   *)
Init ==
    /\ settings \in Settings
    /\ qtype \in QTypes /\ qname \in Names \cup {MozillaHost}
    /\ stage = "init" /\ upstream = None /\ idx = 1 /\ carried = <<>>
    /\ result = None /\ origin = "none" /\ checked = {}
    /\ evRules = <<>> /\ whitelist = FALSE /\ applied = {}
    /\ prefixes = <<>> /\ tries = MaxTries /\ usIdx = 1 /\ discovering = FALSE

\* Mutation: the custom IPv4 address is not validated.
ValidCustomNoIp4Check(s) ==
    s.mode = "CUSTOM_ADDRESS" => (s.custom6 # NoIp => s.custom6 \in V6)

\* utils::is_valid_ip4 / is_valid_ip6 on a non-empty custom address.
ValidCustom(s) ==
    s.mode = "CUSTOM_ADDRESS" =>
        /\ s.custom4 # NoIp => s.custom4 \in V4
        /\ s.custom6 # NoIp => s.custom6 \in V6

(* dns_forwarder::init: an invalid custom blocking address, no upstream   *)
(* or fallback created, or a filter that could not be created make it     *)
(* deinit and return false, and no request is handled.  Otherwise it      *)
(* starts the discovery thread when DNS64 is configured.                  *)
ForwarderInit ==
    /\ stage = "init"
    /\ \E anyUpstream, filterOk \in BOOLEAN :
          IF ValidCustom(settings) /\ anyUpstream /\ filterOk
          THEN /\ stage' = "canary"
               /\ discovering' = (settings.dns64 /\ MaxTries > 0)
          ELSE stage' = "failed" /\ UNCHANGED discovering
    /\ UNCHANGED <<settings, qtype, qname, upstream, idx, carried, result, origin,
                   checked, eventVars, prefixes, tries, usIdx>>

-----------------------------------------------------------------------------
(* apply_filter.                                                           *)

\* Each rule once, in first-occurrence order.
Dedup(rs) == FoldLeft(LAMBDA acc, r : IF Contains(acc, r) THEN acc ELSE Append(acc, r),
                      <<>>, rs)

HasIp(r) == r.ip # NoIp

(* What dnsfilter::get_effective_rules may select from the matched rules  *)
(* followed by the carried ones: one adblock-style rule, or the hosts     *)
(* rules; nothing only when there is nothing to select from.              *)
EffectiveChoices(rs) ==
    IF rs = <<>> THEN {<<>>}
    ELSE {<< rs[i] >> : i \in {j \in DOMAIN rs : ~HasIp(rs[j])}}
         \cup (IF \E i \in DOMAIN rs : HasIp(rs[i])
               THEN {Dedup(SelectSeq(rs, HasIp))} ELSE {})

\* Mutation: a rule already in the event is added again.
EventAppendRulesNoDedup(eff) ==
    IF eff = <<>> THEN UNCHANGED <<evRules, whitelist>>
    ELSE /\ evRules' = [i \in DOMAIN eff |-> eff[i].id] \o evRules
         /\ whitelist' = eff[1].exception

(* event_append_rules: the texts of the effective rules not yet in the    *)
(* event go to its front, keeping their order (the loop walks the rules   *)
(* backwards and inserts each at begin()); whitelist is whether the first *)
(* is an exception.  Nothing changes when no rule is effective.           *)
EventAppendRules(eff) ==
    IF eff = <<>> THEN UNCHANGED <<evRules, whitelist>>
    ELSE /\ evRules' = FoldLeft(LAMBDA acc, r : IF Contains(acc, r.id) THEN acc
                                                ELSE << r.id >> \o acc,
                                 evRules, Reverse(eff))
         /\ whitelist' = eff[1].exception

(* One apply_filter call that selected eff: the effective rules are kept *)
(* for the next stage and appended to the event.                          *)
Apply(eff) ==
    /\ carried' = eff
    /\ EventAppendRules(eff)
    /\ applied' = applied \cup ToSet(eff)

\* apply_filter lets the request through when no rule is effective or the
\* first effective rule is an exception.
Allowed(eff) == eff = <<>> \/ eff[1].exception

\* apply_filter blocked: handle_message returns the blocking response.
Block(eff) ==
    /\ result' = CreateBlockingResponse(qtype, settings, eff)
    /\ origin' = "blocked"
    /\ stage' = "done"

-----------------------------------------------------------------------------
(* handle_message after a cache miss.                                      *)

IsCanary == qtype \in {"A", "AAAA"} /\ qname = MozillaHost

Ipv6Blocked == settings.blockIpv6 /\ qtype = "AAAA"

\* The Mozilla canary: NXDOMAIN with an SOA.
Canary ==
    /\ stage = "canary" /\ IsCanary
    /\ result' = NxdomainResponse /\ origin' = "canary" /\ stage' = "done"
    /\ UNCHANGED <<settings, qtype, qname, upstream, idx, carried, checked,
                   eventVars, discoveryVars>>

\* Mutation: the filter's response replaces the SOA whatever its rcode.
Ipv6BlockIgnoringRcode ==
    /\ stage = "canary" /\ ~IsCanary /\ Ipv6Blocked
    /\ \E ms \in Matches : \E eff \in EffectiveChoices(ms) :
          /\ Apply(eff)
          /\ result' = IF Allowed(eff) THEN SoaResponse(SoaRetryIpv6Block)
                       ELSE CreateBlockingResponse(qtype, settings, eff)
    /\ origin' = "ipv6" /\ stage' = "done"
    /\ UNCHANGED <<settings, qtype, qname, upstream, idx, checked, discoveryVars>>

(* IPv6 blocking: apply_filter without an event; the SOA response with    *)
(* RETRY 60 unless the filter blocked with an rcode other than NOERROR,   *)
(* whose blocking response is returned instead.                           *)
Ipv6Block ==
    /\ stage = "canary" /\ ~IsCanary /\ Ipv6Blocked
    /\ \E ms \in Matches : \E eff \in EffectiveChoices(ms) :
          LET blocking == CreateBlockingResponse(qtype, settings, eff)
          IN /\ Apply(eff)
             /\ result' = IF Allowed(eff) \/ blocking.rcode = "NOERROR"
                          THEN SoaResponse(SoaRetryIpv6Block) ELSE blocking
    /\ origin' = "ipv6" /\ stage' = "done"
    /\ UNCHANGED <<settings, qtype, qname, upstream, idx, checked, discoveryVars>>

\* The pre-filter: apply_filter on the query name.
PreFilter ==
    /\ stage = "canary" /\ ~IsCanary /\ ~Ipv6Blocked
    /\ \E ms \in Matches : \E eff \in EffectiveChoices(ms) :
          /\ Apply(eff)
          /\ IF Allowed(eff) THEN stage' = "exchange" /\ UNCHANGED <<result, origin>>
             ELSE Block(eff)
    /\ UNCHANGED <<settings, qtype, qname, upstream, idx, checked, discoveryVars>>

(* do_upstream_exchange: SERVFAIL when no upstream answered; a NOERROR    *)
(* answer goes to the post-filter, any other is returned as it is.        *)
Exchange ==
    /\ stage = "exchange"
    /\ \E res \in Answers \cup {None} :
          \/ /\ res = None
             /\ result' = ServfailResponse /\ origin' = "servfail" /\ stage' = "done"
             /\ UNCHANGED upstream
          \/ /\ res # None /\ res.rcode = "NOERROR"
             /\ upstream' = res /\ stage' = "postfilter"
             /\ UNCHANGED <<result, origin>>
          \/ /\ res # None /\ res.rcode # "NOERROR"
             /\ upstream' = res /\ result' = res /\ origin' = "upstream"
             /\ stage' = "done"
    /\ UNCHANGED <<settings, qtype, qname, idx, carried, checked, eventVars,
                   discoveryVars>>

\* Mutation: AAAA records are not run through the filter.
PostFilterSkipAaaa ==
    /\ stage = "postfilter" /\ idx <= Len(upstream.answer)
    /\ IF upstream.answer[idx].type \in {"CNAME", "A"}
       THEN \E ms \in Matches : \E eff \in EffectiveChoices(ms \o carried) :
               /\ Apply(eff)
               /\ checked' = checked \cup {idx}
               /\ IF Allowed(eff) THEN idx' = idx + 1 /\ UNCHANGED <<result, origin, stage>>
                  ELSE Block(eff) /\ UNCHANGED idx
       ELSE idx' = idx + 1 /\ UNCHANGED <<carried, checked, result, origin, stage,
                                           eventVars>>
    /\ UNCHANGED <<settings, qtype, qname, upstream, discoveryVars>>

(* One turn of the post-filter loop: a CNAME's target or an A/AAAA       *)
(* record's address goes through apply_filter (apply_cname_filter,        *)
(* apply_ip_filter) with the rules carried from the earlier stages.       *)
PostFilter ==
    /\ stage = "postfilter" /\ idx <= Len(upstream.answer)
    /\ IF upstream.answer[idx].type \in FilteredTypes
       THEN \E ms \in Matches : \E eff \in EffectiveChoices(ms \o carried) :
               /\ Apply(eff)
               /\ checked' = checked \cup {idx}
               /\ IF Allowed(eff) THEN idx' = idx + 1 /\ UNCHANGED <<result, origin, stage>>
                  ELSE Block(eff) /\ UNCHANGED idx
       ELSE idx' = idx + 1 /\ UNCHANGED <<carried, checked, result, origin, stage,
                                           eventVars>>
    /\ UNCHANGED <<settings, qtype, qname, upstream, discoveryVars>>

(* The answer list try_dns64_aaaa_synthesis builds from the A response:   *)
(* other records cloned, and for each A record one AAAA per prefix the    *)
(* embedding accepts; n counts the AAAA records synthesized.              *)
Synthesize(answer, ps) ==
    LET good == SelectSeq(ps, LAMBDA p : p \notin BadPrefixes)
        step(acc, rr) ==
            IF rr.type # "A"
            THEN [list |-> Append(acc.list, rr), n |-> acc.n]
            ELSE [list |-> acc.list \o [i \in 1..Len(good) |->
                                         [type |-> "AAAA",
                                          rdata |-> << Embed(good[i], rr.rdata[1]) >>]],
                  n |-> acc.n + Len(good)]
    IN FoldLeft(step, [list |-> <<>>, n |-> 0], answer)

\* Mutation: synthesis waits until discovery has found prefixes.
Dns64StageWaitPrefixes ==
    /\ stage = "postfilter" /\ idx > Len(upstream.answer)
    /\ LET wants == settings.dns64 /\ qtype = "AAAA"
                    /\ \A i \in DOMAIN upstream.answer : upstream.answer[i].type # "AAAA"
       IN /\ wants => prefixes # <<>>
          /\ \E a \in AAnswers \cup {None} :
                LET s == Synthesize(a.answer, prefixes)
                IN IF wants /\ a # None /\ a.answer # <<>> /\ s.n > 0
                   THEN /\ result' = [ResponseByRequest EXCEPT !.answer = s.list]
                        /\ origin' = "synthesized"
                   ELSE /\ result' = upstream /\ origin' = "upstream"
    /\ stage' = "done"
    /\ UNCHANGED <<settings, qtype, qname, upstream, idx, carried, checked,
                   eventVars, discoveryVars>>

(* After the loop: for an AAAA question without AAAA records and with     *)
(* DNS64 configured, try_dns64_aaaa_synthesis under the prefixes' mutex:  *)
(* nothing without prefixes, on an A-query error, without A answers, or   *)
(* when no AAAA could be synthesized; the upstream's response otherwise   *)
(* stays.  The response is then returned (and cached).                    *)
Dns64Stage ==
    /\ stage = "postfilter" /\ idx > Len(upstream.answer)
    /\ LET wants == settings.dns64 /\ qtype = "AAAA"
                    /\ \A i \in DOMAIN upstream.answer : upstream.answer[i].type # "AAAA"
       IN \E a \in AAnswers \cup {None} :
             LET s == Synthesize(a.answer, prefixes)
             IN IF wants /\ prefixes # <<>> /\ a # None /\ a.answer # <<>> /\ s.n > 0
                THEN /\ result' = [ResponseByRequest EXCEPT !.answer = s.list]
                     /\ origin' = "synthesized"
                ELSE /\ result' = upstream /\ origin' = "upstream"
    /\ stage' = "done"
    /\ UNCHANGED <<settings, qtype, qname, upstream, idx, carried, checked,
                   eventVars, discoveryVars>>

-----------------------------------------------------------------------------
(* The DNS64 prefix-discovery thread.                                      *)

\* Mutation: the round counter is not checked, `while (i--)` never ends.
DiscoverStepNoStop ==
    /\ discovering
    /\ \/ /\ usIdx <= NumUpstreams
          /\ \E found \in PrefixLists :
                /\ prefixes' = found /\ discovering' = FALSE
                /\ UNCHANGED <<tries, usIdx>>
       \/ /\ usIdx <= NumUpstreams
          /\ usIdx' = usIdx + 1
          /\ UNCHANGED <<prefixes, tries, discovering>>
       \/ /\ usIdx > NumUpstreams
          /\ tries' = tries - 1 /\ usIdx' = 1
          /\ UNCHANGED <<prefixes, discovering>>
    /\ UNCHANGED <<settings, requestVars>>

\* Mutation: a round that found nothing does not count down.
DiscoverStepNoDecrement ==
    /\ discovering
    /\ \/ /\ usIdx <= NumUpstreams
          /\ \E found \in PrefixLists :
                /\ prefixes' = found /\ discovering' = FALSE
                /\ UNCHANGED <<tries, usIdx>>
       \/ /\ usIdx <= NumUpstreams
          /\ usIdx' = usIdx + 1
          /\ UNCHANGED <<prefixes, tries, discovering>>
       \/ /\ usIdx > NumUpstreams
          /\ usIdx' = 1
          /\ UNCHANGED <<prefixes, tries, discovering>>
    /\ UNCHANGED <<settings, requestVars>>

(* One upstream of one round (after the round's sleep): creating the     *)
(* upstream or discover_prefixes fails, or no prefix is found, and the    *)
(* thread moves on, ending after max_tries rounds; or prefixes are found, *)
(* stored under the mutex, and the thread ends.                           *)
DiscoverStep ==
    /\ discovering
    /\ \/ /\ usIdx <= NumUpstreams
          /\ \E found \in PrefixLists :
                /\ prefixes' = found /\ discovering' = FALSE
                /\ UNCHANGED <<tries, usIdx>>
       \/ /\ usIdx <= NumUpstreams     \* create_upstream or discover_prefixes failed, or empty
          /\ usIdx' = usIdx + 1
          /\ UNCHANGED <<prefixes, tries, discovering>>
       \/ /\ usIdx > NumUpstreams       \* the round is over: i--
          /\ tries' = tries - 1 /\ usIdx' = 1
          /\ discovering' = (tries - 1 > 0)
          /\ UNCHANGED prefixes
    /\ UNCHANGED <<settings, requestVars>>

\* The steps of the thread that calls init and then handle_message.
RequestStep ==
    \/ ForwarderInit
    \/ Canary \/ Ipv6Block \/ PreFilter \/ Exchange \/ PostFilter \/ Dns64Stage

Next == RequestStep \/ DiscoverStep

Spec == Init /\ [][Next]_vars

(* The calling thread runs handle_message to its return (every exchange  *)
(* ends, in an answer or a timeout) and the detached discovery thread     *)
(* runs its loop: neither waits on anything outside the system.           *)
Fairness == WF_vars(RequestStep) /\ WF_vars(DiscoverStep)

FairSpec == Spec /\ Fairness

-----------------------------------------------------------------------------
(* Properties.                                                             *)

(* With block_ipv6, an AAAA request gets no answer record, and a NOERROR  *)
(* response is the SOA with RETRY 60: a rule whose blocking response      *)
(* answers with an address (0.0.0.0/:: or a hosts rule's IPv6) must not   *)
(* leak it (spec 4.1 step 6 and section 8).                               *)
Ipv6BlockOutcome ==
    (stage = "done" /\ ~IsCanary /\ Ipv6Blocked) =>
        /\ result.answer = <<>>
        /\ result.rcode = "NOERROR" => result.soa = SoaRetryIpv6Block

(* Whenever the upstream's NOERROR response is returned as it is, every   *)
(* CNAME, A and AAAA record of its answer went through the filter: the    *)
(* post-filter loop visits all ancount records before DNS64 and the cache.*)
ReturnedAnswerFiltered ==
    (stage = "done" /\ origin = "upstream" /\ upstream.rcode = "NOERROR") =>
        \A i \in DOMAIN upstream.answer :
            upstream.answer[i].type \in FilteredTypes => i \in checked

(* The spec's decision matrix (section 4.3) for A and AAAA questions, as  *)
(* the rcode, the SOA RETRY and the answer addresses in order; a hosts    *)
(* rule answer carries the rule IPs of the question's family.             *)
SpecUnspecOrCustom(qtype_, s) ==
    LET custom == IF qtype_ = "A" THEN s.custom4 ELSE s.custom6
    IN CASE s.mode # "CUSTOM_ADDRESS" ->
              [rcode |-> "NOERROR", soa |-> 0,
               addrs |-> << IF qtype_ = "A" THEN Zero4 ELSE Zero6 >>]
         [] custom # NoIp -> [rcode |-> "NOERROR", soa |-> 0, addrs |-> << custom >>]
         [] OTHER -> [rcode |-> "NOERROR", soa |-> 900, addrs |-> <<>>]

SpecTable(qtype_, s, rules) ==
    LET refused == [rcode |-> "REFUSED", soa |-> 0, addrs |-> <<>>]
        nxdomain == [rcode |-> "NXDOMAIN", soa |-> 900, addrs |-> <<>>]
        family == IF qtype_ = "A" THEN V4 ELSE V6 \ V4
        ips == [i \in 1..Len(SelectSeq(rules, LAMBDA r : r.ip \in family)) |->
                  SelectSeq(rules, LAMBDA r : r.ip \in family)[i].ip]
    IN CASE rules[1].ip = NoIp ->
              CASE s.mode \in {"DEFAULT", "REFUSED"} -> refused
                [] s.mode = "NXDOMAIN" -> nxdomain
                [] OTHER -> SpecUnspecOrCustom(qtype_, s)
         [] \E i \in DOMAIN rules : rules[i].ip \in BlockingIps ->
              CASE s.mode = "REFUSED" -> refused
                [] s.mode = "NXDOMAIN" -> nxdomain
                [] OTHER -> SpecUnspecOrCustom(qtype_, s)
         [] ips # <<>> -> [rcode |-> "NOERROR", soa |-> 0, addrs |-> ips]
         [] OTHER -> [rcode |-> "NOERROR", soa |-> 900, addrs |-> <<>>]

\* A response seen as the table sees it.
Outcome(resp) ==
    [rcode |-> resp.rcode, soa |-> resp.soa,
     addrs |-> FlattenSeq([i \in DOMAIN resp.answer |-> resp.answer[i].rdata])]

(* A request blocked by a rule gets what the decision matrix of spec 4.3  *)
(* prescribes for its A/AAAA question, the settings and the effective     *)
(* rules apply_filter selected (left in effective_rules), whichever stage *)
(* blocked it and whatever rules earlier stages carried into the choice.  *)
BlockingMatchesTable ==
    (stage = "done" /\ origin = "blocked" /\ qtype \in {"A", "AAAA"}) =>
        Outcome(result) = SpecTable(qtype, settings, carried)

(* Every address a blocking response puts in an A record is an IPv4      *)
(* address and in an AAAA record an IPv6 one, custom addresses included:  *)
(* the custom addresses are checked once, by init, before any request     *)
(* (lines 573-590), and create_unspec_or_custom_address_response pushes   *)
(* them unchecked (lines 262, 269) at every request afterwards.           *)
BlockedAddressesOfFamily ==
    (stage = "done" /\ origin \in {"blocked", "ipv6"}) =>
        \A i \in DOMAIN result.answer :
            \A j \in DOMAIN result.answer[i].rdata :
                /\ result.answer[i].type = "A" => result.answer[i].rdata[j] \in V4
                /\ result.answer[i].type = "AAAA" => result.answer[i].rdata[j] \in V6

(* The event of a request names every rule some stage's apply_filter      *)
(* selected, each once, although the rules carried from the pre-filter    *)
(* are selected again by every post-filter call (spec 1: rule texts       *)
(* deduplicated; spec 4.1: post-filter rules join the same event).        *)
EventRulesApplied ==
    stage = "done" =>
        /\ IsInjective(evRules)
        /\ Range(evRules) = {r.id : r \in applied}

(* init ends, and so does a request it lets through: every stage of       *)
(* handle_message makes progress and the post-filter loop is bounded by   *)
(* ancount.                                                               *)
RequestCompletes == <>(stage \in {"failed", "done"})

(* The discovery thread ends and stays ended: after a success, or after   *)
(* max_tries rounds over the DNS64 upstreams (while (i--)).              *)
DiscoveryEnds == <>[]~discovering

(* Every A or AAAA record the proxy returns carries one address (spec 8,  *)
(* scenario 3: two hosts rules give two A records).                       *)
OneAddressPerRR ==
    stage = "done" =>
        \A i \in DOMAIN result.answer :
            result.answer[i].type \in {"A", "AAAA"} => Len(result.answer[i].rdata) = 1

=============================================================================
