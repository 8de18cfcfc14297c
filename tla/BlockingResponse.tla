--------------------------- MODULE BlockingResponse ---------------------------
(***************************************************************************)
(* The blocking-response synthesizer of dns_forwarder                      *)
(* (src/proxy/src/dns_forwarder.cpp, create_blocking_response and the      *)
(* create_*_response helpers it calls), as pure operators.                 *)
(*                                                                         *)
(* A response is [rcode, answer, soa]: answer is the sequence of answer    *)
(* RRs, each [type, rdata] with rdata the sequence of its address fields;  *)
(* soa is the RETRY field of the SOA in the authority section, 0 if there  *)
(* is none.  Id, question, flags, TTLs and the other SOA fields are        *)
(* copied or fixed by the code and left out.  A rule is [id, ip,           *)
(* exception]; ip is NoIp for an adblock-style rule.                       *)
(***************************************************************************)
EXTENDS Sequences, SequencesExt

CONSTANTS
    V4,           \* addresses utils::is_valid_ip4 accepts
    V6,           \* the other addresses a hosts rule or a setting may carry
    BlockingIps,  \* BLOCKING_IPS: 0.0.0.0, 127.0.0.1, ::, ::1, [::], [::1]
    Zero4,        \* "0.0.0.0"
    Zero6,        \* "::"
    NoIp          \* an empty optional / an empty custom_blocking_ipv* string

ASSUME BlockingIps \subseteq V4 \cup V6 /\ Zero4 \in V4 /\ Zero6 \in V6
ASSUME NoIp \notin V4 \cup V6

BlockingModes == {"DEFAULT", "REFUSED", "NXDOMAIN", "UNSPECIFIED_ADDRESS",
                  "CUSTOM_ADDRESS"}

SoaRetryDefault == 900
SoaRetryIpv6Block == 60

\* create_response_by_request: id, question and RD/RA of the request, QR
\* set, no records, NOERROR.
ResponseByRequest == [rcode |-> "NOERROR", answer |-> <<>>, soa |-> 0]

WithRcode(rc) == [ResponseByRequest EXCEPT !.rcode = rc]

\* create_soa_response: NOERROR with create_soa(retry) in authority.
SoaResponse(retry) == [ResponseByRequest EXCEPT !.soa = retry]

\* create_nxdomain_response: NXDOMAIN with an SOA whose RETRY is 900.
NxdomainResponse ==
    [ResponseByRequest EXCEPT !.rcode = "NXDOMAIN", !.soa = SoaRetryDefault]

RefusedResponse == WithRcode("REFUSED")

ServfailResponse == WithRcode("SERVFAIL")

\* create_arecord_response / create_aaaarecord_response: ONE answer RR of
\* the type, to which the address of every rule is pushed as an rdata.
RecordResponse(type, rules) ==
    [ResponseByRequest EXCEPT
        !.answer = << [type |-> type,
                       rdata |-> [i \in 1..Len(rules) |-> rules[i].ip]] >>]

IsIp4Rule(r) == r.ip \in V4

IsIp6Rule(r) == r.ip \notin V4

(* create_response_with_ips: the rules whose address is of the family of  *)
(* the question, in rule order; SOA(900) if there is none or the question *)
(* is neither A nor AAAA.                                                 *)
ResponseWithIps(qtype, rules) ==
    LET v4 == SelectSeq(rules, IsIp4Rule)
        v6 == SelectSeq(rules, IsIp6Rule)
    IN IF qtype = "A" /\ v4 # <<>> THEN RecordResponse("A", v4)
       ELSE IF qtype = "AAAA" /\ v6 # <<>> THEN RecordResponse("AAAA", v6)
       ELSE SoaResponse(SoaRetryDefault)

\* Mutation: the empty custom address is not checked.
UnspecOrCustomNoEmptyCheck(qtype, s) ==
    LET custom == IF qtype = "A" THEN s.custom4 ELSE s.custom6
        unspec == IF qtype = "A" THEN Zero4 ELSE Zero6
    IN [ResponseByRequest EXCEPT
           !.answer = << [type |-> qtype,
                          rdata |-> << IF s.mode = "CUSTOM_ADDRESS" THEN custom
                                       ELSE unspec >>] >>]

(* create_unspec_or_custom_address_response, for an A or AAAA question:   *)
(* in CUSTOM_ADDRESS mode the custom address of the family, or SOA(900)   *)
(* when it is empty; otherwise 0.0.0.0 or ::.                             *)
UnspecOrCustom(qtype, s) ==
    LET custom == IF qtype = "A" THEN s.custom4 ELSE s.custom6
        unspec == IF qtype = "A" THEN Zero4 ELSE Zero6
    IN IF s.mode = "CUSTOM_ADDRESS" /\ custom = NoIp
       THEN SoaResponse(SoaRetryDefault)
       ELSE [ResponseByRequest EXCEPT
               !.answer = << [type |-> qtype,
                              rdata |-> << IF s.mode = "CUSTOM_ADDRESS" THEN custom
                                           ELSE unspec >>] >>]

\* rules_contain_blocking_ip
RulesContainBlockingIp(rules) == \E i \in DOMAIN rules : rules[i].ip \in BlockingIps

\* The REFUSED and NXDOMAIN arms that every switch of
\* create_blocking_response shares; `other` is what the remaining modes get.
ByMode(mode, other) ==
    CASE mode = "REFUSED" -> RefusedResponse
      [] mode = "NXDOMAIN" -> NxdomainResponse
      [] OTHER -> other

(* create_blocking_response: the effective rule is rules.front(); the     *)
(* question type, whether that rule has no IP (adblock style), whether    *)
(* any rule has a blocking IP, and the blocking mode pick the response.   *)
CreateBlockingResponse(qtype, s, rules) ==
    LET adblock == rules[1].ip = NoIp
    IN CASE qtype \notin {"A", "AAAA"} ->
              IF s.mode = "DEFAULT"
              THEN IF adblock THEN RefusedResponse ELSE SoaResponse(SoaRetryDefault)
              ELSE ByMode(s.mode, SoaResponse(SoaRetryDefault))
         [] adblock ->
              ByMode(s.mode, IF s.mode = "DEFAULT" THEN RefusedResponse
                             ELSE UnspecOrCustom(qtype, s))
         [] RulesContainBlockingIp(rules) -> ByMode(s.mode, UnspecOrCustom(qtype, s))
         [] OTHER -> ResponseWithIps(qtype, rules)

=============================================================================
