-------------------------- MODULE MC_RequestFilter --------------------------
(* Model-checking instance of RequestFilter.  Rules: an adblock block, an *)
(* adblock exception, two hosts rules with IPv4 addresses, a hosts rule   *)
(* with an IPv6 one and a hosts rule with 0.0.0.0.  Upstream answers      *)
(* cover a CNAME with an A, an AAAA alone, a CNAME or a TXT alone (DNS64 *)
(* then applies) and NXDOMAIN.  The custom addresses of CUSTOM_ADDRESS   *)
(* settings may be valid, empty, or of the other family (init rejects).   *)
EXTENDS RequestFilter

CONSTANTS h4a, h4b, h6a, c4a, c6a,  \* addresses of rules and settings
          t1, a1, x1,               \* a CNAME target, an IPv4 and an IPv6 answer
          p1, pBad                  \* a DNS64 prefix, and one the embedding rejects

Rule(id, ip, exc) == [id |-> id, ip |-> ip, exception |-> exc]

rAd == Rule("ad", NoIp, FALSE)
rEx == Rule("ex", NoIp, TRUE)
rH1 == Rule("h1", h4a, FALSE)
rH2 == Rule("h2", h4b, FALSE)
rH6 == Rule("h6", h6a, FALSE)
rZ == Rule("z", Zero4, FALSE)

MCMatches == {<<>>, <<rAd>>, <<rEx>>, <<rH1, rH2>>, <<rH1, rH6>>, <<rZ>>}

RR(type, addr) == [type |-> type, rdata |-> << addr >>]

MCAnswers ==
    {[rcode |-> "NOERROR", answer |-> << RR("CNAME", t1), RR("A", a1) >>],
     [rcode |-> "NOERROR", answer |-> << RR("AAAA", x1) >>],
     [rcode |-> "NOERROR", answer |-> << RR("CNAME", t1) >>],
     [rcode |-> "NOERROR", answer |-> << RR("TXT", t1) >>],
     [rcode |-> "NXDOMAIN", answer |-> <<>>]}

MCAAnswers ==
    {[rcode |-> "NOERROR", answer |-> << RR("CNAME", t1), RR("A", a1) >>],
     [rcode |-> "NOERROR", answer |-> <<>>]}

MCSettings ==
    {[mode |-> m, custom4 |-> NoIp, custom6 |-> NoIp, blockIpv6 |-> b, dns64 |-> d] :
        m \in BlockingModes \ {"CUSTOM_ADDRESS"}, b \in BOOLEAN, d \in BOOLEAN}
    \cup
    {[mode |-> "CUSTOM_ADDRESS", custom4 |-> c4, custom6 |-> c6, blockIpv6 |-> b,
      dns64 |-> d] : c4 \in {c4a, NoIp, c6a}, c6 \in {c6a, NoIp, c4a}, b \in BOOLEAN, d \in BOOLEAN}

MCV4 == {h4a, h4b, Zero4, c4a}
MCV6 == {h6a, Zero6, c6a}
MCBlockingIps == {Zero4, Zero6}
MCPrefixLists == {<<p1>>, <<pBad>>}
=============================================================================
