------------------------------ MODULE CacheKey ------------------------------
(***************************************************************************)
(* get_cache_key (dns_forwarder.cpp): the string under which a request is *)
(* looked up in and inserted into the response cache.  It is the header   *)
(* "qtype|qclass|DOCD|" followed by the owner name of the question, read  *)
(* label by label from its wire form, lowercased, each label followed by  *)
(* '.' ("." alone for the root).                                          *)
(*                                                                         *)
(* The spec (section 3) defines the fingerprint as the tuple (qtype,      *)
(* qclass, DO, CD, lowercased qname): two requests must share a cache     *)
(* entry exactly when their fingerprints are equal.                        *)
(*                                                                         *)
(* A key is a sequence of tokens: the header's numbers are single tokens  *)
(* (their decimal text has no '|'), the name contributes one token per    *)
(* byte.  A name is a sequence of labels, a label a sequence of bytes.    *)
(***************************************************************************)
EXTENDS Integers, Sequences, SequencesExt

CONSTANTS
    QTypes,     \* question types, as the numbers ldns prints
    QClasses,   \* question classes
    Bytes,      \* the label bytes of the model
    ToLower,    \* std::tolower on Bytes
    MaxLabel,   \* longest label of the model
    MaxLabels   \* most labels in a name of the model

Labels == UNION {[1..n -> Bytes] : n \in 1..MaxLabel}

Names == UNION {[1..n -> Labels] : n \in 0..MaxLabels}

Questions == [qtype : QTypes, qclass : QClasses, do : BOOLEAN, cd : BOOLEAN,
              name : Names]

\* The owner name's rdf data as ldns holds it (RFC 1035 wire form): each
\* label prefixed by its length, then the zero length of the root.
Wire(name) ==
    FlattenSeq([i \in DOMAIN name |-> << Len(name[i]) >> \o name[i]]) \o << 0 >>

Bit(b) == IF b THEN "1" ELSE "0"

\* fmt::format("{}|{}|{}{}|", type, class, DO ? "1" : "0", CD ? "1" : "0").
KeyHeader(q) == << q.qtype, "|", q.qclass, "|", Bit(q.do), Bit(q.cd), "|" >>

\* A mutant of NameKey: labels are pushed without the '.' between them.
RECURSIVE NameKeyNoDot(_, _)
NameKeyNoDot(data, pos) ==
    LET len  == data[pos + 1]
        next == pos + 1 + len
    IN IF pos >= Len(data) \/ len = 0 THEN << >>
       ELSE [i \in 1..len |-> ToLower[data[pos + 1 + i]]]
            \o IF next < Len(data) THEN NameKeyNoDot(data, next) ELSE << >>

(* The copy loop from the length byte at 0-based offset pos: a zero      *)
(* length, or the end of the data, ends it; otherwise the len bytes that  *)
(* follow are pushed lowercased, then '.' if data remains, and the loop   *)
(* goes on at the next length byte.                                       *)
RECURSIVE NameKey(_, _)
NameKey(data, pos) ==
    LET len  == data[pos + 1]
        next == pos + 1 + len
    IN IF pos >= Len(data) \/ len = 0 THEN << >>
       ELSE [i \in 1..len |-> ToLower[data[pos + 1 + i]]]
            \o IF next < Len(data) THEN << "." >> \o NameKey(data, next) ELSE << >>

\* The key: a root owner (rdf size 1) is ".", any other goes through the loop.
GetCacheKey(q) ==
    LET data == Wire(q.name)
    IN KeyHeader(q) \o IF Len(data) = 1 THEN << "." >> ELSE NameKey(data, 0)

\* The fingerprint of spec section 3.
Fingerprint(q) ==
    [qtype |-> q.qtype, qclass |-> q.qclass, do |-> q.do, cd |-> q.cd,
     qname |-> [i \in DOMAIN q.name |-> [j \in DOMAIN q.name[i] |-> ToLower[q.name[i][j]]]]]

(* get_cache_key gives two requests the same key if and only if the     *)
(* spec's fingerprints are equal: pairing every key with its fingerprint  *)
(* gives as many pairs as there are keys and as there are fingerprints.   *)
KeyMatchesFingerprint ==
    LET pairs == {<< GetCacheKey(q), Fingerprint(q) >> : q \in Questions}
        keys  == {p[1] : p \in pairs}
        fps   == {p[2] : p \in pairs}
    IN Cardinality(pairs) = Cardinality(keys) /\ Cardinality(pairs) = Cardinality(fps)

=============================================================================
