--------------------------- MODULE TcpPayloadParser ---------------------------
(***************************************************************************)
(* tcp_dns_payload_parser (src/proxy/src/dnsproxy_listener.cpp) and the    *)
(* loop of read_cb that drains it.  The peer writes DNS messages framed by *)
(* a two-byte big-endian length (RFC 1035 4.2.2); the stream hands them to *)
(* read_cb in chunks of any size.  Bytes range over 0..Base-1, Base        *)
(* standing in for 256, so the length of a frame is hi * Base + lo.        *)
(***************************************************************************)
EXTENDS Integers, Sequences, SequencesExt

CONSTANTS
    Base,       \* values of a byte
    Messages    \* the sequences of DNS messages (byte sequences) a peer sends

ASSUME Base \in Nat \ {0, 1}

\* The wire form of a sequence of messages: each preceded by its length.
RECURSIVE Encode(_)
Encode(ms) ==
    IF ms = <<>> THEN <<>>
    ELSE << Len(Head(ms)) \div Base, Len(Head(ms)) % Base >> \o Head(ms) \o Encode(Tail(ms))

\* Mutation: the size read in host order, without ntohs.
SizeHostOrder(d) == d[2] * Base + d[1]

\* m_size = ntohs(*(uint16_t *) m_data.data())
SizeOf(d) == d[1] * Base + d[2]

(* next_payload, repeated while it succeeds, as read_cb's while loop does. *)
(* The parser is [st |-> RD_SIZE or RD_PAYLOAD, size, data]; a completed  *)
(* payload is appended to out.                                            *)
RECURSIVE Drain(_, _)
Drain(p, out) ==
    LET q == IF p.st = "RD_SIZE" /\ Len(p.data) >= 2
             THEN [p EXCEPT !.size = SizeOf(p.data), !.st = "RD_PAYLOAD"]
             ELSE p
    IN IF q.st = "RD_PAYLOAD" /\ Len(q.data) >= 2 + q.size
       THEN Drain([st |-> "RD_SIZE", size |-> q.size,
                   data |-> SubSeq(q.data, 3 + q.size, Len(q.data))],
                  Append(out, SubSeq(q.data, 3, 2 + q.size)))
       ELSE [parser |-> q, out |-> out]

VARIABLES
    sent,     \* the messages the peer wrote (fixed by Init)
    wire,     \* bytes written by the peer, not yet delivered to read_cb
    parser,   \* the tcp_dns_payload_parser of the connection
    out       \* payloads read_cb has queued as works, in order

vars == <<sent, wire, parser, out>>

TypeOK ==
    /\ sent \in Messages
    /\ wire \in Seq(0..Base - 1)
    /\ parser \in [st: {"RD_SIZE", "RD_PAYLOAD"}, size: Nat, data: Seq(0..Base - 1)]
    /\ out \in Seq(Seq(0..Base - 1))

\* A new parser: state RD_SIZE, size 0, no data.
Init ==
    /\ sent \in Messages
    /\ wire = Encode(sent)
    /\ parser = [st |-> "RD_SIZE", size |-> 0, data |-> <<>>]
    /\ out = <<>>

(* read_cb with nread = n > 0: push_data of the chunk, then every payload *)
(* the parser completes is taken in order.                                *)
ReadChunk ==
    \E n \in 1..Len(wire) :
        LET r == Drain([parser EXCEPT !.data = @ \o SubSeq(wire, 1, n)], out)
        IN /\ wire' = SubSeq(wire, n + 1, Len(wire))
           /\ parser' = r.parser
           /\ out' = r.out
           /\ UNCHANGED sent

Next == ReadChunk

Spec == Init /\ [][Next]_vars

-----------------------------------------------------------------------------
(* Properties.                                                             *)

(* However the stream splits the peer's bytes into reads, the payloads    *)
(* read_cb takes from the parser are the peer's messages, in order and    *)
(* none lost or merged, and every one has been taken once all bytes are   *)
(* read: the parser keeps its RD_PAYLOAD state and partial data across    *)
(* reads, including a length split over two reads.                        *)
FramesPreserved ==
    /\ IsPrefix(out, sent)
    /\ wire = <<>> => out = sent

=============================================================================
