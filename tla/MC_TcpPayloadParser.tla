------------------------- MODULE MC_TcpPayloadParser -------------------------
(* Two-valued bytes; DNS messages of 0 to 3 bytes, so that a length needs *)
(* both of its bytes; a peer sends up to two of them.                     *)
EXTENDS TcpPayloadParser

MCBase == 2

MCMessage == BoundedSeq(0..MCBase - 1, 3)

MCMessages == BoundedSeq(MCMessage, 2)
=============================================================================
