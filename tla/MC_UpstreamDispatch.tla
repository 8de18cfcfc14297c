------------------------- MODULE MC_UpstreamDispatch -------------------------
(* Model-checking instance of UpstreamDispatch: three primaries and one    *)
(* fallback, so that the sort both rotates to the front and walks inward, *)
(* and two RTT values, enough for ties and for an order to flip.          *)
EXTENDS UpstreamDispatch

CONSTANTS u1, u2, u3, f1

MCUpstreams == <<u1, u2, u3>>
MCFallbacks == <<f1>>

\* Two primaries, for runs with two callers.
MCUpstreams2 == <<u1, u2>>
=============================================================================
