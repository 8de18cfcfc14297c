--------------------------- MODULE UpstreamDispatch ---------------------------
(***************************************************************************)
(* dns_forwarder::do_upstream_exchange (src/proxy/src/dns_forwarder.cpp):  *)
(* concurrent callers, each walking the primaries and then the fallbacks   *)
(* in RTT order, with one retry after a non-timeout error.  The RTT of an  *)
(* upstream is shared by all callers and updated by adjust_rtt after every *)
(* first exchange.                                                         *)
(*                                                                         *)
(* std::sort over a handful of upstreams is, in libstdc++, an insertion    *)
(* sort: __insertion_sort compares each element with the first one, moves  *)
(* it to the front if smaller, and otherwise runs __unguarded_linear_insert *)
(* which walks left without a bounds check, relying on the comparison with *)
(* the first element having been false.  The comparator reads the live     *)
(* rtt() of both upstreams, so each comparison is a step of its own.       *)
(***************************************************************************)
EXTENDS Integers, Sequences, SequencesExt

CONSTANTS
    Upstreams,   \* settings->upstreams, in construction order (a sequence)
    Fallbacks,   \* settings->fallbacks, in construction order (a sequence)
    Threads,     \* callers of do_upstream_exchange
    MaxRtt,      \* bound on the RTT estimate
    NoEntry      \* model value: no upstream selected yet

ASSUME /\ Len(Upstreams) + Len(Fallbacks) > 0
       /\ ToSet(Upstreams) \cap ToSet(Fallbacks) = {}
       /\ MaxRtt \in Nat

AllUpstreams == ToSet(Upstreams) \cup ToSet(Fallbacks)

\* Mutation: the fallbacks are walked first.
GroupsSwapped == <<Fallbacks, Upstreams>>

\* The two groups, in the order the outer loop visits them.
Groups == <<Upstreams, Fallbacks>>

\* upstream::exchange_result: an answer, the timeout error, or another one.
Outcomes == {"ok", "timeout", "error"}

VARIABLES
    rtt,      \* upstream -> its RTT estimate
    pc,       \* thread -> where it is in do_upstream_exchange
    grp,      \* thread -> index of the group being walked
    sorted,   \* thread -> sorted_upstreams
    i,        \* thread -> outer index of the insertion sort
    j,        \* thread -> position the inner loop compares with
    val,      \* thread -> the element __unguarded_linear_insert moves
    pos,      \* thread -> index of the upstream being exchanged with
    cur,      \* thread -> cur_upstream
    errSet,   \* thread -> err_str is non-empty
    result,   \* thread -> "none", "ok" or "fail" once the call returns
    tried,    \* thread -> upstreams exchanged with, in order (ghost)
    snap      \* thread -> the RTTs when the group was sorted (ghost)

vars == <<rtt, pc, grp, sorted, i, j, val, pos, cur, errSet, result, tried, snap>>

Stages == {"idle", "sort_outer", "sort_inner", "exchange", "retry", "done", "oob"}

TypeOK ==
    /\ rtt \in [AllUpstreams -> 0..MaxRtt]
    /\ pc \in [Threads -> Stages]
    /\ grp \in [Threads -> 1..2]
    /\ sorted \in [Threads -> Seq(AllUpstreams)]
    /\ i \in [Threads -> Nat]
    /\ j \in [Threads -> Nat]
    /\ val \in [Threads -> AllUpstreams \cup {NoEntry}]
    /\ pos \in [Threads -> Nat]
    /\ cur \in [Threads -> AllUpstreams \cup {NoEntry}]
    /\ errSet \in [Threads -> BOOLEAN]
    /\ result \in [Threads -> {"none", "ok", "fail"}]
    /\ tried \in [Threads -> Seq(AllUpstreams)]
    /\ snap \in [Threads -> [AllUpstreams -> 0..MaxRtt]]

Init ==
    /\ rtt \in [AllUpstreams -> 0..MaxRtt]
    /\ pc = [t \in Threads |-> "idle"]
    /\ grp = [t \in Threads |-> 1]
    /\ sorted = [t \in Threads |-> <<>>]
    /\ i = [t \in Threads |-> 0]
    /\ j = [t \in Threads |-> 0]
    /\ val = [t \in Threads |-> NoEntry]
    /\ pos = [t \in Threads |-> 0]
    /\ cur = [t \in Threads |-> NoEntry]
    /\ errSet = [t \in Threads |-> FALSE]
    /\ result = [t \in Threads |-> "none"]
    /\ tried = [t \in Threads |-> <<>>]
    /\ snap = [t \in Threads |-> [u \in AllUpstreams |-> 0]]

\* The sort comparator: a->rtt() < b->rtt(), read now.
RttLess(a, b) == rtt[a] < rtt[b]

\* sorted_upstreams is filled with group g and the insertion sort starts.
BeginGroup(t, g) ==
    /\ grp' = [grp EXCEPT ![t] = g]
    /\ sorted' = [sorted EXCEPT ![t] = Groups[g]]
    /\ i' = [i EXCEPT ![t] = 2]
    /\ snap' = [snap EXCEPT ![t] = rtt]
    /\ pc' = [pc EXCEPT ![t] = "sort_outer"]

-----------------------------------------------------------------------------
(* One action per step of the call.                                        *)

\* do_upstream_exchange is entered with an empty err_str.
Start(t) ==
    /\ pc[t] = "idle"
    /\ BeginGroup(t, 1)
    /\ errSet' = [errSet EXCEPT ![t] = FALSE]
    /\ result' = [result EXCEPT ![t] = "none"]
    /\ tried' = [tried EXCEPT ![t] = <<>>]
    /\ UNCHANGED <<rtt, j, val, pos, cur>>

\* Mutation: the outer loop stops one element early.
SortOuterShort(t) ==
    LET s == sorted[t] IN
    /\ pc[t] = "sort_outer"
    /\ \/ /\ i[t] < Len(s) /\ RttLess(s[i[t]], s[1])
          /\ sorted' = [sorted EXCEPT ![t] =
                          <<s[i[t]]>> \o SubSeq(s, 1, i[t] - 1)
                                      \o SubSeq(s, i[t] + 1, Len(s))]
          /\ i' = [i EXCEPT ![t] = @ + 1]
          /\ UNCHANGED <<pc, j, val, pos>>
       \/ /\ i[t] < Len(s) /\ ~RttLess(s[i[t]], s[1])
          /\ val' = [val EXCEPT ![t] = s[i[t]]]
          /\ j' = [j EXCEPT ![t] = i[t] - 1]
          /\ pc' = [pc EXCEPT ![t] = "sort_inner"]
          /\ UNCHANGED <<sorted, i, pos>>
       \/ /\ i[t] >= Len(s)
          /\ pos' = [pos EXCEPT ![t] = 1]
          /\ pc' = [pc EXCEPT ![t] = "exchange"]
          /\ UNCHANGED <<sorted, i, j, val>>
    /\ UNCHANGED <<rtt, grp, cur, errSet, result, tried, snap>>

(* __insertion_sort, one iteration of its outer loop: the element at i is *)
(* compared with the first; if smaller it is rotated to the front,        *)
(* otherwise the unguarded insert starts from i - 1.  Past the end, the   *)
(* exchange loop starts.                                                  *)
SortOuter(t) ==
    LET s == sorted[t] IN
    /\ pc[t] = "sort_outer"
    /\ \/ /\ i[t] <= Len(s) /\ RttLess(s[i[t]], s[1])
          /\ sorted' = [sorted EXCEPT ![t] =
                          <<s[i[t]]>> \o SubSeq(s, 1, i[t] - 1)
                                      \o SubSeq(s, i[t] + 1, Len(s))]
          /\ i' = [i EXCEPT ![t] = @ + 1]
          /\ UNCHANGED <<pc, j, val, pos>>
       \/ /\ i[t] <= Len(s) /\ ~RttLess(s[i[t]], s[1])
          /\ val' = [val EXCEPT ![t] = s[i[t]]]
          /\ j' = [j EXCEPT ![t] = i[t] - 1]
          /\ pc' = [pc EXCEPT ![t] = "sort_inner"]
          /\ UNCHANGED <<sorted, i, pos>>
       \/ /\ i[t] > Len(s)
          /\ pos' = [pos EXCEPT ![t] = 1]
          /\ pc' = [pc EXCEPT ![t] = "exchange"]
          /\ UNCHANGED <<sorted, i, j, val>>
    /\ UNCHANGED <<rtt, grp, cur, errSet, result, tried, snap>>

\* Mutation: after the insert the outer loop does not advance.
SortInnerNoAdvance(t) ==
    LET s == sorted[t]
        k == j[t]
    IN /\ pc[t] = "sort_inner"
       /\ \/ /\ RttLess(val[t], s[k]) /\ k > 1
             /\ sorted' = [sorted EXCEPT ![t] = [s EXCEPT ![k] = s[k + 1], ![k + 1] = s[k]]]
             /\ j' = [j EXCEPT ![t] = k - 1]
             /\ UNCHANGED pc
          \/ /\ RttLess(val[t], s[k]) /\ k = 1
             /\ pc' = [pc EXCEPT ![t] = "oob"]
             /\ UNCHANGED <<sorted, j>>
          \/ /\ ~RttLess(val[t], s[k])
             /\ pc' = [pc EXCEPT ![t] = "sort_outer"]
             /\ UNCHANGED <<sorted, j>>
       /\ UNCHANGED <<rtt, grp, i, val, pos, cur, errSet, result, tried, snap>>

(* __unguarded_linear_insert, one comparison: while val is less than the  *)
(* element at j, that element moves right and j moves left.  When the    *)
(* element at 1 compares greater, the next comparison reads before the    *)
(* start of the vector (no bound check): the thread is in "oob".          *)
SortInner(t) ==
    LET s == sorted[t]
        k == j[t]
    IN /\ pc[t] = "sort_inner"
       /\ \/ /\ RttLess(val[t], s[k]) /\ k > 1
             /\ sorted' = [sorted EXCEPT ![t] = [s EXCEPT ![k] = s[k + 1], ![k + 1] = s[k]]]
             /\ j' = [j EXCEPT ![t] = k - 1]
             /\ UNCHANGED <<pc, i>>
          \/ /\ RttLess(val[t], s[k]) /\ k = 1
             /\ pc' = [pc EXCEPT ![t] = "oob"]
             /\ UNCHANGED <<sorted, i, j>>
          \/ /\ ~RttLess(val[t], s[k])
             /\ i' = [i EXCEPT ![t] = @ + 1]
             /\ pc' = [pc EXCEPT ![t] = "sort_outer"]
             /\ UNCHANGED <<sorted, j>>
       /\ UNCHANGED <<rtt, grp, val, pos, cur, errSet, result, tried, snap>>

\* Mutation: adjust_rtt adds the sample instead of averaging it in.
ExchangeAccumulatingRtt(t) ==
    LET u == sorted[t][pos[t]] IN
    /\ pc[t] = "exchange" /\ pos[t] <= Len(sorted[t])
    /\ cur' = [cur EXCEPT ![t] = u]
    /\ tried' = [tried EXCEPT ![t] = Append(@, u)]
    /\ \E r \in 0..MaxRtt : rtt' = [rtt EXCEPT ![u] = @ + r]
    /\ \E o \in Outcomes :
          \/ /\ o = "ok"
             /\ result' = [result EXCEPT ![t] = "ok"]
             /\ pc' = [pc EXCEPT ![t] = "done"]
             /\ UNCHANGED pos
          \/ /\ o = "timeout"
             /\ pos' = [pos EXCEPT ![t] = @ + 1]
             /\ UNCHANGED <<result, pc>>
          \/ /\ o = "error"
             /\ pc' = [pc EXCEPT ![t] = "retry"]
             /\ UNCHANGED <<result, pos>>
    /\ UNCHANGED <<grp, sorted, i, j, val, errSet, snap>>

(* The body of the inner loop: exchange with sorted[pos], then            *)
(* adjust_rtt with the elapsed time.  An answer returns; a timeout moves  *)
(* on; another error is retried.                                          *)
Exchange(t) ==
    LET u == sorted[t][pos[t]] IN
    /\ pc[t] = "exchange" /\ pos[t] <= Len(sorted[t])
    /\ cur' = [cur EXCEPT ![t] = u]
    /\ tried' = [tried EXCEPT ![t] = Append(@, u)]
    /\ \E r \in 0..MaxRtt : rtt' = [rtt EXCEPT ![u] = r]
    /\ \E o \in Outcomes :
          \/ /\ o = "ok"
             /\ result' = [result EXCEPT ![t] = "ok"]
             /\ pc' = [pc EXCEPT ![t] = "done"]
             /\ UNCHANGED pos
          \/ /\ o = "timeout"
             /\ pos' = [pos EXCEPT ![t] = @ + 1]
             /\ UNCHANGED <<result, pc>>
          \/ /\ o = "error"
             /\ pc' = [pc EXCEPT ![t] = "retry"]
             /\ UNCHANGED <<result, pos>>
    /\ UNCHANGED <<grp, sorted, i, j, val, errSet, snap>>

(* The one retry against the same upstream (no adjust_rtt): an answer    *)
(* returns; a second failure records the combined error and moves on.    *)
Retry(t) ==
    /\ pc[t] = "retry"
    /\ \/ /\ result' = [result EXCEPT ![t] = "ok"]
          /\ pc' = [pc EXCEPT ![t] = "done"]
          /\ UNCHANGED <<errSet, pos>>
       \/ /\ errSet' = [errSet EXCEPT ![t] = TRUE]
          /\ pos' = [pos EXCEPT ![t] = @ + 1]
          /\ pc' = [pc EXCEPT ![t] = "exchange"]
          /\ UNCHANGED result
    /\ UNCHANGED <<rtt, grp, sorted, i, j, val, cur, tried, snap>>

(* The inner loop is exhausted: the fallbacks are sorted next, or, after  *)
(* them, the call returns no response with err_str and cur_upstream.     *)
EndGroup(t) ==
    /\ pc[t] = "exchange" /\ pos[t] > Len(sorted[t])
    /\ \/ /\ grp[t] = 1
          /\ BeginGroup(t, 2)
          /\ UNCHANGED result
       \/ /\ grp[t] = 2
          /\ result' = [result EXCEPT ![t] = "fail"]
          /\ pc' = [pc EXCEPT ![t] = "done"]
          /\ UNCHANGED <<grp, sorted, i, snap>>
    /\ UNCHANGED <<rtt, j, val, pos, cur, errSet, tried>>

(* The caller takes the result and the locals of the call go out of      *)
(* scope; the thread can call again.                                      *)
Return(t) ==
    /\ pc[t] = "done"
    /\ pc' = [pc EXCEPT ![t] = "idle"]
    /\ grp' = [grp EXCEPT ![t] = 1]
    /\ sorted' = [sorted EXCEPT ![t] = <<>>]
    /\ i' = [i EXCEPT ![t] = 0]
    /\ j' = [j EXCEPT ![t] = 0]
    /\ val' = [val EXCEPT ![t] = NoEntry]
    /\ pos' = [pos EXCEPT ![t] = 0]
    /\ cur' = [cur EXCEPT ![t] = NoEntry]
    /\ errSet' = [errSet EXCEPT ![t] = FALSE]
    /\ result' = [result EXCEPT ![t] = "none"]
    /\ tried' = [tried EXCEPT ![t] = <<>>]
    /\ snap' = [snap EXCEPT ![t] = [u \in AllUpstreams |-> 0]]
    /\ UNCHANGED rtt

Next ==
    \E t \in Threads :
        \/ Start(t) \/ SortOuter(t) \/ SortInner(t) \/ Exchange(t)
        \/ Retry(t) \/ EndGroup(t) \/ Return(t)

\* Each caller thread keeps running the call it is in.
Fairness ==
    \A t \in Threads :
        /\ WF_vars(SortOuter(t)) /\ WF_vars(SortInner(t)) /\ WF_vars(Exchange(t))
        /\ WF_vars(Retry(t)) /\ WF_vars(EndGroup(t))

Spec == Init /\ [][Next]_vars /\ Fairness

-----------------------------------------------------------------------------
(* Properties.                                                             *)

\* The upstreams of seq s, in order, have non-decreasing RTTs under r.
SortedBy(s, r) == \A a, b \in 1..Len(s) : a < b => r[s[a]] <= r[s[b]]

(* The dispatcher exchanges with the upstreams of a group in order of     *)
(* their RTT when the group was sorted (spec 4.5 step 1a and section 8):  *)
(* the insertion sort, its front rotation and its inner walk leave the    *)
(* group ordered.                                                         *)
SortedBySnapshot ==
    \A t \in Threads : pc[t] \in {"exchange", "retry"} => SortedBy(sorted[t], snap[t])

(* Every primary is tried before any fallback: once a fallback has been   *)
(* exchanged with, every primary was, each once, and earlier (spec 4.5    *)
(* and section 8), whatever the other callers do to the RTTs meanwhile.   *)
PrimariesBeforeFallbacks ==
    \A t \in Threads : \A b \in 1..Len(tried[t]) :
        tried[t][b] \in ToSet(Fallbacks) =>
            /\ b > Len(Upstreams)
            /\ ToSet(SubSeq(tried[t], 1, Len(Upstreams))) = ToSet(Upstreams)

(* The sort never reads outside sorted_upstreams: the unguarded insert    *)
(* stops at the first element because the comparison with it was false.  *)
SortInBounds == \A t \in Threads : pc[t] # "oob"

(* A call that fails reports why: the SERVFAIL event carries the combined *)
(* error of the upstreams (spec section 7, "All upstreams failed").       *)
ErrorReported ==
    \A t \in Threads : pc[t] = "done" /\ result[t] = "fail" => errSet[t]

(* Every call returns: each upstream is tried at most twice, then the     *)
(* next one, then the fallbacks.                                          *)
CallReturns == \A t \in Threads : pc[t] = "sort_outer" ~> pc[t] = "done"

=============================================================================
