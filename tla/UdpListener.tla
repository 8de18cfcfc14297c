----------------------------- MODULE UdpListener -----------------------------
(***************************************************************************)
(* listener_udp and the shutdown path of listener_base                     *)
(* (src/proxy/src/dnsproxy_listener.cpp).                                   *)
(*                                                                         *)
(* The loop thread runs recv_cb, after_work_cb, send_cb and the escape     *)
(* hatch; pool threads run work_cb (handle_message); any thread may call   *)
(* shutdown().  Each datagram becomes a task: queued on the pool and put   *)
(* in m_pending, then answered with uv_udp_send and deleted in send_cb, or *)
(* deleted at once when cancelled or when the send cannot start.  uv_run  *)
(* returns once no handle is open and no request is active.               *)
(***************************************************************************)
EXTENDS Integers

CONSTANT MaxReqs   \* bound on the datagrams received

ASSUME MaxReqs \in Nat \ {0}

Tasks == 1..MaxReqs

\* queued on the pool, taken by a pool thread, work_cb returned (after_work
\* due), send in flight, deleted.
TaskStates == {"none", "queued", "picked", "done", "sending", "freed"}

VARIABLES
    received,   \* datagrams turned into tasks
    ts,         \* task -> TaskStates
    ecanceled,  \* task -> uv_cancel succeeded (after_work gets UV_ECANCELED)
    pending,    \* m_pending
    udpOpen,    \* m_udp_handle is open and receiving
    hatchOpen,  \* m_escape_hatch is open
    asyncSent,  \* uv_async_send on the escape hatch is pending
    shutdown,   \* shutdown() has been called
    exited,     \* uv_run has returned; the loop thread ends
    frees,      \* task -> times the task was deleted (ghost)
    answered    \* tasks whose response was sent (ghost)

vars == <<received, ts, ecanceled, pending, udpOpen, hatchOpen, asyncSent,
          shutdown, exited, frees, answered>>

TypeOK ==
    /\ received \in 0..MaxReqs
    /\ ts \in [Tasks -> TaskStates]
    /\ ecanceled \in [Tasks -> BOOLEAN]
    /\ pending \subseteq Tasks
    /\ udpOpen \in BOOLEAN /\ hatchOpen \in BOOLEAN /\ asyncSent \in BOOLEAN
    /\ shutdown \in BOOLEAN /\ exited \in BOOLEAN
    /\ frees \in [Tasks -> Nat]
    /\ answered \subseteq Tasks

(* init succeeded: the escape hatch and the UDP handle are open and       *)
(* receiving, and the loop thread runs uv_run.                            *)
Init ==
    /\ received = 0
    /\ ts = [t \in Tasks |-> "none"]
    /\ ecanceled = [t \in Tasks |-> FALSE]
    /\ pending = {}
    /\ udpOpen = TRUE /\ hatchOpen = TRUE /\ asyncSent = FALSE
    /\ shutdown = FALSE /\ exited = FALSE
    /\ frees = [t \in Tasks |-> 0]
    /\ answered = {}

(* recv_cb with a whole, non-empty datagram: a task is queued and put in  *)
(* m_pending.  Errors, empty and truncated datagrams only free the buffer.*)
Recv ==
    /\ ~exited /\ udpOpen /\ received < MaxReqs
    /\ received' = received + 1
    /\ ts' = [ts EXCEPT ![received + 1] = "queued"]
    /\ pending' = pending \cup {received + 1}
    /\ UNCHANGED <<ecanceled, udpOpen, hatchOpen, asyncSent, shutdown, exited,
                   frees, answered>>

\* A pool thread takes the task; uv_cancel of it now fails.
WorkPick(t) ==
    /\ ts[t] = "queued"
    /\ ts' = [ts EXCEPT ![t] = "picked"]
    /\ UNCHANGED <<received, ecanceled, pending, udpOpen, hatchOpen, asyncSent,
                   shutdown, exited, frees, answered>>

\* work_cb: handle_message fills in the response.
WorkRun(t) ==
    /\ ts[t] = "picked"
    /\ ts' = [ts EXCEPT ![t] = "done"]
    /\ UNCHANGED <<received, ecanceled, pending, udpOpen, hatchOpen, asyncSent,
                   shutdown, exited, frees, answered>>

(* shutdown(), from any thread: uv_async_send on the escape hatch, which  *)
(* init has set up.                                                       *)
Shutdown ==
    /\ ~shutdown
    /\ shutdown' = TRUE
    /\ asyncSent' = TRUE
    /\ UNCHANGED <<received, ts, ecanceled, pending, udpOpen, hatchOpen, exited,
                   frees, answered>>

\* Mutation: before_stop cancels the tasks but leaves the UDP handle open.
EscapeHatchKeepHandle ==
    /\ ~exited /\ hatchOpen /\ asyncSent
    /\ ts' = [t \in Tasks |-> IF t \in pending /\ ts[t] = "queued" THEN "done" ELSE ts[t]]
    /\ ecanceled' = [t \in Tasks |-> ecanceled[t] \/ (t \in pending /\ ts[t] = "queued")]
    /\ hatchOpen' = FALSE
    /\ asyncSent' = FALSE
    /\ UNCHANGED <<received, pending, udpOpen, shutdown, exited, frees, answered>>

(* before_stop: the UDP handle is closed and every task of m_pending is   *)
(* uv_cancel'ed; only those no pool thread has taken are cancelled, and   *)
(* they come back to after_work_cb with UV_ECANCELED.                     *)
BeforeStop ==
    /\ udpOpen' = FALSE
    /\ ts' = [t \in Tasks |-> IF t \in pending /\ ts[t] = "queued" THEN "done" ELSE ts[t]]
    /\ ecanceled' = [t \in Tasks |-> ecanceled[t] \/ (t \in pending /\ ts[t] = "queued")]

(* escape_hatch_cb: before_stop, then the escape hatch itself is closed.  *)
EscapeHatch ==
    /\ ~exited /\ hatchOpen /\ asyncSent
    /\ BeforeStop
    /\ hatchOpen' = FALSE
    /\ asyncSent' = FALSE
    /\ UNCHANGED <<received, pending, shutdown, exited, frees, answered>>

(* after_work_cb: the task leaves m_pending; a cancelled one is deleted;  *)
(* otherwise its response goes to uv_udp_send, and the task is deleted at *)
(* once if the send cannot start.                                         *)
AfterWork(t) ==
    /\ ~exited /\ ts[t] = "done"
    /\ pending' = pending \ {t}
    /\ IF ecanceled[t]
       THEN ts' = [ts EXCEPT ![t] = "freed"]
       ELSE \/ ts' = [ts EXCEPT ![t] = "sending"]
            \/ ts' = [ts EXCEPT ![t] = "freed"]
    /\ frees' = [frees EXCEPT ![t] = IF ts'[t] = "freed" THEN @ + 1 ELSE @]
    /\ UNCHANGED <<received, ecanceled, udpOpen, hatchOpen, asyncSent, shutdown,
                   exited, answered>>

(* send_cb: the send finished (with an error once the handle is closed);  *)
(* the task is deleted.                                                   *)
SendCb(t) ==
    /\ ~exited /\ ts[t] = "sending"
    /\ ts' = [ts EXCEPT ![t] = "freed"]
    /\ frees' = [frees EXCEPT ![t] = @ + 1]
    /\ \/ udpOpen /\ answered' = answered \cup {t}
       \/ UNCHANGED answered
    /\ UNCHANGED <<received, ecanceled, pending, udpOpen, hatchOpen, asyncSent,
                   shutdown, exited>>

\* uv_run returns: no open handle and no active request is left.
LoopExit ==
    /\ ~exited /\ ~udpOpen /\ ~hatchOpen
    /\ \A t \in Tasks : ts[t] \in {"none", "freed"}
    /\ exited' = TRUE
    /\ UNCHANGED <<received, ts, ecanceled, pending, udpOpen, hatchOpen, asyncSent,
                   shutdown, frees, answered>>

Next ==
    \/ Recv \/ Shutdown \/ EscapeHatch \/ LoopExit
    \/ \E t \in Tasks : WorkPick(t) \/ WorkRun(t) \/ AfterWork(t) \/ SendCb(t)

(* The loop runs every ready callback and the pool every queued task;     *)
(* datagrams and the shutdown call are not forced.                        *)
Fairness ==
    /\ WF_vars(EscapeHatch) /\ WF_vars(LoopExit)
    /\ \A t \in Tasks : /\ WF_vars(WorkPick(t)) /\ WF_vars(WorkRun(t))
                        /\ WF_vars(AfterWork(t)) /\ WF_vars(SendCb(t))

Spec == Init /\ [][Next]_vars /\ Fairness

-----------------------------------------------------------------------------
(* Properties.                                                             *)

(* After shutdown() the loop thread ends, so await_shutdown returns, and  *)
(* every task received has been deleted: before_stop closes the handle,   *)
(* cancels what has not started, and the rest finish and are sent or      *)
(* dropped.                                                               *)
ShutdownCompletes ==
    shutdown ~> (exited /\ \A t \in 1..received : frees[t] = 1)

=============================================================================
