---------------------------- MODULE TcpConnection ----------------------------
(***************************************************************************)
(* tcp_dns_connection (src/proxy/src/dnsproxy_listener.cpp): one         *)
(* connection, its requests processed on the libuv pool, and its close,   *)
(* under listener_tcp: conn_cb accepts it into m_connections, shutdown    *)
(* wakes the loop through the escape hatch, before_stop closes the        *)
(* listening handle and every connection in m_connections, and the loop   *)
(* thread exits once no handle or request is left.                        *)
(*                                                                         *)
(* Three kinds of actor: the loop thread (read_cb, after_work_cb,          *)
(* write_cb, the idle timer, before_stop and do_close), the pool threads   *)
(* (work_cb, which holds the work's mutex across handle_message), and the  *)
(* peer, which sends framed requests and may end the stream.  The nth     *)
(* framed request is work n.  do_close is split where it can block: it    *)
(* takes each pending work's mutex in turn, and cannot while work_cb is   *)
(* inside handle_message.                                                  *)
(***************************************************************************)
EXTENDS Integers, FiniteSets

CONSTANT MaxReqs   \* bound on the requests the peer sends

ASSUME MaxReqs \in Nat \ {0}

Works == 1..MaxReqs

\* Life of a work: queued on the pool, taken by a pool thread, inside
\* handle_message under its mutex, work_cb returned, deleted.
WorkStates == {"none", "queued", "picked", "running", "finished", "gone"}

\* Why do_close was called.
Reasons == {"none", "read_start", "idle", "peer", "stop", "write_error", "done"}

VARIABLES
    sent,         \* requests the peer has written
    peerEof,      \* the peer has ended its stream
    framed,       \* requests tcp_dns_payload_parser has handed to read_cb
    reading,      \* uv_read_start is in effect
    timerArmed,   \* the idle timer is running
    closed,       \* m_closed; the close callback erases the connection
    closeReason,  \* what called do_close (ghost)
    loop,         \* "idle", or "closing" while do_close cancels the works
    cancelLeft,   \* pending works do_close has still to cancel
    ws,           \* work -> WorkStates
    canceled,     \* work -> its canceled flag
    ecanceled,    \* work -> uv_cancel succeeded (after_work gets UV_ECANCELED)
    pending,      \* m_pending_works
    writes,       \* works whose response uv_write has in flight
    answered,     \* works whose response was written to the peer
    persistent,   \* m_persistent: keep reading after the first request
    touched,      \* a callback used the connection after it was erased (ghost)
    conn,         \* "pending" until conn_cb, then "refused" or "started"
    inMap,        \* m_connections holds the connection
    listening,    \* m_tcp_handle is open
    hatch,        \* the escape hatch: "open", "sent" (uv_async_send), "closed"
    exited        \* uv_run has returned on the loop thread

vars == <<sent, peerEof, framed, reading, timerArmed, closed, closeReason, loop,
          cancelLeft, ws, canceled, ecanceled, pending, writes, answered,
          persistent, touched, conn, inMap, listening, hatch, exited>>

listenerVars == <<conn, inMap, listening, hatch, exited>>

TypeOK ==
    /\ sent \in 0..MaxReqs /\ framed \in 0..MaxReqs
    /\ peerEof \in BOOLEAN /\ reading \in BOOLEAN /\ timerArmed \in BOOLEAN
    /\ closed \in BOOLEAN /\ closeReason \in Reasons
    /\ loop \in {"idle", "closing"} /\ cancelLeft \subseteq Works
    /\ ws \in [Works -> WorkStates]
    /\ canceled \in [Works -> BOOLEAN] /\ ecanceled \in [Works -> BOOLEAN]
    /\ pending \subseteq Works /\ writes \subseteq Works /\ answered \subseteq Works
    /\ persistent \in BOOLEAN /\ touched \in BOOLEAN
    /\ conn \in {"pending", "refused", "started"} /\ inMap \in BOOLEAN
    /\ listening \in BOOLEAN /\ hatch \in {"open", "sent", "closed"} /\ exited \in BOOLEAN

(* before_run has succeeded: the listening handle is bound and listening *)
(* and the escape hatch is initialised; no connection is accepted yet.    *)
(* m_persistent is the listener's setting.                                *)
Init ==
    /\ sent = 0 /\ peerEof = FALSE /\ framed = 0
    /\ reading = FALSE /\ timerArmed = FALSE /\ closed = FALSE /\ closeReason = "none"
    /\ loop = "idle" /\ cancelLeft = {}
    /\ ws = [w \in Works |-> "none"]
    /\ canceled = [w \in Works |-> FALSE] /\ ecanceled = [w \in Works |-> FALSE]
    /\ pending = {} /\ writes = {} /\ answered = {}
    /\ persistent \in BOOLEAN /\ touched = FALSE
    /\ conn = "pending" /\ inMap = FALSE /\ listening = TRUE /\ hatch = "open"
    /\ exited = FALSE

(* The first part of do_close, up to the loop over the pending works:     *)
(* m_closed is set and the idle timer stopped and closed; uv_close of the *)
(* stream at the end of do_close also ends reading.                       *)
DoCloseStart(reason, works) ==
    /\ closed' = TRUE
    /\ closeReason' = reason
    /\ timerArmed' = FALSE
    /\ reading' = FALSE
    /\ loop' = "closing"
    /\ cancelLeft' = works

-----------------------------------------------------------------------------
(* The listener.                                                           *)

(* start(): the idle timer is initialised and do_read runs: either       *)
(* uv_read_start and the idle timer are started, or uv_read_start fails   *)
(* and do_close runs at once, with no work pending and the timer not yet  *)
(* started.                                                               *)
StartRead ==
    \/ /\ reading' = TRUE /\ timerArmed' = TRUE
       /\ UNCHANGED <<closed, closeReason>>
    \/ /\ closed' = TRUE /\ closeReason' = "read_start"
       /\ UNCHANGED <<reading, timerArmed>>

(* conn_cb: a failed accept (status < 0, uv_tcp_init or uv_accept failing) *)
(* returns with no connection.  Otherwise start() runs (a failed read     *)
(* start's close callback erases an id not yet in m_connections), and     *)
(* then the connection is inserted into m_connections either way.         *)
ConnCb ==
    /\ listening /\ conn = "pending"
    /\ \/ /\ conn' = "refused"
          /\ UNCHANGED <<inMap, reading, timerArmed, closed, closeReason>>
       \/ /\ conn' = "started"
          /\ inMap' = TRUE
          /\ StartRead
    /\ UNCHANGED <<sent, peerEof, framed, loop, cancelLeft, ws, canceled, ecanceled,
                   pending, writes, answered, persistent, touched, listening, hatch, exited>>

\* shutdown(), from another thread: uv_async_send on the escape hatch.
Shutdown ==
    /\ hatch = "open"
    /\ hatch' = "sent"
    /\ UNCHANGED <<sent, peerEof, framed, reading, timerArmed, closed, closeReason, loop,
                   cancelLeft, ws, canceled, ecanceled, pending, writes, answered,
                   persistent, touched, conn, inMap, listening, exited>>

(* uv_run returns once no handle and no request is active: the listening *)
(* handle and the hatch are closed, the connection (if conn_cb started    *)
(* it) is closed, no work is on the pool and no write in flight.          *)
LoopExit ==
    /\ ~exited /\ hatch = "closed" /\ ~listening /\ loop = "idle"
    /\ conn = "started" => closed
    /\ writes = {} /\ \A w \in Works : ws[w] \in {"none", "gone"}
    /\ exited' = TRUE
    /\ UNCHANGED <<sent, peerEof, framed, reading, timerArmed, closed, closeReason, loop,
                   cancelLeft, ws, canceled, ecanceled, pending, writes, answered,
                   persistent, touched, conn, inMap, listening, hatch>>

-----------------------------------------------------------------------------
(* The peer.                                                               *)

PeerSend ==
    /\ ~peerEof /\ sent < MaxReqs
    /\ sent' = sent + 1
    /\ UNCHANGED <<listenerVars, peerEof, framed, reading, timerArmed, closed, closeReason, loop,
                   cancelLeft, ws, canceled, ecanceled, pending, writes, answered,
                   persistent, touched>>

PeerEof ==
    /\ ~peerEof
    /\ peerEof' = TRUE
    /\ UNCHANGED <<listenerVars, sent, framed, reading, timerArmed, closed, closeReason, loop,
                   cancelLeft, ws, canceled, ecanceled, pending, writes, answered,
                   persistent, touched>>

-----------------------------------------------------------------------------
(* The loop thread.                                                        *)

\* Mutation: the parser hands out one payload more than the read completed.
ReadDataExtraFrame ==
    /\ loop = "idle" /\ ~closed /\ reading /\ framed < sent
    /\ \E k \in 1..(sent - framed) :
          LET n == IF persistent THEN k ELSE 1
              new == framed + 1..framed + n
          IN /\ framed' = framed + n + 1
             /\ ws' = [w \in Works |-> IF w \in new THEN "queued" ELSE ws[w]]
             /\ pending' = pending \cup new
    /\ reading' = persistent
    /\ timerArmed' = TRUE
    /\ UNCHANGED <<listenerVars, sent, peerEof, closed, closeReason, loop, cancelLeft, canceled,
                   ecanceled, writes, answered, touched, persistent>>

(* read_cb with data: the parser yields the complete frames of the read;  *)
(* each re-arms the idle timer and becomes a work queued on the pool and  *)
(* put in m_pending_works.  A non-persistent connection stops reading     *)
(* after the first.                                                       *)
ReadData ==
    /\ loop = "idle" /\ ~closed /\ reading /\ framed < sent
    /\ \E k \in 1..(sent - framed) :
          LET n == IF persistent THEN k ELSE 1
              new == framed + 1..framed + n
          IN /\ framed' = framed + n
             /\ ws' = [w \in Works |-> IF w \in new THEN "queued" ELSE ws[w]]
             /\ pending' = pending \cup new
    /\ reading' = persistent
    /\ timerArmed' = TRUE
    /\ UNCHANGED <<listenerVars, sent, peerEof, closed, closeReason, loop, cancelLeft, canceled,
                   ecanceled, writes, answered, touched, persistent>>

\* read_cb with nread < 0 (UV_EOF once the data is read): do_close.
ReadEof ==
    /\ loop = "idle" /\ ~closed /\ reading /\ peerEof /\ framed = sent
    /\ DoCloseStart("peer", pending)
    /\ UNCHANGED <<listenerVars, sent, peerEof, framed, ws, canceled, ecanceled, pending,
                   writes, answered, touched, persistent>>

\* idle_timeout_cb: do_close.
IdleTimeout ==
    /\ loop = "idle" /\ ~closed /\ timerArmed
    /\ DoCloseStart("idle", pending)
    /\ UNCHANGED <<listenerVars, sent, peerEof, framed, ws, canceled, ecanceled, pending,
                   writes, answered, touched, persistent>>

\* Mutation: before_stop closes the listening handle but no connection.
StopListenerOnly ==
    /\ loop = "idle" /\ hatch = "sent"
    /\ hatch' = "closed" /\ listening' = FALSE
    /\ UNCHANGED <<closed, closeReason, timerArmed, reading, loop, cancelLeft>>
    /\ UNCHANGED <<sent, peerEof, framed, ws, canceled, ecanceled, pending,
                   writes, answered, touched, persistent, conn, inMap, exited>>

(* escape_hatch_cb: listener_tcp::before_stop closes the listening handle *)
(* and calls close() on every connection in m_connections (do_close       *)
(* returns at once for one already closed); then the hatch is closed.    *)
Stop ==
    /\ loop = "idle" /\ hatch = "sent"
    /\ hatch' = "closed" /\ listening' = FALSE
    /\ IF inMap /\ ~closed
       THEN DoCloseStart("stop", pending)
       ELSE UNCHANGED <<closed, closeReason, timerArmed, reading, loop, cancelLeft>>
    /\ UNCHANGED <<sent, peerEof, framed, ws, canceled, ecanceled, pending,
                   writes, answered, touched, persistent, conn, inMap, exited>>

\* Mutation: uv_cancel without setting the canceled flag.
DoCloseCancelNoFlag(w) ==
    /\ loop = "closing" /\ w \in cancelLeft /\ ws[w] # "running"
    /\ IF ws[w] = "queued"
       THEN /\ ws' = [ws EXCEPT ![w] = "finished"]
            /\ ecanceled' = [ecanceled EXCEPT ![w] = TRUE]
       ELSE UNCHANGED <<ws, ecanceled>>
    /\ cancelLeft' = cancelLeft \ {w}
    /\ UNCHANGED <<listenerVars, sent, peerEof, framed, reading, timerArmed, closed, closeReason,
                   loop, pending, writes, answered, touched, canceled, persistent>>

(* do_close, for one pending work: under the work's mutex, uv_cancel (it  *)
(* succeeds only for a work no pool thread has taken) and canceled = true.*)
(* The loop thread blocks while work_cb holds the mutex.                  *)
DoCloseCancel(w) ==
    /\ loop = "closing" /\ w \in cancelLeft /\ ws[w] # "running"
    /\ IF ws[w] = "queued"
       THEN /\ ws' = [ws EXCEPT ![w] = "finished"]
            /\ ecanceled' = [ecanceled EXCEPT ![w] = TRUE]
       ELSE UNCHANGED <<ws, ecanceled>>
    /\ canceled' = [canceled EXCEPT ![w] = TRUE]
    /\ cancelLeft' = cancelLeft \ {w}
    /\ UNCHANGED <<listenerVars, sent, peerEof, framed, reading, timerArmed, closed, closeReason,
                   loop, pending, writes, answered, touched, persistent>>

(* The end of do_close: the stream is closed (its data set to null) and   *)
(* the close callback erases the connection from m_connections.           *)
DoCloseEnd ==
    /\ loop = "closing" /\ cancelLeft = {}
    /\ loop' = "idle"
    /\ inMap' = FALSE
    /\ UNCHANGED <<conn, listening, hatch, exited, sent, peerEof, framed, reading, timerArmed, closed, closeReason,
                   cancelLeft, ws, canceled, ecanceled, pending, writes, answered,
                   touched, persistent>>

\* Mutation: the status test inverted, so a completed work is not written.
AfterWorkNoWrite(w) ==
    /\ loop = "idle" /\ ws[w] = "finished"
    /\ ws' = [ws EXCEPT ![w] = "gone"]
    /\ UNCHANGED <<pending, touched, writes, closed, closeReason, timerArmed,
                   reading, loop, cancelLeft>>
    /\ UNCHANGED <<listenerVars, sent, peerEof, framed, canceled, ecanceled, answered, persistent>>

(* after_work_cb: under the mutex, a work that ran and was not canceled   *)
(* leaves m_pending_works and its response goes to do_write, whose        *)
(* uv_write may fail and close the connection; then the work is deleted.  *)
AfterWork(w) ==
    /\ loop = "idle" /\ ws[w] = "finished"
    /\ ws' = [ws EXCEPT ![w] = "gone"]
    /\ IF ~ecanceled[w] /\ ~canceled[w]
       THEN /\ pending' = pending \ {w}
            /\ touched' = (touched \/ closed)
            /\ \/ /\ writes' = writes \cup {w}
                  /\ UNCHANGED <<closed, closeReason, timerArmed, reading, loop, cancelLeft>>
               \/ /\ ~closed
                  /\ DoCloseStart("write_error", pending \ {w})
                  /\ UNCHANGED writes
       ELSE UNCHANGED <<pending, touched, writes, closed, closeReason, timerArmed,
                        reading, loop, cancelLeft>>
    /\ UNCHANGED <<listenerVars, sent, peerEof, framed, canceled, ecanceled, answered, persistent>>

\* Mutation: write_cb closes only on error, also for a one-shot connection.
WriteCbKeepOpen(w) ==
    /\ loop = "idle" /\ w \in writes
    /\ writes' = writes \ {w}
    /\ IF closed
       THEN UNCHANGED <<answered, closed, closeReason, timerArmed, reading, loop,
                        cancelLeft>>
       ELSE \E ok \in BOOLEAN :
              /\ answered' = IF ok THEN answered \cup {w} ELSE answered
              /\ IF ~ok
                 THEN DoCloseStart("write_error", pending)
                 ELSE UNCHANGED <<closed, closeReason, timerArmed, reading, loop,
                                  cancelLeft>>
    /\ UNCHANGED <<listenerVars, sent, peerEof, framed, ws, canceled, ecanceled, pending,
                   touched, persistent>>

(* write_cb: once the connection is closed the stream's data is null and  *)
(* libuv reports the write cancelled; otherwise the response reached the  *)
(* peer, or failed.  A non-persistent connection, or a failed write,      *)
(* closes the connection.                                                 *)
WriteCb(w) ==
    /\ loop = "idle" /\ w \in writes
    /\ writes' = writes \ {w}
    /\ IF closed
       THEN UNCHANGED <<answered, closed, closeReason, timerArmed, reading, loop,
                        cancelLeft>>
       ELSE \E ok \in BOOLEAN :
              /\ answered' = IF ok THEN answered \cup {w} ELSE answered
              /\ IF ~persistent \/ ~ok
                 THEN DoCloseStart(IF ok THEN "done" ELSE "write_error", pending)
                 ELSE UNCHANGED <<closed, closeReason, timerArmed, reading, loop,
                                  cancelLeft>>
    /\ UNCHANGED <<listenerVars, sent, peerEof, framed, ws, canceled, ecanceled, pending,
                   touched, persistent>>

-----------------------------------------------------------------------------
(* The pool threads.                                                       *)

\* A pool thread takes the work; uv_cancel now fails with UV_EBUSY.
WorkPick(w) ==
    /\ ws[w] = "queued"
    /\ ws' = [ws EXCEPT ![w] = "picked"]
    /\ UNCHANGED <<listenerVars, sent, peerEof, framed, reading, timerArmed, closed, closeReason,
                   loop, cancelLeft, canceled, ecanceled, pending, writes, answered,
                   touched, persistent>>

(* work_cb takes the mutex: a canceled work returns at once, otherwise    *)
(* handle_message runs with the mutex held.                               *)
WorkLock(w) ==
    /\ ws[w] = "picked"
    /\ ws' = [ws EXCEPT ![w] = IF canceled[w] THEN "finished" ELSE "running"]
    /\ UNCHANGED <<listenerVars, sent, peerEof, framed, reading, timerArmed, closed, closeReason,
                   loop, cancelLeft, canceled, ecanceled, pending, writes, answered,
                   touched, persistent>>

\* handle_message returns; work_cb releases the mutex.
WorkDone(w) ==
    /\ ws[w] = "running"
    /\ ws' = [ws EXCEPT ![w] = "finished"]
    /\ UNCHANGED <<listenerVars, sent, peerEof, framed, reading, timerArmed, closed, closeReason,
                   loop, cancelLeft, canceled, ecanceled, pending, writes, answered,
                   touched, persistent>>

Next ==
    \/ PeerSend \/ PeerEof
    \/ ConnCb \/ Shutdown \/ LoopExit
    \/ ReadData \/ ReadEof \/ IdleTimeout \/ Stop \/ DoCloseEnd
    \/ \E w \in Works :
          \/ DoCloseCancel(w) \/ AfterWork(w) \/ WriteCb(w)
          \/ WorkPick(w) \/ WorkLock(w) \/ WorkDone(w)

(* The loop runs every ready callback (the escape hatch included) and     *)
(* returns once nothing is active; the pool runs every queued work.  The  *)
(* peer, new connections, the idle timer and shutdown() are not forced.   *)
Fairness ==
    /\ WF_vars(ReadData) /\ WF_vars(ReadEof) /\ WF_vars(DoCloseEnd)
    /\ WF_vars(Stop) /\ WF_vars(LoopExit)
    /\ \A w \in Works :
          /\ WF_vars(DoCloseCancel(w)) /\ WF_vars(AfterWork(w)) /\ WF_vars(WriteCb(w))
          /\ WF_vars(WorkPick(w)) /\ WF_vars(WorkLock(w)) /\ WF_vars(WorkDone(w))

Spec == Init /\ [][Next]_vars /\ Fairness

-----------------------------------------------------------------------------
(* Properties.                                                             *)

(* No after_work_cb writes a response through a connection that do_close  *)
(* has closed and the close callback erased: every work still pending     *)
(* when the connection closes is marked canceled under its mutex, whether *)
(* uv_cancel caught it queued, a pool thread had taken it, or work_cb was *)
(* inside handle_message and do_close waited for the mutex.               *)
NoUseAfterClose == ~touched

(* Every request read from the connection is eventually written back to  *)
(* the peer, or the connection is closed: the read_cb -> work_cb ->       *)
(* after_work_cb -> do_write -> write_cb chain never stalls on an open    *)
(* connection.                                                            *)
AnsweredOrClosed ==
    \A w \in Works : ws[w] # "none" ~> (w \in answered \/ closed)

(* Every request read from the connection is eventually answered unless   *)
(* the peer ended the stream, the listener or a write failed: a  *)
(* connection with a request in handle_message is not idle, so the idle   *)
(* timer (re-armed only when read_cb frames a request) should not drop it.*)
RequestNotDroppedByIdle ==
    \A w \in Works :
        ws[w] # "none" ~> (w \in answered \/ closeReason \in {"peer", "stop", "write_error"})

(* A connection that is not persistent is closed once its one request has *)
(* been answered: write_cb closes it, so it never waits for the idle      *)
(* timer.                                                                 *)
OneShotCloses == (~persistent /\ framed = 1) ~> closed

(* Once shutdown() has signalled the escape hatch, the loop thread's      *)
(* uv_run returns (so await_shutdown's join returns): before_stop closes  *)
(* every connection it finds in m_connections, the cancelled or finished  *)
(* works come back through after_work_cb, the writes in flight complete,  *)
(* and no handle is left active, whatever state the connection was in.    *)
ShutdownCompletes == hatch = "sent" ~> exited

=============================================================================
