----------------------------- MODULE MuxSession -----------------------------
(***************************************************************************)
(* The two tasks of one session of websock-tungstenite-mux and the calls   *)
(* of Session::shutdown: the writer with its batching and barriers, the    *)
(* reader as far as it ends the session, cancellation, the five-second     *)
(* deadlines and the bookkeeping that lets shutdown wait for both tasks.   *)
(*                                                                         *)
(* The transport and the peer are the environment: a write completes,      *)
(* fails, or never returns; the peer may send its WebSocket Close at any   *)
(* time or not at all.  Frames are counted, not named: the queue, the      *)
(* batch and the wire are FIFO.                                            *)
(***************************************************************************)
EXTENDS Integers, Sequences, FiniteSets

CONSTANTS
    Callers,      \* tasks that call Session::shutdown
    OutboundLen,  \* Limits.outbound_queue_len
    MaxBatch,     \* Limits.max_batch_frames
    MaxFrames     \* bound: frames the application sends

ASSUME SessionAssumption ==
    /\ IsFiniteSet(Callers)
    /\ OutboundLen \in Nat \ {0} /\ MaxBatch \in Nat \ {0} /\ MaxFrames \in Nat

VARIABLES
    started,     \* shutdown_started
    closed,      \* close_all has run
    cancelled,   \* the CancellationToken
    peerClosed,  \* peer_closed
    notice,      \* the permit of peer_close_notify
    active,      \* active_tasks
    gen,         \* calls of tasks_done.notify_waiters
    inb,         \* inbound task: run, peerWait, end or ended
    out,         \* outbound task: select, an awaited write, end or ended
    queue,       \* the outbound channel
    batch,       \* frames in the batch being assembled
    held,        \* those of them that came through the queue
    admitted, written,  \* counts of frames that went through the queue
    closeSent,
    call,        \* where each caller of shutdown is
    timed,       \* the callers inside the five-second timeout
    seen,        \* gen when the caller's Notified was created
    ack,         \* the oneshot of the Shutdown command
    shutAt,      \* history: frames admitted before it
    app,         \* a writer waiting in send_frame
    flush,       \* a SendStream in poll_flush, and its oneshot
    flushAt,     \* history: frames admitted before the Flush command
    peer         \* open, close = its Close is readable, gone

lifecycle == <<started, closed, cancelled, peerClosed, notice, active, gen>>
writer    == <<out, batch, held, written, closeSent>>
calls     == <<call, timed, seen>>
clients   == <<app, flush, flushAt, shutAt, admitted>>
vars      == <<lifecycle, inb, writer, queue, calls, ack, clients, peer>>

IsClosed == closed \/ started
(* outbound_rx lives until the writer's loop has ended. *)
RxLive   == out \notin {"end", "ended"}
Room     == RxLive /\ Len(queue) < OutboundLen

Init ==
    /\ started = FALSE /\ closed = FALSE /\ cancelled = FALSE
    /\ peerClosed = FALSE /\ notice = FALSE /\ active = 2 /\ gen = 0
    /\ inb = "run" /\ out = "select" /\ queue = <<>> /\ batch = 0
    /\ held = 0 /\ admitted = 0 /\ written = 0 /\ closeSent = FALSE
    /\ call = [c \in Callers |-> "idle"] /\ timed = {}
    /\ seen = [c \in Callers |-> 0]
    /\ ack = "none" /\ shutAt = 0 /\ app = "idle"
    /\ flush = "idle" /\ flushAt = 0 /\ peer = "open"

-----------------------------------------------------------------------------
(* Users of the queue: send_frame, poll_flush *)

SendFrame ==
    /\ app = "idle" /\ ~IsClosed /\ admitted < MaxFrames
    /\ app' = "wait"
    /\ UNCHANGED <<lifecycle, inb, writer, queue, calls, ack, peer>>
    /\ UNCHANGED <<flush, flushAt, shutAt, admitted>>

Admit ==
    /\ app = "wait" /\ app' = "idle"
    /\ \/ /\ Room /\ queue' = Append(queue, "frame") /\ admitted' = admitted + 1
       \/ ~RxLive /\ UNCHANGED <<queue, admitted>>
    /\ UNCHANGED <<lifecycle, inb, writer, calls, ack, peer>>
    /\ UNCHANGED <<flush, flushAt, shutAt>>

PollFlush ==
    /\ flush = "idle"
    /\ \/ /\ Room /\ queue' = Append(queue, "flush")
          /\ flush' = "queued" /\ flushAt' = admitted
       \/ ~RxLive /\ flush' = "err" /\ UNCHANGED <<queue, flushAt>>
    /\ UNCHANGED <<lifecycle, inb, writer, calls, ack, peer, app, shutAt, admitted>>

-----------------------------------------------------------------------------
(* Session::shutdown *)

Shutdown(c) ==
    /\ call[c] = "idle"
    /\ \/ /\ IsClosed
          /\ call' = [call EXCEPT ![c] = "wait"]
          /\ UNCHANGED <<started, timed>>
       \/ /\ ~IsClosed
          /\ started' = TRUE /\ timed' = timed \cup {c}
          /\ call' = [call EXCEPT ![c] = "send"]
    /\ UNCHANGED <<closed, cancelled, peerClosed, notice, active, gen, inb>>
    /\ UNCHANGED <<writer, queue, seen, ack, clients, peer>>

(* Leaving the timeout, with whatever result: the first caller cancels the  *)
(* tasks and waits again.                                                   *)
Leave(c) ==
    /\ timed' = timed \ {c}
    /\ cancelled' = TRUE /\ call' = [call EXCEPT ![c] = "wait"]
    /\ UNCHANGED <<started, closed, peerClosed, notice, active, gen, inb>>
    /\ UNCHANGED <<writer, seen, ack, peer>>

ShutdownSend(c) ==
    /\ call[c] = "send"
    /\ \/ /\ Room
          /\ queue' = Append(queue, "shutdown") /\ shutAt' = admitted
          /\ call' = [call EXCEPT ![c] = "ack"]
          /\ UNCHANGED <<lifecycle, inb, writer, timed, seen, ack, peer>>
       \/ ~RxLive /\ Leave(c) /\ UNCHANGED <<queue, shutAt>>
    /\ UNCHANGED <<app, flush, flushAt, admitted>>

ShutdownAck(c) ==
    /\ call[c] = "ack" /\ ack # "none"
    /\ \/ /\ ack = "ok" \/ (ack = "dropped" /\ peerClosed)
          /\ call' = [call EXCEPT ![c] = "wait"]
          /\ UNCHANGED <<lifecycle, inb, writer, timed, seen, ack, peer>>
       \/ /\ ack = "err" \/ (ack = "dropped" /\ ~peerClosed)
          /\ Leave(c)
    /\ UNCHANGED <<queue, clients>>

Timeout(c) ==
    /\ c \in timed /\ Leave(c)
    /\ UNCHANGED <<queue, clients>>

(* Mutant: one task still running is enough. *)
WaitForOneTask(c) ==
    /\ call[c] \in {"wait", "check"}
    /\ \/ /\ call[c] = "wait"
          /\ seen' = [seen EXCEPT ![c] = gen]
          /\ call' = [call EXCEPT ![c] = "check"]
       \/ /\ call[c] = "check"
          /\ call' = [call EXCEPT ![c] = IF active <= 1 THEN "counted" ELSE "parked"]
          /\ UNCHANGED seen
    /\ UNCHANGED <<lifecycle, inb, writer, queue, timed, ack, clients, peer>>

(* Mutant: the counter is read before the Notified exists. *)
CheckThenNotified(c) ==
    /\ call[c] \in {"wait", "check"}
    /\ \/ /\ call[c] = "wait"
          /\ call' = [call EXCEPT ![c] = IF active = 0 THEN "counted" ELSE "check"]
          /\ UNCHANGED seen
       \/ /\ call[c] = "check"
          /\ seen' = [seen EXCEPT ![c] = gen]
          /\ call' = [call EXCEPT ![c] = "parked"]
    /\ UNCHANGED <<lifecycle, inb, writer, queue, timed, ack, clients, peer>>

(* wait_for_tasks: the Notified is created, then the counter is read. *)
WaitForTasks(c) ==
    /\ call[c] \in {"wait", "check"}
    /\ \/ /\ call[c] = "wait"
          /\ seen' = [seen EXCEPT ![c] = gen]
          /\ call' = [call EXCEPT ![c] = "check"]
       \/ /\ call[c] = "check"
          /\ call' = [call EXCEPT ![c] = IF active = 0 THEN "counted" ELSE "parked"]
          /\ UNCHANGED seen
    /\ UNCHANGED <<lifecycle, inb, writer, queue, timed, ack, clients, peer>>

Woken(c) ==
    /\ call[c] = "parked" /\ gen # seen[c]
    /\ call' = [call EXCEPT ![c] = "wait"]
    /\ UNCHANGED <<lifecycle, inb, writer, queue, timed, seen, ack, clients, peer>>

TasksDone(c) ==
    /\ call[c] = "counted"
    /\ \/ c \in timed /\ Leave(c)
       \/ /\ c \notin timed /\ call' = [call EXCEPT ![c] = "done"]
          /\ UNCHANGED <<lifecycle, inb, writer, timed, seen, ack, peer>>
    /\ UNCHANGED <<queue, clients>>

(* complete_or_abort: the future of a call is dropped. *)
CancelCall(c) ==
    /\ call[c] \notin {"idle", "done", "gone"}
    /\ call' = [call EXCEPT ![c] = "gone"] /\ timed' = timed \ {c}
    /\ started' = TRUE /\ cancelled' = TRUE
    /\ UNCHANGED <<closed, peerClosed, notice, active, gen, inb, writer, queue>>
    /\ UNCHANGED <<seen, ack, clients, peer>>

(* request_shutdown: the last Session dropped, or a stream aborted. *)
RequestShutdown ==
    /\ ~cancelled /\ cancelled' = TRUE /\ started' = TRUE
    /\ UNCHANGED <<closed, peerClosed, notice, active, gen, inb, writer, queue>>
    /\ UNCHANGED <<calls, ack, clients, peer>>

-----------------------------------------------------------------------------
(* The inbound task *)

ReadClose ==
    /\ inb = "run" /\ peer = "close" /\ inb' = "peerWait"
    /\ peerClosed' = TRUE /\ started' = TRUE /\ notice' = TRUE
    /\ UNCHANGED <<closed, cancelled, active, gen, writer, queue>>
    /\ UNCHANGED <<calls, ack, clients, peer>>

ReadPing ==
    /\ inb = "run" /\ Room /\ queue' = Append(queue, "pong")
    /\ UNCHANGED <<lifecycle, inb, writer, calls, ack, clients, peer>>

(* protocol_error and ConnectionClose: close_all, then the loop is left. *)
ProtocolError ==
    /\ inb = "run" /\ inb' = "end" /\ closed' = TRUE
    /\ \/ /\ Room /\ ~IsClosed
          /\ queue' = Append(queue, "frame") /\ admitted' = admitted + 1
       \/ UNCHANGED <<queue, admitted>>
    /\ UNCHANGED <<started, cancelled, peerClosed, notice, active, gen, writer>>
    /\ UNCHANGED <<calls, ack, app, flush, flushAt, shutAt, peer>>

(* The token, the end of the transport, or five seconds in peerWait. *)
InboundEnds ==
    /\ \/ inb = "run" /\ (cancelled \/ peer = "gone")
       \/ inb = "peerWait"
    /\ inb' = "end"
    /\ UNCHANGED <<lifecycle, writer, queue, calls, ack, clients, peer>>

(* Mutant: a task that ends does not cancel the other. *)
TaskFinishedAlone ==
    /\ closed' = TRUE /\ active' = active - 1
    /\ gen' = IF active = 1 THEN gen + 1 ELSE gen
    /\ UNCHANGED <<started, cancelled, peerClosed, notice>>

(* task_finished, once per task. *)
TaskFinished ==
    /\ closed' = TRUE /\ cancelled' = TRUE /\ active' = active - 1
    /\ gen' = IF active = 1 THEN gen + 1 ELSE gen
    /\ UNCHANGED <<started, peerClosed, notice>>

InboundFinished ==
    /\ inb = "end" /\ inb' = "ended" /\ TaskFinished
    /\ UNCHANGED <<writer, queue, calls, ack, clients, peer>>

-----------------------------------------------------------------------------
(* The outbound task: biased towards cancellation and the peer's close *)

Take(command) ==
    /\ out = "select" /\ ~notice /\ ~cancelled
    /\ queue # <<>> /\ Head(queue) = command /\ queue' = Tail(queue)

(* Mutant: a batch is flushed only when it is full. *)
AfterAddFull(rest, size) == IF size >= MaxBatch THEN {"post"} ELSE {"select"}

(* After a frame is added: flush when the batch is full or the queue empty; *)
(* the byte limit may be reached at any size.                               *)
AfterAdd(rest, size) ==
    IF size >= MaxBatch \/ rest = <<>> THEN {"post"} ELSE {"select", "post"}

TakeFrame ==
    /\ Take("frame")
    /\ \/ closeSent /\ UNCHANGED <<out, batch, held>>
       \/ ~closeSent /\ batch > 0 /\ out' = "pre" /\ UNCHANGED <<batch, held>>
       \/ /\ ~closeSent /\ batch' = batch + 1 /\ held' = held + 1
          /\ out' \in AfterAdd(queue', batch + 1)
    /\ UNCHANGED <<lifecycle, inb, written, closeSent, calls, ack, clients, peer>>

(* next_credit: a MaxStreamData joins the batch past the queue. *)
TakeCredit ==
    /\ out = "select" /\ ~notice /\ ~cancelled /\ ~closeSent
    /\ \/ batch > 0 /\ out' = "preCredit" /\ UNCHANGED batch
       \/ batch' = batch + 1 /\ out' \in AfterAdd(queue, batch + 1)
    /\ UNCHANGED <<lifecycle, inb, held, written, closeSent, queue>>
    /\ UNCHANGED <<calls, ack, clients, peer>>

TakePong ==
    /\ Take("pong")
    /\ out' = IF closeSent THEN "select" ELSE "pong"
    /\ UNCHANGED <<lifecycle, inb, batch, held, written, closeSent>>
    /\ UNCHANGED <<calls, ack, clients, peer>>

TakeFlush ==
    /\ Take("flush") /\ out' = "flush"
    /\ UNCHANGED <<lifecycle, inb, batch, held, written, closeSent>>
    /\ UNCHANGED <<calls, ack, clients, peer>>

TakeShutdown ==
    /\ Take("shutdown") /\ out' = "close"
    /\ UNCHANGED <<lifecycle, inb, batch, held, written, closeSent>>
    /\ UNCHANGED <<calls, ack, clients, peer>>

(* Mutant: the WebSocket is flushed, the batch is not. *)
FlushNotBatch ==
    IF out \in {"flush", "close"}
    THEN UNCHANGED <<batch, held, written>>
    ELSE batch' = 0 /\ held' = 0 /\ written' = written + held

(* flush_batch: the whole batch becomes one WebSocket message. *)
FlushBatch == batch' = 0 /\ held' = 0 /\ written' = written + held

Writing == {"pre", "preCredit", "post", "pong", "flush", "close"}

(* The awaited write completes. *)
WriteDone ==
    /\ out \in Writing /\ ~cancelled
    /\ peer # "gone"
    /\ \/ /\ out \in {"pre", "preCredit"}
          /\ batch' = 1 /\ held' = IF out = "pre" THEN 1 ELSE 0
          /\ written' = written + held
          /\ out' \in AfterAdd(queue, 1)
       \/ /\ out \notin {"pre", "preCredit"} /\ FlushBatch
          /\ out' = "select"
    /\ flush' = IF out = "flush" THEN "ok" ELSE flush
    /\ ack' = IF out = "close" THEN "ok" ELSE ack
    /\ closeSent' = (closeSent \/ out = "close")
    /\ UNCHANGED <<lifecycle, inb, queue, calls, app, flushAt>>
    /\ UNCHANGED <<shutAt, admitted, peer>>

(* The awaited write fails; a barrier is told so.  Only an error of the      *)
(* sink's own flush, the batch being out, does not end the loop.            *)
WriteFails ==
    /\ out \in Writing /\ ~cancelled
    /\ peer # "open"
    /\ \/ /\ out # "flush" \/ batch > 0
          /\ out' = "end" /\ UNCHANGED <<batch, held, written>>
       \/ /\ out = "flush"
          /\ out' = "select" /\ FlushBatch
    /\ flush' = IF out = "flush" THEN "err" ELSE flush
    /\ ack' = IF out = "close" THEN "err" ELSE ack
    /\ UNCHANGED <<lifecycle, inb, closeSent, queue>>
    /\ UNCHANGED <<calls, app, flushAt, shutAt, admitted, peer>>

(* The peer's close was read: the sink sends the reply and the loop ends. *)
TakeNotice ==
    /\ out = "select" /\ notice /\ ~cancelled
    /\ notice' = FALSE /\ out' = "reply"
    /\ UNCHANGED <<started, closed, cancelled, peerClosed, active, gen, inb>>
    /\ UNCHANGED <<batch, held, written, closeSent, queue, calls, ack>>
    /\ UNCHANGED <<clients, peer>>

ReplyDone ==
    /\ out = "reply" /\ ~cancelled /\ out' = "end"
    /\ UNCHANGED <<lifecycle, inb, batch, held, written, closeSent>>
    /\ UNCHANGED <<queue, calls, ack, clients, peer>>

(* The outer select: cancellation drops whatever is awaited.  A token set   *)
(* while the loop selects may be seen by the inner select first, which      *)
(* writes the batch and the close before they are dropped.                  *)
OutboundCancelled ==
    /\ RxLive /\ cancelled /\ out' = "end"
    /\ \/ UNCHANGED <<batch, held, written>>
       \/ out = "select" /\ batch > 0 /\ peer # "gone" /\ FlushBatch
    /\ UNCHANGED <<lifecycle, inb, closeSent>>
    /\ UNCHANGED <<queue, calls, ack, clients, peer>>

(* Dropping the receiver drops the commands in it and their oneshots. *)
OutboundFinished ==
    /\ out = "end" /\ out' = "ended" /\ TaskFinished
    /\ queue' = <<>>
    /\ ack' = IF ack = "none" THEN "dropped" ELSE ack
    /\ flush' = IF flush = "queued" THEN "err" ELSE flush
    /\ UNCHANGED <<inb, batch, held, written, closeSent, calls, app>>
    /\ UNCHANGED <<flushAt, shutAt, admitted, peer>>

-----------------------------------------------------------------------------
(* The environment *)

PeerCloses ==
    /\ peer = "open" /\ peer' = "close"
    /\ UNCHANGED <<lifecycle, inb, writer, queue, calls, ack, clients>>

TransportFails ==
    /\ peer # "gone" /\ peer' = "gone"
    /\ UNCHANGED <<lifecycle, inb, writer, queue, calls, ack, clients>>

Caller(c) == \/ ShutdownSend(c) \/ ShutdownAck(c) \/ WaitForTasks(c)
             \/ Woken(c) \/ TasksDone(c)
Inbound   == ReadClose \/ InboundEnds \/ InboundFinished
Outbound  == \/ TakeFrame \/ TakePong \/ TakeFlush \/ TakeShutdown
             \/ TakeNotice \/ OutboundCancelled \/ OutboundFinished
Writes    == WriteDone \/ WriteFails \/ ReplyDone

Next ==
    \/ \E c \in Callers : Shutdown(c) \/ Caller(c) \/ Timeout(c) \/ CancelCall(c)
    \/ SendFrame \/ Admit \/ PollFlush \/ RequestShutdown
    \/ Inbound \/ ReadPing \/ ProtocolError
    \/ Outbound \/ TakeCredit \/ Writes \/ PeerCloses \/ TransportFails

Spec == Init /\ [][Next]_vars

(* The runtime polls the tasks and the callers, and timers fire.  Nothing   *)
(* is assumed of the peer, of writes to the transport, or of readers, whose *)
(* credit may never come.                                                   *)
StalledSpec ==
    /\ Spec /\ WF_vars(Inbound) /\ WF_vars(Outbound)
    /\ \A c \in Callers : WF_vars(Caller(c)) /\ WF_vars(Timeout(c))

-----------------------------------------------------------------------------
(* Properties *)

(* "wait for all session tasks to finish": whatever ended the session,      *)
(* shutdown returns only when no task is left.                              *)
ReturnMeansDone == \A c \in Callers : call[c] = "done" => active = 0

(* Shutdown and Flush are barriers: when one is acknowledged every frame    *)
(* that was admitted before it has been written, whatever the batch held.   *)
(* (Once the closing handshake is under way frames are dropped on purpose.) *)
BarriersHold ==
    /\ ack = "ok" => written >= shutAt
    /\ flush = "ok" /\ ~closeSent => written >= flushAt

(* Every call of shutdown returns, with a peer that never answers and a     *)
(* transport that never accepts a byte: no call is under way for ever.      *)
ShutdownReturns ==
    \A c \in Callers : []<>(call[c] \in {"idle", "done", "gone"})

(* When one task ends, or the peer closes, both tasks end.  (The three      *)
(* flags are never cleared, so this is "leads to active = 0".)              *)
TasksEnd == []<>(active = 0 \/ ~(closed \/ cancelled \/ peerClosed))

(* The writer never waits for a next command with a batch in hand that no  *)
(* command in the queue will push out, credit updates included: what it has *)
(* taken does not depend on the application sending more.                   *)
NothingStranded == out = "select" /\ batch > 0 => queue # <<>>

=============================================================================
