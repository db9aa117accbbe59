------------------------- MODULE MuxSessionProofs -------------------------
(* Proofs about MuxSession, for every value of its constants. *)
EXTENDS MuxSession, TLAPS

Commands == {"frame", "pong", "flush", "shutdown"}
Results  == {"none", "ok", "err", "dropped"}

TypeOK ==
    /\ started \in BOOLEAN /\ closed \in BOOLEAN /\ cancelled \in BOOLEAN
    /\ peerClosed \in BOOLEAN /\ notice \in BOOLEAN /\ closeSent \in BOOLEAN
    /\ active \in 0..2 /\ gen \in Nat
    /\ inb \in {"run", "peerWait", "end", "ended"}
    /\ out \in Writing \cup {"select", "reply", "end", "ended"}
    /\ queue \in Seq(Commands)
    /\ batch \in Nat /\ held \in Nat /\ admitted \in Nat /\ written \in Nat
    /\ call \in [Callers -> {"idle", "send", "ack", "wait", "check", "parked",
                             "counted", "done", "gone"}]
    /\ timed \in SUBSET Callers /\ seen \in [Callers -> Nat]
    /\ ack \in Results /\ shutAt \in Nat
    /\ app \in {"idle", "wait"}
    /\ flush \in {"idle", "queued", "ok", "err"} /\ flushAt \in Nat
    /\ peer \in {"open", "close", "gone"}

(* active_tasks counts the tasks that have not called task_finished, and a  *)
(* caller that has read zero keeps it.                                      *)
TaskInv ==
    /\ active = (IF inb = "ended" THEN 0 ELSE 1) + (IF out = "ended" THEN 0 ELSE 1)
    /\ \A c \in Callers : call[c] \in {"counted", "done"} => active = 0

(* After the Close frame no frame joins a batch.                            *)
BatchInv ==
    /\ closeSent => batch = 0 /\ out \notin {"pre", "preCredit"}
    /\ NothingStranded

(* No Shutdown command exists yet.                                          *)
Unsent ==
    /\ ack \in {"none", "dropped"} /\ out # "close" /\ ~closeSent
    /\ \A i \in 1..Len(queue) : queue[i] # "shutdown"

(* At most one Shutdown command is ever created: by the call that set       *)
(* shutdown_started.                                                        *)
ShutInv ==
    /\ ~started => Unsent /\ \A c \in Callers : call[c] # "send"
    /\ \A c \in Callers : call[c] = "send" => Unsent
    /\ \A c, d \in Callers : call[c] = "send" /\ call[d] = "send" => c = d
    /\ \A i, j \in 1..Len(queue) :
          queue[i] = "shutdown" /\ queue[j] = "shutdown" => i = j
    /\ (\E i \in 1..Len(queue) : queue[i] = "shutdown") =>
          out # "close" /\ ~closeSent /\ ack # "ok"
    /\ out = "close" => ~closeSent /\ ack # "ok"

(* A SendStream flushes once in this model.                                 *)
FlushInv == flush = "idle" => /\ out # "flush"
                              /\ \A i \in 1..Len(queue) : queue[i] # "flush"

(* Frames the writer has taken from the queue while it still writes them.   *)
Taken == written + held + (IF out = "pre" THEN 1 ELSE 0)

(* pos numbers the frames that wait: pos[i] is how many frames have been    *)
(* taken once the i-th command is.  A barrier's number is its position.     *)
Numbering(pos) ==
    /\ pos[0] = Taken /\ pos[Len(queue)] = admitted
    /\ \A i \in 1..Len(queue) :
          /\ pos[i] = pos[i - 1] + (IF queue[i] = "frame" THEN 1 ELSE 0)
          /\ queue[i] = "shutdown" => pos[i] = shutAt
          /\ queue[i] = "flush" => pos[i] = flushAt

(* No frame is lost between the queue, the batch and the wire.              *)
OrderInv ==
    RxLive /\ ~closeSent =>
        \E pos \in [0..Len(queue) -> Nat] : Numbering(pos)

BarrierInv ==
    /\ out = "close" => shutAt <= written + held
    /\ out = "flush" /\ ~closeSent => flushAt <= written + held
    /\ BarriersHold

IInv == TypeOK /\ TaskInv /\ BatchInv /\ ShutInv /\ FlushInv /\ OrderInv /\ BarrierInv

(* The variables of the module, for the provers.                            *)
LEMMA TypeStep ==
    ASSUME TypeOK, TaskInv, [Next]_vars
    PROVE  TypeOK'
  <1> USE DEF TypeOK, TaskInv, vars, lifecycle, writer, calls, clients, Writing, Commands, Results
  <1>1. ASSUME NEW c \in Callers, Shutdown(c) PROVE TypeOK'
    <2>1. CASE IsClosed
      BY <1>1, <2>1 DEF Shutdown
    <2>2. CASE ~IsClosed
      <3>1. started' \in BOOLEAN /\ timed' \in SUBSET Callers
        BY <1>1, <2>2 DEF Shutdown
      <3>2. call' = [call EXCEPT ![c] = "send"]
        BY <1>1, <2>2 DEF Shutdown
      <3>3. UNCHANGED <<closed, cancelled, peerClosed, notice, active, gen, inb, closeSent,
                        out, batch, held, written, queue, seen, ack, app, flush,
                        flushAt, shutAt, admitted, peer>>
        BY <1>1 DEF Shutdown
      <3> QED BY <3>1, <3>2, <3>3
    <2> QED BY <2>1, <2>2
  <1>2. ASSUME NEW c \in Callers, ShutdownSend(c) PROVE TypeOK'
    <2>1. CASE /\ queue' = Append(queue, "shutdown") /\ shutAt' = admitted
               /\ call' = [call EXCEPT ![c] = "ack"]
               /\ UNCHANGED <<lifecycle, inb, writer, timed, seen, ack, peer>>
      <3>1. queue' \in Seq(Commands)
        BY <2>1
      <3> QED BY <1>2, <2>1, <3>1 DEF ShutdownSend
    <2>2. CASE ~RxLive /\ Leave(c) /\ UNCHANGED <<queue, shutAt>>
      BY <1>2, <2>2 DEF ShutdownSend, Leave
    <2> QED BY <1>2, <2>1, <2>2 DEF ShutdownSend
  <1>3. ASSUME NEW c \in Callers, ShutdownAck(c) PROVE TypeOK'
    <2>1. CASE Leave(c)
      BY <1>3, <2>1 DEF ShutdownAck, Leave
    <2>2. CASE call' = [call EXCEPT ![c] = "wait"] /\ UNCHANGED <<lifecycle, timed, seen, ack>>
      BY <1>3, <2>2 DEF ShutdownAck, Leave
    <2> QED BY <1>3, <2>1, <2>2 DEF ShutdownAck
  <1>4. ASSUME NEW c \in Callers, WaitForTasks(c) PROVE TypeOK'
    BY <1>4 DEF WaitForTasks
  <1>5. ASSUME NEW c \in Callers, Woken(c) PROVE TypeOK'
    BY <1>5 DEF Woken
  <1>6. ASSUME NEW c \in Callers, TasksDone(c) PROVE TypeOK'
    <2>1. CASE Leave(c)
      BY <1>6, <2>1 DEF TasksDone, Leave
    <2>2. CASE call' = [call EXCEPT ![c] = "done"] /\ UNCHANGED <<lifecycle, timed, seen, ack>>
      BY <1>6, <2>2 DEF TasksDone, Leave
    <2> QED BY <1>6, <2>1, <2>2 DEF TasksDone
  <1>7. ASSUME NEW c \in Callers, Timeout(c) PROVE TypeOK'
    BY <1>7 DEF Timeout, Leave
  <1>8. ASSUME NEW c \in Callers, CancelCall(c) PROVE TypeOK'
    BY <1>8 DEF CancelCall
  <1>9. CASE SendFrame
    BY <1>9 DEF SendFrame
  <1>10. CASE Admit
    BY <1>10 DEF Admit, Room, RxLive
  <1>11. CASE PollFlush
    BY <1>11 DEF PollFlush, Room, RxLive
  <1>12. CASE RequestShutdown
    BY <1>12 DEF RequestShutdown
  <1>13. CASE ReadClose
    BY <1>13 DEF ReadClose
  <1>14. CASE InboundEnds
    BY <1>14 DEF InboundEnds
  <1>15. CASE InboundFinished
    BY <1>15 DEF InboundFinished, TaskFinished
  <1>16. CASE ReadPing
    BY <1>16 DEF ReadPing, Room, RxLive
  <1>17. CASE ProtocolError
    BY <1>17 DEF ProtocolError, Room, RxLive
  <1>18. CASE TakeFrame
    BY <1>18 DEF TakeFrame, Take, AfterAdd
  <1>19. CASE TakePong
    BY <1>19 DEF TakePong, Take
  <1>20. CASE TakeFlush
    BY <1>20 DEF TakeFlush, Take
  <1>21. CASE TakeShutdown
    BY <1>21 DEF TakeShutdown, Take
  <1>22. CASE TakeNotice
    <2>1. notice' \in BOOLEAN /\ out' \in Writing \cup {"select", "reply", "end", "ended"}
      BY <1>22 DEF TakeNotice
    <2>2. UNCHANGED <<started, closed, cancelled, peerClosed, active, gen, inb, closeSent,
                      batch, held, written, queue, call, timed, seen, ack, app, flush,
                      flushAt, shutAt, admitted, peer>>
      BY <1>22 DEF TakeNotice
    <2> QED BY <2>1, <2>2
  <1>23. CASE OutboundCancelled
    BY <1>23 DEF OutboundCancelled, RxLive, FlushBatch
  <1>24. CASE OutboundFinished
    BY <1>24 DEF OutboundFinished, TaskFinished
  <1>25. CASE TakeCredit
    BY <1>25 DEF TakeCredit, AfterAdd
  <1>26. CASE WriteDone
    BY <1>26 DEF WriteDone, AfterAdd, FlushBatch
  <1>27. CASE WriteFails
    BY <1>27 DEF WriteFails, FlushBatch
  <1>28. CASE ReplyDone
    BY <1>28 DEF ReplyDone
  <1>29. CASE PeerCloses
    BY <1>29 DEF PeerCloses
  <1>30. CASE TransportFails
    BY <1>30 DEF TransportFails
  <1>31. CASE UNCHANGED vars
    BY <1>31 DEF vars
  <1> QED BY <1>1, <1>2, <1>3, <1>4, <1>5, <1>6, <1>7, <1>8, <1>9, <1>10, <1>11, <1>12, <1>13, <1>14, <1>15, <1>16, <1>17, <1>18, <1>19, <1>20, <1>21, <1>22, <1>23, <1>24, <1>25, <1>26, <1>27, <1>28, <1>29, <1>30, <1>31
       DEF Next, Caller, Inbound, Outbound, Writes

(* active_tasks is right after every step: each task leaves it once, and a  *)
(* caller past wait_for_tasks saw zero, which no step raises.               *)
LEMMA TaskStep ==
    ASSUME TypeOK, TaskInv, [Next]_vars
    PROVE  TaskInv'
  <1> USE DEF TypeOK, TaskInv, vars, lifecycle, writer, calls, clients, Writing
  <1>1. ASSUME NEW c \in Callers,
               Shutdown(c) \/ ShutdownSend(c) \/ ShutdownAck(c) \/ Timeout(c)
        PROVE  TaskInv'
    BY <1>1 DEF Shutdown, ShutdownSend, ShutdownAck, Timeout, Leave
  <1>2. ASSUME NEW c \in Callers,
               WaitForTasks(c) \/ Woken(c) \/ TasksDone(c) \/ CancelCall(c)
        PROVE  TaskInv'
    BY <1>2 DEF WaitForTasks, Woken, TasksDone, CancelCall, Leave
  <1>3. CASE InboundFinished
    BY <1>3 DEF InboundFinished, TaskFinished
  <1>4. CASE OutboundFinished
    BY <1>4 DEF OutboundFinished, TaskFinished
  <1>5. CASE ReadClose \/ InboundEnds \/ ProtocolError \/ ReadPing \/ RequestShutdown
    BY <1>5 DEF ReadClose, InboundEnds, ProtocolError, ReadPing, RequestShutdown
  <1>6. CASE TakeFrame \/ TakePong \/ TakeFlush \/ TakeShutdown \/ TakeNotice \/ TakeCredit
    BY <1>6 DEF TakeFrame, TakePong, TakeFlush, TakeShutdown, TakeNotice, TakeCredit,
                Take, AfterAdd
  <1>7. CASE WriteDone \/ WriteFails \/ ReplyDone \/ OutboundCancelled
    BY <1>7 DEF WriteDone, WriteFails, ReplyDone, OutboundCancelled, AfterAdd, RxLive
  <1>8. CASE SendFrame \/ Admit \/ PollFlush \/ PeerCloses \/ TransportFails
    BY <1>8 DEF SendFrame, Admit, PollFlush, PeerCloses, TransportFails
  <1>9. CASE UNCHANGED vars
    BY <1>9
  <1> QED BY <1>1, <1>2, <1>3, <1>4, <1>5, <1>6, <1>7, <1>8, <1>9
          DEF Next, Caller, Inbound, Outbound, Writes

(* The writer selects with a batch in hand only when the queue is not empty *)
(* and the Close frame is not out.                                          *)
LEMMA BatchStep ==
    ASSUME TypeOK, BatchInv, ShutInv, [Next]_vars
    PROVE  BatchInv'
  <1> USE DEF BatchInv, NothingStranded
  <1>1. CASE UNCHANGED <<queue, out, batch, closeSent>>
    BY <1>1
  <1>2. CASE queue' # <<>> /\ UNCHANGED <<out, batch, closeSent>>
    BY <1>2
  <1>3. ASSUME NEW c \in Callers,
               \/ Shutdown(c) \/ ShutdownAck(c) \/ Timeout(c) \/ WaitForTasks(c)
               \/ Woken(c) \/ TasksDone(c) \/ CancelCall(c)
        PROVE  UNCHANGED <<queue, out, batch, closeSent>>
    BY <1>3 DEF Shutdown, ShutdownAck, Timeout, WaitForTasks, Woken, TasksDone, CancelCall,
                Leave, writer
  <1>4. ASSUME NEW e \in Commands PROVE Append(queue, e) # <<>>
    BY <1>4 DEF TypeOK
  <1>5. ASSUME NEW c \in Callers, ShutdownSend(c) PROVE BatchInv'
    BY <1>5, <1>4 DEF ShutdownSend, Leave, writer, Commands
  <1>6. CASE Admit \/ PollFlush \/ ReadPing \/ ProtocolError
    BY <1>6, <1>4 DEF Admit, PollFlush, ReadPing, ProtocolError, writer, Commands
  <1>7. CASE SendFrame \/ RequestShutdown \/ ReadClose \/ InboundEnds \/ InboundFinished
             \/ PeerCloses \/ TransportFails
    BY <1>7 DEF SendFrame, RequestShutdown, ReadClose, InboundEnds, InboundFinished,
                PeerCloses, TransportFails, writer
  <1>8. CASE TakeFrame \/ TakePong \/ TakeFlush \/ TakeShutdown
    BY <1>8 DEF TakeFrame, TakePong, TakeFlush, TakeShutdown, Take, AfterAdd, TypeOK
  <1>9. CASE TakeNotice \/ ReplyDone \/ OutboundCancelled \/ OutboundFinished
    BY <1>9 DEF TakeNotice, ReplyDone, OutboundCancelled, OutboundFinished, FlushBatch
  <1>10. CASE TakeCredit
    BY <1>10 DEF TakeCredit, AfterAdd, TypeOK
  <1>11. CASE WriteDone
    BY <1>11 DEF WriteDone, AfterAdd, FlushBatch, TypeOK
  <1>12. CASE WriteFails
    BY <1>12 DEF WriteFails, FlushBatch, TypeOK
  <1>13. CASE UNCHANGED vars
    BY <1>13, <1>1 DEF vars, writer
  <1> QED BY <1>1, <1>3, <1>5, <1>6, <1>7, <1>8, <1>9, <1>10, <1>11, <1>12, <1>13
          DEF Next, Caller, Inbound, Outbound, Writes

(* Only the call that set shutdown_started sends a Shutdown command.        *)
LEMMA ShutStep ==
    ASSUME TypeOK, ShutInv, [Next]_vars
    PROVE  ShutInv'
  <1> USE DEF TypeOK, ShutInv, Unsent, Commands
  <1>1. CASE /\ UNCHANGED <<queue, out, closeSent, ack>> /\ (started => started')
             /\ \A c \in Callers : call'[c] = "send" => call[c] = "send"
    BY <1>1
  <1>2. ASSUME NEW c \in Callers, Shutdown(c) PROVE ShutInv'
    BY <1>2 DEF Shutdown, writer, IsClosed
  <1>3. ASSUME NEW c \in Callers, ShutdownSend(c) PROVE ShutInv'
    <2>1. CASE /\ queue' = Append(queue, "shutdown")
               /\ call' = [call EXCEPT ![c] = "ack"]
               /\ UNCHANGED <<lifecycle, inb, writer, timed, seen, ack, peer>>
      <3>1. /\ Len(queue') = Len(queue) + 1 /\ queue'[Len(queue) + 1] = "shutdown"
            /\ \A i \in 1..Len(queue) : queue'[i] = queue[i]
        BY <2>1
      <3>2. UNCHANGED <<started, out, closeSent, ack>>
        BY <2>1 DEF lifecycle, writer
      <3>3. call[c] = "send" BY <1>3 DEF ShutdownSend
      <3>4. started /\ Unsent
        BY <3>3
      <3>5. \A d \in Callers : call'[d] # "send"
        BY <2>1, <3>3
      <3>6. \A i \in 1..Len(queue') : queue'[i] = "shutdown" => i = Len(queue) + 1
        BY <3>1, <3>4
      <3> QED BY <3>2, <3>4, <3>5, <3>6
    <2>2. CASE Leave(c) /\ UNCHANGED queue
      BY <2>2, <1>1 DEF Leave, writer
    <2> QED BY <1>3, <2>1, <2>2 DEF ShutdownSend
  <1>4. ASSUME NEW c \in Callers,
               \/ ShutdownAck(c) \/ Timeout(c) \/ WaitForTasks(c)
               \/ Woken(c) \/ TasksDone(c) \/ CancelCall(c)
        PROVE  ShutInv'
    BY <1>4, <1>1 DEF ShutdownAck, Timeout, WaitForTasks, Woken, TasksDone, CancelCall,
                      Leave, writer, lifecycle
  <1>5. ASSUME NEW e \in Commands, queue' = Append(queue, e), e # "shutdown",
               UNCHANGED <<out, closeSent, ack, call>>, started => started'
        PROVE  ShutInv'
    <2>1. /\ Len(queue') = Len(queue) + 1 /\ queue'[Len(queue) + 1] = e
          /\ \A i \in 1..Len(queue) : queue'[i] = queue[i]
      BY <1>5
    <2>2. \A i \in 1..Len(queue') : queue'[i] = "shutdown" =>
             i \in 1..Len(queue) /\ queue[i] = "shutdown"
      BY <1>5, <2>1
    <2> QED BY <1>5, <2>2
  <1>6. CASE Admit \/ PollFlush \/ ReadPing \/ ProtocolError
    BY <1>6, <1>5, <1>1 DEF Admit, PollFlush, ReadPing, ProtocolError, writer, lifecycle, calls
  <1>7. CASE SendFrame \/ RequestShutdown \/ ReadClose \/ InboundEnds \/ InboundFinished
             \/ PeerCloses \/ TransportFails
    BY <1>7, <1>1 DEF SendFrame, RequestShutdown, ReadClose, InboundEnds, InboundFinished,
                PeerCloses, TransportFails, writer, lifecycle, calls, TaskFinished
  <1>8. ASSUME NEW e \in Commands, Take(e), UNCHANGED <<started, closeSent, ack, call>>,
               out' = "close" => e = "shutdown"
        PROVE  ShutInv'
    <2>1. /\ Len(queue) \in Nat \ {0} /\ e = queue[1] /\ Len(queue') = Len(queue) - 1
          /\ \A i \in 1..Len(queue') : queue'[i] = queue[i + 1] /\ i + 1 \in 1..Len(queue)
      BY <1>8 DEF Take
    <2>2. \A i \in 1..Len(queue') : queue'[i] = "shutdown" => queue[1] # "shutdown"
      BY <2>1
    <2> QED BY <1>8, <2>1, <2>2
  <1>9. CASE TakeFrame \/ TakePong \/ TakeFlush \/ TakeShutdown
    BY <1>9, <1>8 DEF TakeFrame, TakePong, TakeFlush, TakeShutdown, Take, AfterAdd,
                      lifecycle, calls
  <1>10. CASE TakeNotice \/ ReplyDone \/ OutboundCancelled \/ TakeCredit
    BY <1>10 DEF TakeNotice, ReplyDone, OutboundCancelled, TakeCredit, AfterAdd,
                 lifecycle, calls
  <1>11. CASE OutboundFinished
    BY <1>11 DEF OutboundFinished, TaskFinished, calls
  <1>12. CASE WriteDone
    BY <1>12 DEF WriteDone, AfterAdd, lifecycle, calls
  <1>13. CASE WriteFails
    BY <1>13 DEF WriteFails, lifecycle, calls
  <1>14. CASE UNCHANGED vars
    BY <1>14, <1>1 DEF vars, lifecycle, writer, calls
  <1> QED BY <1>2, <1>3, <1>4, <1>6, <1>7, <1>9, <1>10, <1>11, <1>12, <1>13, <1>14
          DEF Next, Caller, Inbound, Outbound, Writes

(* A Flush command is in the queue, or taken, only after poll_flush ran.    *)
LEMMA FlushStep ==
    ASSUME TypeOK, FlushInv, [Next]_vars
    PROVE  FlushInv'
  <1> USE DEF TypeOK, FlushInv, Commands
  <1>1. CASE UNCHANGED <<queue, out, flush>>
    BY <1>1
  <1>2. ASSUME NEW e \in Commands, queue' = Append(queue, e), e # "flush",
               UNCHANGED <<out, flush>>
        PROVE  FlushInv'
    BY <1>2
  <1>3. ASSUME NEW c \in Callers,
               \/ Shutdown(c) \/ ShutdownSend(c) \/ ShutdownAck(c) \/ Timeout(c)
               \/ WaitForTasks(c) \/ Woken(c) \/ TasksDone(c) \/ CancelCall(c)
        PROVE  FlushInv'
    BY <1>3, <1>1, <1>2 DEF Shutdown, ShutdownSend, ShutdownAck, Timeout, WaitForTasks, Woken,
       TasksDone, CancelCall, Leave, writer, clients
  <1>4. CASE Admit \/ ReadPing \/ ProtocolError
    BY <1>4, <1>2, <1>1 DEF Admit, ReadPing, ProtocolError, writer, clients
  <1>5. CASE SendFrame \/ RequestShutdown \/ ReadClose \/ InboundEnds \/ InboundFinished
             \/ PeerCloses \/ TransportFails \/ UNCHANGED vars
    BY <1>5, <1>1 DEF SendFrame, RequestShutdown, ReadClose, InboundEnds, InboundFinished,
                PeerCloses, TransportFails, writer, clients, vars
  <1>6. CASE PollFlush
    BY <1>6 DEF PollFlush
  <1>7. ASSUME NEW e \in Commands, Take(e), UNCHANGED flush, out' = "flush" => e = "flush"
        PROVE  FlushInv'
    <2>1. /\ e = queue[1] /\ Len(queue) \in Nat \ {0}
          /\ \A i \in 1..Len(queue') : queue'[i] = queue[i + 1] /\ i + 1 \in 1..Len(queue)
      BY <1>7 DEF Take
    <2> QED BY <1>7, <2>1
  <1>8. CASE TakeFrame \/ TakePong \/ TakeFlush \/ TakeShutdown
    BY <1>8, <1>7 DEF TakeFrame, TakePong, TakeFlush, TakeShutdown, Take, AfterAdd, clients
  <1>9. CASE TakeNotice \/ ReplyDone \/ OutboundCancelled \/ TakeCredit \/ OutboundFinished
    BY <1>9 DEF TakeNotice, ReplyDone, OutboundCancelled, TakeCredit, AfterAdd,
                OutboundFinished, clients
  <1>10. CASE WriteDone \/ WriteFails
    BY <1>10 DEF WriteDone, WriteFails, AfterAdd
  <1> QED BY <1>3, <1>4, <1>5, <1>6, <1>8, <1>9, <1>10
          DEF Next, Caller, Inbound, Outbound, Writes

(* A command that joins the queue takes the next number.                    *)
LEMMA NumberingAppend ==
    ASSUME TypeOK, OrderInv, RxLive, ~closeSent, NEW e \in Commands,
           queue' = Append(queue, e), UNCHANGED <<out, held, written, closeSent>>,
           admitted' = admitted + (IF e = "frame" THEN 1 ELSE 0),
           IF e = "shutdown" THEN /\ shutAt' = admitted
                                  /\ \A i \in 1..Len(queue) : queue[i] # "shutdown"
                             ELSE shutAt' = shutAt,
           IF e = "flush" THEN /\ flushAt' = admitted
                               /\ \A i \in 1..Len(queue) : queue[i] # "flush"
                          ELSE flushAt' = flushAt
    PROVE  OrderInv'
  <1> USE DEF TypeOK, Commands
  <1>1. PICK pos \in [0..Len(queue) -> Nat] : Numbering(pos)
    BY DEF OrderInv
  <1>n. PICK new : new = [i \in 0..Len(queue) + 1 |->
                            IF i <= Len(queue) THEN pos[i] ELSE admitted']
    OBVIOUS
  <1>2. /\ Len(queue) \in Nat /\ Len(queue') = Len(queue) + 1
        /\ queue'[Len(queue) + 1] = e
        /\ \A i \in 1..Len(queue) : queue'[i] = queue[i]
    OBVIOUS
  <1>3. new \in [0..Len(queue') -> Nat]
    BY <1>n, <1>2
  <1>4. new[0] = Taken' /\ new[Len(queue')] = admitted'
    BY <1>n, <1>1, <1>2 DEF Numbering, Taken
  <1>5. ASSUME NEW i \in 1..Len(queue')
        PROVE  /\ new[i] = new[i - 1] + (IF queue'[i] = "frame" THEN 1 ELSE 0)
               /\ queue'[i] = "shutdown" => new[i] = shutAt'
               /\ queue'[i] = "flush" => new[i] = flushAt'
    <2>1. CASE i = Len(queue) + 1
      <3>1. new[i - 1] = admitted
        BY <1>n, <1>1, <1>2, <2>1 DEF Numbering
      <3>2. new[i] = admitted' /\ queue'[i] = e
        BY <1>n, <1>2, <2>1
      <3> QED BY <3>1, <3>2
    <2>2. CASE i \in 1..Len(queue)
      <3>1. new[i] = pos[i] /\ new[i - 1] = pos[i - 1] /\ queue'[i] = queue[i]
        BY <1>n, <1>2, <2>2
      <3> QED BY <1>1, <2>2, <3>1 DEF Numbering
    <2> QED BY <1>2, <2>1, <2>2
  <1>6. Numbering(new)'
    BY <1>2, <1>4, <1>5 DEF Numbering
  <1> QED BY <1>3, <1>6 DEF OrderInv

(* The writer takes the first command: what remains keeps its numbers.      *)
LEMMA NumberingTake ==
    ASSUME TypeOK, OrderInv, ~closeSent, NEW e \in Commands, Take(e), UNCHANGED closeSent,
           Taken' = Taken + (IF e = "frame" THEN 1 ELSE 0),
           UNCHANGED <<admitted, shutAt, flushAt>>
    PROVE  /\ OrderInv'
           /\ e = "shutdown" => shutAt = Taken
           /\ e = "flush" => flushAt = Taken
  <1> USE DEF TypeOK, Commands
  <1>1. PICK pos \in [0..Len(queue) -> Nat] : Numbering(pos)
    BY DEF OrderInv, Take, RxLive
  <1>n. PICK new : new = [i \in 0..Len(queue) - 1 |-> pos[i + 1]]
    OBVIOUS
  <1>2. /\ Len(queue) \in Nat \ {0} /\ Len(queue') = Len(queue) - 1
        /\ queue[1] = e
        /\ \A i \in 1..Len(queue') : queue'[i] = queue[i + 1]
    BY DEF Take
  <1>3. new \in [0..Len(queue') -> Nat]
    BY <1>n, <1>2
  <1>4. pos[1] = Taken' /\ (e = "shutdown" => pos[1] = shutAt) /\ (e = "flush" => pos[1] = flushAt)
    BY <1>1, <1>2 DEF Numbering
  <1>5. new[0] = Taken' /\ new[Len(queue')] = admitted'
    BY <1>n, <1>1, <1>2, <1>4 DEF Numbering
  <1>6. ASSUME NEW i \in 1..Len(queue')
        PROVE  /\ new[i] = new[i - 1] + (IF queue'[i] = "frame" THEN 1 ELSE 0)
               /\ queue'[i] = "shutdown" => new[i] = shutAt'
               /\ queue'[i] = "flush" => new[i] = flushAt'
    <2>1. i + 1 \in 1..Len(queue) /\ queue'[i] = queue[i + 1]
      BY <1>2
    <2>2. new[i] = pos[i + 1] /\ new[i - 1] = pos[i]
      BY <1>n, <1>2
    <2> QED BY <1>1, <2>1, <2>2 DEF Numbering
  <1>7. Numbering(new)'
    BY <1>5, <1>6 DEF Numbering
  <1> QED BY <1>3, <1>4, <1>7 DEF OrderInv, Taken, Take

(* A step that leaves the queue and the count of taken frames alone.        *)
LEMMA NumberingKept ==
    ASSUME TypeOK, OrderInv, RxLive' => RxLive, closeSent => closeSent',
           RxLive' /\ ~closeSent' => Taken' = Taken,
           UNCHANGED <<queue, admitted, shutAt, flushAt>>
    PROVE  OrderInv'
  BY DEF OrderInv, Numbering

(* Every frame that enters the queue leaves it towards the wire, in order.  *)
LEMMA OrderStep ==
    ASSUME TypeOK, OrderInv, ShutInv, FlushInv, [Next]_vars
    PROVE  OrderInv'
  <1>1. ASSUME RxLive, closeSent, UNCHANGED <<out, closeSent>> PROVE OrderInv'
    BY <1>1 DEF OrderInv
  <1>2. ASSUME NEW c \in Callers, ShutdownSend(c) PROVE OrderInv'
    <2>1. CASE ~RxLive
      BY <1>2, <2>1, NumberingKept DEF ShutdownSend, Room, Leave, writer, clients, Taken, RxLive
    <2>2. CASE RxLive
      <3>1. Unsent /\ ~closeSent
        BY <1>2 DEF ShutdownSend, ShutInv, Unsent
      <3> QED BY <1>2, <2>2, <3>1, NumberingAppend
              DEF ShutdownSend, Leave, writer, Unsent, Commands, TypeOK
    <2> QED BY <2>1, <2>2
  <1>3. ASSUME NEW c \in Callers,
               \/ Shutdown(c) \/ ShutdownAck(c) \/ Timeout(c)
               \/ WaitForTasks(c) \/ Woken(c) \/ TasksDone(c) \/ CancelCall(c)
        PROVE  OrderInv'
    BY <1>3, NumberingKept DEF Shutdown, ShutdownAck, Timeout, WaitForTasks, Woken,
       TasksDone, CancelCall, Leave, writer, clients, Taken, RxLive
  <1>4. CASE SendFrame \/ RequestShutdown \/ ReadClose \/ InboundEnds \/ InboundFinished
             \/ PeerCloses \/ TransportFails \/ UNCHANGED vars
    BY <1>4, NumberingKept DEF SendFrame, RequestShutdown, ReadClose, InboundEnds,
       InboundFinished, PeerCloses, TransportFails, vars, writer, clients, Taken, RxLive
  <1>5. CASE Admit
    BY <1>5, <1>1, NumberingKept, NumberingAppend
       DEF Admit, Room, RxLive, Commands, TypeOK, writer, Taken
  <1>6. CASE PollFlush
    BY <1>6, <1>1, NumberingKept, NumberingAppend
       DEF PollFlush, Room, RxLive, Commands, TypeOK, writer, Taken, FlushInv
  <1>7. CASE ReadPing \/ ProtocolError
    <2>1. CASE UNCHANGED <<queue, admitted>>
      BY <1>7, <2>1, NumberingKept DEF ReadPing, ProtocolError, RxLive, writer, clients, Taken
    <2>2. CASE ReadPing
      BY <2>2, <1>1, NumberingAppend
         DEF ReadPing, Room, Commands, TypeOK, writer, clients
    <2>3. CASE ProtocolError /\ Room /\ queue' = Append(queue, "frame") /\ admitted' = admitted + 1
      BY <2>3, <1>1, NumberingAppend
         DEF ProtocolError, Room, Commands, TypeOK, writer, clients
    <2> QED BY <1>7, <2>1, <2>2, <2>3 DEF ProtocolError
  <1>8. CASE TakeFrame
    <2>1. CASE closeSent
      BY <1>8, <2>1 DEF TakeFrame, OrderInv
    <2>2. CASE ~closeSent
      <3>1. Taken' = Taken + 1
        BY <1>8, <2>2 DEF TakeFrame, Take, AfterAdd, Taken, TypeOK
      <3> QED BY <1>8, <2>2, <3>1, NumberingTake DEF TakeFrame, Commands, clients
    <2> QED BY <2>1, <2>2
  <1>9. CASE TakePong \/ TakeFlush \/ TakeShutdown
    <2>1. CASE closeSent
      BY <1>9, <2>1 DEF TakePong, TakeFlush, TakeShutdown, OrderInv
    <2>2. CASE ~closeSent
      <3>1. Taken' = Taken
        BY <1>9, <2>2 DEF TakePong, TakeFlush, TakeShutdown, Take, Taken, TypeOK
      <3>2. Taken \in Nat
        BY DEF Taken, TypeOK
      <3> QED BY <1>9, <2>2, <3>1, <3>2, NumberingTake
              DEF TakePong, TakeFlush, TakeShutdown, Commands, clients
    <2> QED BY <2>1, <2>2
  <1>10. CASE TakeNotice \/ ReplyDone \/ OutboundCancelled \/ TakeCredit
    BY <1>10, NumberingKept DEF TakeNotice, ReplyDone, OutboundCancelled, TakeCredit,
       AfterAdd, clients, Taken, RxLive, TypeOK
  <1>11. CASE OutboundFinished
    BY <1>11 DEF OutboundFinished, OrderInv, RxLive
  <1>12. CASE WriteDone
    <2>1. RxLive /\ (~closeSent' => Taken' = Taken)
      BY <1>12 DEF WriteDone, AfterAdd, FlushBatch, Taken, TypeOK, RxLive, Writing
    <2> QED BY <1>12, <2>1, NumberingKept DEF WriteDone
  <1>13. CASE WriteFails
    <2>1. RxLive /\ (RxLive' => Taken' = Taken)
      BY <1>13 DEF WriteFails, FlushBatch, Taken, TypeOK, RxLive, Writing
    <2> QED BY <1>13, <2>1, NumberingKept DEF WriteFails
  <1> QED BY <1>2, <1>3, <1>4, <1>5, <1>6, <1>7, <1>8, <1>9, <1>10, <1>11, <1>12, <1>13
          DEF Next, Caller, Inbound, Outbound, Writes

(* A barrier is taken only after every frame admitted before it, and the    *)
(* batch is written before the barrier is acknowledged.                     *)
LEMMA BarrierStep ==
    ASSUME TypeOK, BarrierInv, OrderInv, ShutInv, FlushInv, [Next]_vars
    PROVE  BarrierInv'
  <1> USE DEF TypeOK, BarrierInv, BarriersHold
  <1>1. CASE UNCHANGED <<out, closeSent, written, held, ack, flush, shutAt, flushAt>>
    BY <1>1
  <1>2. ASSUME NEW c \in Callers, ShutdownSend(c) PROVE BarrierInv'
    <2>1. Unsent
      BY <1>2 DEF ShutInv, ShutdownSend
    <2>2. UNCHANGED <<out, closeSent, written, held, ack, flush, flushAt>>
      BY <1>2 DEF ShutdownSend, Leave, writer
    <2> QED BY <2>1, <2>2 DEF Unsent
  <1>3. ASSUME NEW c \in Callers,
               \/ Shutdown(c) \/ ShutdownAck(c) \/ Timeout(c)
               \/ WaitForTasks(c) \/ Woken(c) \/ TasksDone(c) \/ CancelCall(c)
        PROVE  BarrierInv'
    BY <1>3, <1>1 DEF Shutdown, ShutdownAck, Timeout, WaitForTasks, Woken,
       TasksDone, CancelCall, Leave, writer, clients
  <1>4. CASE SendFrame \/ RequestShutdown \/ ReadClose \/ InboundEnds \/ InboundFinished
             \/ PeerCloses \/ TransportFails \/ UNCHANGED vars
    BY <1>4, <1>1 DEF SendFrame, RequestShutdown, ReadClose, InboundEnds,
       InboundFinished, PeerCloses, TransportFails, vars, writer, clients
  <1>5. CASE Admit \/ ReadPing \/ ProtocolError
    BY <1>5, <1>1 DEF Admit, ReadPing, ProtocolError, writer, clients
  <1>6. CASE PollFlush
    BY <1>6 DEF PollFlush, writer, FlushInv
  <1>7. CASE TakeFrame \/ TakePong \/ TakeCredit \/ TakeNotice
    BY <1>7 DEF TakeFrame, TakePong, TakeCredit, TakeNotice, Take, AfterAdd, clients
  <1>8. CASE TakeFlush
    <2>1. ~closeSent => flushAt = Taken
      <3>1. ~closeSent => Taken' = Taken /\ Taken \in Nat
        BY <1>8 DEF TakeFlush, Take, Taken
      <3> QED BY <1>8, <3>1, NumberingTake DEF TakeFlush, Commands, clients
    <2> QED BY <1>8, <2>1 DEF TakeFlush, Take, Taken, clients
  <1>9. CASE TakeShutdown
    <2>1. ~closeSent
      <3>1. queue # <<>> /\ queue[1] = "shutdown" /\ 1 \in 1..Len(queue)
        BY <1>9 DEF TakeShutdown, Take
      <3> QED BY <3>1 DEF ShutInv
    <2>2. Taken' = Taken /\ Taken \in Nat
      BY <1>9 DEF TakeShutdown, Take, Taken
    <2>3. shutAt = Taken
      BY <1>9, <2>1, <2>2, NumberingTake DEF TakeShutdown, Commands, clients
    <2> QED BY <1>9, <2>3 DEF TakeShutdown, Take, Taken, clients
  <1>10. CASE ReplyDone \/ OutboundCancelled \/ OutboundFinished
    BY <1>10 DEF ReplyDone, OutboundCancelled, OutboundFinished, FlushBatch, clients
  <1>11. CASE WriteDone
    BY <1>11 DEF WriteDone, AfterAdd, FlushBatch
  <1>12. CASE WriteFails
    BY <1>12 DEF WriteFails, FlushBatch
  <1> QED BY <1>2, <1>3, <1>4, <1>5, <1>6, <1>7, <1>8, <1>9, <1>10, <1>11, <1>12
          DEF Next, Caller, Inbound, Outbound, Writes

(* A new session: two tasks, nothing queued, no call of shutdown.           *)
LEMMA InitIInv == Init => IInv
  <1> SUFFICES ASSUME Init PROVE IInv
    OBVIOUS
  <1> USE DEF Init
  <1>1. TypeOK
    <2>1. queue \in Seq(Commands)
      OBVIOUS
    <2>2. /\ seen \in [Callers -> Nat] /\ timed \in SUBSET Callers
          /\ call \in [Callers -> {"idle", "send", "ack", "wait", "check", "parked",
                                  "counted", "done", "gone"}]
      OBVIOUS
    <2>3. /\ started \in BOOLEAN /\ closed \in BOOLEAN /\ cancelled \in BOOLEAN
          /\ peerClosed \in BOOLEAN /\ notice \in BOOLEAN /\ closeSent \in BOOLEAN
      OBVIOUS
    <2>4. /\ active \in 0..2 /\ gen \in Nat /\ batch \in Nat /\ held \in Nat
          /\ admitted \in Nat /\ written \in Nat /\ shutAt \in Nat /\ flushAt \in Nat
      OBVIOUS
    <2>5. /\ out \in Writing \cup {"select", "reply", "end", "ended"} /\ ack \in Results
          /\ inb \in {"run", "peerWait", "end", "ended"} /\ app \in {"idle", "wait"}
          /\ flush \in {"idle", "queued", "ok", "err"} /\ peer \in {"open", "close", "gone"}
      BY DEF Results
    <2> HIDE DEF Init
    <2> QED BY <2>1, <2>2, <2>3, <2>4, <2>5 DEF TypeOK
  <1>2. TaskInv /\ BatchInv /\ BarrierInv
    <2>1. TaskInv
      BY DEF TaskInv
    <2>2. BatchInv
      BY DEF BatchInv, NothingStranded
    <2>3. BarrierInv
      BY DEF BarrierInv, BarriersHold
    <2> QED BY <2>1, <2>2, <2>3
  <1>3. ShutInv /\ FlushInv
    BY DEF ShutInv, FlushInv, Unsent
  <1>4. OrderInv
    <2>1. Len(queue) = 0
      OBVIOUS
    <2>2. Numbering([i \in 0..Len(queue) |-> 0])
      BY <2>1 DEF Numbering, Taken
    <2>3. [i \in 0..Len(queue) |-> 0] \in [0..Len(queue) -> Nat]
      OBVIOUS
    <2> QED BY <2>2, <2>3 DEF OrderInv
  <1> QED BY <1>1, <1>2, <1>3, <1>4 DEF IInv

(* The inductive invariant of the session holds in every reachable state.   *)
THEOREM SessionInvariant == Spec => []IInv
  <1>1. IInv /\ [Next]_vars => IInv'
    BY TypeStep, TaskStep, BatchStep, ShutStep, FlushStep, OrderStep, BarrierStep DEF IInv
  <1> QED BY InitIInv, <1>1, PTL DEF Spec

(* shutdown returns to a caller only after both tasks called task_finished, *)
(* whoever ended the session and however often the call was woken.          *)
THEOREM ShutdownWaitsForTasks == Spec => []ReturnMeansDone
  <1>1. IInv => ReturnMeansDone
    BY DEF IInv, TaskInv, ReturnMeansDone
  <1> QED BY SessionInvariant, <1>1, PTL

(* An acknowledged Shutdown or Flush command means every frame admitted     *)
(* before it was written, for any queue length, batch size and number of    *)
(* frames.                                                                  *)
THEOREM BarriersAreExact == Spec => []BarriersHold
  <1>1. IInv => BarriersHold
    BY DEF IInv, BarrierInv
  <1> QED BY SessionInvariant, <1>1, PTL

(* run_outbound never waits with an unwritten batch and an empty queue.     *)
THEOREM WriterStrandsNothing == Spec => []NothingStranded
  <1>1. IInv => NothingStranded
    BY DEF IInv, BatchInv
  <1> QED BY SessionInvariant, <1>1, PTL

===========================================================================
