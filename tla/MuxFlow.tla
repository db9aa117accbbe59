------------------------------ MODULE MuxFlow ------------------------------
(***************************************************************************)
(* One direction of one mux stream of the native session                   *)
(* (websock-tungstenite-mux/src/session.rs), between the two endpoints:    *)
(*                                                                         *)
(*   S  the endpoint that owns the SendStream and its SendFlowState;       *)
(*   R  the endpoint that owns the RecvStream and its RecvState.           *)
(*                                                                         *)
(* Each endpoint runs the application task that holds the handle, the      *)
(* inbound task (handle_frame) and the outbound task (the writer).  They   *)
(* share the stream tables, so every lock section, atomic operation and    *)
(* await point of the code is a step of its own here.                      *)
(*                                                                         *)
(* A payload is the half-open interval lo..hi of the positions its bytes   *)
(* have in the byte stream the application wrote; data.len() is hi - lo.   *)
(* Each endpoint has a bounded outbound queue (outbound_tx/outbound_rx) and *)
(* a wire: what its writer has taken from the queue and the peer has not   *)
(* read, batches and socket buffers included.                              *)
(***************************************************************************)
EXTENDS Integers, Sequences

CONSTANTS
    InitialWindow,    \* Limits.initial_stream_window of R
    UpdateThreshold,  \* Limits.stream_window_update_threshold of R
    MaxFrame,         \* Limits.max_stream_data_per_frame of R
    MaxChunk,         \* min(MAX_WRITE_CHUNK, max_stream_data_per_frame) of S
    OutboundLen,      \* Limits.outbound_queue_len of both endpoints
    RecvEventLen,     \* Limits.recv_event_queue_len of R
    VarIntMax,        \* VarInt::MAX
    TotalBytes,       \* bound: bytes the application ever writes
    MaxResets         \* bound: calls of SendStream::reset

(* What Limits::validate guarantees, and that S does not cut frames larger  *)
(* than R accepts (the protocol has no negotiation of the frame size).      *)
ASSUME LimitsAssumption ==
    /\ InitialWindow \in Nat \ {0}
    /\ UpdateThreshold \in Nat \ {0}
    /\ UpdateThreshold <= InitialWindow
    /\ MaxFrame \in Nat \ {0}
    /\ MaxChunk \in Nat \ {0}
    /\ MaxChunk <= MaxFrame
    /\ OutboundLen \in Nat \ {0}
    /\ RecvEventLen \in Nat \ {0}
    /\ VarIntMax \in Nat
    /\ InitialWindow <= VarIntMax
    /\ TotalBytes \in Nat
    /\ MaxResets \in Nat

VARIABLES
    \* SendStream and SendFlowState (S)
    flowLive,   \* the flow is in send_flows and not closed
    maxData,    \* SendFlowState.max_data
    sentData,   \* SendFlowState.sent_data
    finished,   \* SendStream.finished
    wpc,        \* where the application task is in a SendStream operation
    asked,      \* history: bytes passed to write_buf so far
    grant,      \* bytes reserved for the chunk being published
    written,    \* position of the next byte to publish
    resets,     \* calls of reset so far
    \* RecvState and RecvStream (R)
    entry,      \* the stream's RecvState in `streams`: none, live or stopped
    received,   \* RecvState.received
    rMax,       \* RecvState.max_data, shared with RecvStream.max_data
    events,     \* the bounded channel of RecvEvents
    rpc,        \* where the application task is in a RecvStream operation
    pend,       \* RecvStream.pending
    consumed,   \* RecvStream.consumed
    granted,    \* RecvStream.granted
    rfin,       \* RecvStream.finished
    stopSent,   \* RecvStream.stop_sent
    sawFin,     \* history: the application was handed the FIN event
    credit,     \* this stream's value in pending_credit, 0 when absent
    \* the sessions
    sDown, rDown,    \* shutdown_started
    sConn, rConn,    \* up; closed = close_all has run; gone = writer ended
    broken,          \* the transport has failed or been dropped
    sIn,             \* S's inbound task: run, ack = awaiting a slot, end
    rIn,             \* R's inbound task: run, credit, deliver or retire
    cur,             \* the Stream frame R's inbound task is handling
    err,             \* protocol error R raised while not shutting down
    sQueue, sWire, rQueue, rWire

snd  == <<flowLive, maxData, sentData, finished, wpc, asked, grant, written, resets>>
rst  == <<entry, received, rMax, events, credit>>
rapp == <<rpc, pend, consumed, granted, rfin, stopSent, sawFin>>
ses  == <<sDown, rDown, sConn, rConn, broken>>
inb  == <<sIn, rIn, cur, err>>
net  == <<sQueue, sWire, rQueue, rWire>>
vars == <<snd, rst, rapp, ses, inb, net>>

-----------------------------------------------------------------------------
(* Frames *)

Frame == [t : {"open", "stream", "reset"}, lo : Nat, hi : Nat, fin : BOOLEAN]
Ctl   == [t : {"max", "stop", "close"}, max : Nat]

Open          == [t |-> "open", lo |-> 0, hi |-> 0, fin |-> FALSE]
Stream(lo, hi, fin) == [t |-> "stream", lo |-> lo, hi |-> hi, fin |-> fin]
ResetStream   == [t |-> "reset", lo |-> written, hi |-> written, fin |-> FALSE]
MaxStreamData(m)    == [t |-> "max", max |-> m]
StopSending   == [t |-> "stop", max |-> 0]
ConnectionClose     == [t |-> "close", max |-> 0]

Min2(a, b) == IF a <= b THEN a ELSE b

SIsClosed == sDown \/ sConn # "up"
RIsClosed == rDown \/ rConn # "up"

(* A slot of the bounded outbound channel, whose receiver lives until the   *)
(* endpoint's outbound task ends.                                           *)
SRoom == Len(sQueue) < OutboundLen /\ sConn # "gone"
RRoom == Len(rQueue) < OutboundLen /\ rConn # "gone"

SPush(f) == sQueue' = Append(sQueue, f) /\ UNCHANGED <<sWire, rQueue, rWire>>
RPush(c) == rQueue' = Append(rQueue, c) /\ UNCHANGED <<sQueue, sWire, rWire>>

Init ==
    /\ maxData = 0 /\ sentData = 0 /\ finished = FALSE
    /\ flowLive = TRUE /\ wpc = "idle" /\ asked = 0 /\ grant = 0
    /\ written = 0 /\ resets = 0
    /\ received = 0 /\ events = <<>> /\ credit = 0
    /\ pend = <<0, 0>> /\ consumed = 0 /\ rfin = FALSE
    /\ stopSent = FALSE /\ sawFin = FALSE
    /\ sDown = FALSE /\ rDown = FALSE /\ sConn = "up" /\ rConn = "up"
    /\ broken = FALSE
    /\ sIn = "run" /\ rIn = "run" /\ cur = Open /\ err = "none"
    /\ sWire = <<>> /\ rQueue = <<>> /\ rWire = <<>>
    /\ \/ /\ entry = "none" /\ rMax = 0 /\ granted = 0 /\ rpc = "none"
          /\ sQueue = <<Open>>
       \/ /\ entry = "live" /\ rMax = InitialWindow
          /\ granted = InitialWindow /\ rpc = "opening"
          /\ sQueue = <<>>

-----------------------------------------------------------------------------
(* SendStream: the direct API, one operation at a time *)

WriteBuf(n) ==
    /\ wpc = "idle" /\ ~finished /\ ~SIsClosed
    /\ asked + n <= TotalBytes
    /\ wpc' = "reserve" /\ asked' = asked + n
    /\ UNCHANGED <<flowLive, maxData, sentData, finished, grant, written, resets>>
    /\ UNCHANGED <<rst, rapp, ses, inb, net>>

(* Mutant: the credit limit is checked but does not cut the grant. *)
TryReservePastLimit(requested) ==
    IF ~flowLive \/ maxData <= sentData THEN 0
    ELSE requested

TryReserve(requested) ==
    IF ~flowLive \/ maxData <= sentData THEN 0
    ELSE Min2(maxData - sentData, requested)

(* What the current write_buf has not published yet: an earlier call that   *)
(* published less than it was given left the flow or the session closed.    *)
Todo == asked - written

Reserve ==
    /\ wpc = "reserve"
    /\ LET g == TryReserve(Min2(Todo, MaxChunk)) IN
       \/ /\ g > 0 /\ ~SIsClosed
          /\ wpc' = "send" /\ grant' = g /\ sentData' = sentData + g
       \/ /\ ~flowLive \/ SIsClosed
          /\ wpc' = "idle"
          /\ UNCHANGED <<grant, sentData>>
    /\ UNCHANGED <<flowLive, maxData, finished, asked, written, resets>>
    /\ UNCHANGED <<rst, rapp, ses, inb, net>>

SendFails == \/ SRoom /\ ~flowLive
             \/ sConn = "gone"

(* Mutant: the flow is not checked once a queue slot is there. *)
PublishRetired ==
    /\ wpc = "send" /\ SRoom
    /\ SPush(Stream(written, written + grant, FALSE))
    /\ written' = written + grant
    /\ grant' = 0
    /\ wpc' = IF Todo = grant THEN "idle" ELSE "reserve"
    /\ UNCHANGED <<flowLive, maxData, sentData, finished, asked, resets>>
    /\ UNCHANGED <<rst, rapp, ses, inb>>

Publish ==
    /\ wpc = "send" /\ SRoom /\ flowLive
    /\ SPush(Stream(written, written + grant, FALSE))
    /\ written' = written + grant
    /\ grant' = 0
    /\ wpc' = IF Todo = grant THEN "idle" ELSE "reserve"
    /\ UNCHANGED <<flowLive, maxData, sentData, finished, asked, resets>>
    /\ UNCHANGED <<rst, rapp, ses, inb>>

(* Mutant: gives back the whole rest of the write. *)
ReleaseAll ==
    /\ wpc = "send" /\ SendFails
    /\ sentData' = sentData - Todo
    /\ grant' = 0 /\ wpc' = "idle"
    /\ UNCHANGED <<flowLive, maxData, finished, asked, written, resets>>
    /\ UNCHANGED <<rst, rapp, ses, inb, net>>

Release ==
    /\ wpc = "send" /\ SendFails
    /\ sentData' = sentData - grant
    /\ grant' = 0 /\ wpc' = "idle"
    /\ UNCHANGED <<flowLive, maxData, finished, asked, written, resets>>
    /\ UNCHANGED <<rst, rapp, ses, inb, net>>

Finish ==
    /\ wpc = "idle" /\ ~finished /\ flowLive /\ ~SIsClosed
    /\ finished' = TRUE /\ wpc' = "finSend"
    /\ UNCHANGED <<flowLive, maxData, sentData, asked, grant, written, resets>>
    /\ UNCHANGED <<rst, rapp, ses, inb, net>>

PublishFin ==
    /\ wpc = "finSend"
    /\ \/ /\ SRoom /\ flowLive
          /\ SPush(Stream(written, written, TRUE))
          /\ wpc' = "finRemove"
       \/ /\ SendFails
          /\ wpc' = "idle"
          /\ UNCHANGED net
    /\ UNCHANGED <<flowLive, maxData, sentData, finished, asked, grant, written, resets>>
    /\ UNCHANGED <<rst, rapp, ses, inb>>

FinRemove ==
    /\ wpc = "finRemove"
    /\ flowLive' = FALSE /\ wpc' = "idle"
    /\ UNCHANGED <<maxData, sentData, finished, asked, grant, written, resets>>
    /\ UNCHANGED <<rst, rapp, ses, inb, net>>

Reset ==
    /\ wpc = "idle" /\ resets < MaxResets
    /\ finished' = TRUE /\ flowLive' = FALSE /\ resets' = resets + 1
    /\ wpc' = IF SIsClosed THEN "idle" ELSE "rstSend"
    /\ UNCHANGED <<maxData, sentData, asked, grant, written>>
    /\ UNCHANGED <<rst, rapp, ses, inb, net>>

PublishReset ==
    /\ wpc = "rstSend"
    /\ \/ SRoom /\ SPush(ResetStream)
       \/ sConn = "gone" /\ UNCHANGED net
    /\ wpc' = "idle"
    /\ UNCHANGED <<flowLive, maxData, sentData, finished, asked, grant, written, resets>>
    /\ UNCHANGED <<rst, rapp, ses, inb>>

(* Mutant: a cancelled call does not abort the session. *)
CancelQuietly ==
    /\ wpc \in {"reserve", "send", "finSend", "rstSend"}
    /\ wpc' = "idle" /\ grant' = 0 /\ UNCHANGED sDown
    /\ UNCHANGED <<flowLive, maxData, sentData, finished, asked, written, resets>>
    /\ UNCHANGED <<rDown, sConn, rConn, broken, rst, rapp, inb, net>>

(* Dropping the future of a suspended operation: the guard of               *)
(* complete_or_abort requests shutdown; a reservation is not given back.    *)
CancelSend ==
    /\ wpc \in {"reserve", "send", "finSend", "rstSend"}
    /\ wpc' = "idle" /\ grant' = 0 /\ sDown' = TRUE
    /\ UNCHANGED <<flowLive, maxData, sentData, finished, asked, written, resets>>
    /\ UNCHANGED <<rDown, sConn, rConn, broken, rst, rapp, inb, net>>

(* Mutant: a refused RESET is ignored. *)
DropSendQuietly ==
    /\ wpc = "idle"
    /\ wpc' = "dropped" /\ flowLive' = FALSE
    /\ \/ /\ finished
          /\ UNCHANGED <<net, sDown>>
       \/ /\ ~finished /\ ~SIsClosed /\ SRoom
          /\ SPush(ResetStream) /\ UNCHANGED sDown
       \/ /\ ~finished /\ (SIsClosed \/ ~SRoom)
          /\ UNCHANGED <<net, sDown>>
    /\ UNCHANGED <<maxData, sentData, finished, asked, grant, written, resets>>
    /\ UNCHANGED <<rDown, sConn, rConn, broken, rst, rapp, inb>>

DropSend ==
    /\ wpc = "idle"
    /\ wpc' = "dropped" /\ flowLive' = FALSE
    /\ \/ /\ finished
          /\ UNCHANGED <<net, sDown>>
       \/ /\ ~finished /\ ~SIsClosed /\ SRoom
          /\ SPush(ResetStream) /\ UNCHANGED sDown
       \/ /\ ~finished /\ (SIsClosed \/ ~SRoom)
          /\ sDown' = TRUE /\ UNCHANGED net
    /\ UNCHANGED <<maxData, sentData, finished, asked, grant, written, resets>>
    /\ UNCHANGED <<rDown, sConn, rConn, broken, rst, rapp, inb>>

-----------------------------------------------------------------------------
(* RecvStream: the application's reads, stop and drop *)

(* The receive channel is closed once no sender is left: the one in         *)
(* RecvState, and the clone R's inbound task holds while it delivers.       *)
ChannelClosed == entry = "none" /\ rIn # "deliver"

(* Mutant: the target is counted from what was granted. *)
GrantFromGranted(n, fin) ==
    LET target == Min2(granted + n + InitialWindow, VarIntMax) IN
    /\ consumed' = consumed + n
    /\ IF n > 0 /\ target > granted /\ target - granted >= UpdateThreshold
              /\ ~fin /\ ~stopSent
       THEN granted' = target /\ rpc' = "store"
       ELSE UNCHANGED <<granted, rpc>>

(* Mutant: strictly more than the threshold is required. *)
GrantAboveThreshold(n, fin) ==
    LET target == Min2(consumed + n + InitialWindow, VarIntMax) IN
    /\ consumed' = consumed + n
    /\ IF n > 0 /\ target > granted /\ target - granted > UpdateThreshold
              /\ ~fin /\ ~stopSent
       THEN granted' = target /\ rpc' = "store"
       ELSE UNCHANGED <<granted, rpc>>

OnBytesConsumed(n, fin) ==
    LET target == Min2(consumed + n + InitialWindow, VarIntMax) IN
    /\ consumed' = consumed + n
    /\ IF n > 0 /\ target > granted /\ target - granted >= UpdateThreshold
              /\ ~fin /\ ~stopSent
       THEN granted' = target /\ rpc' = "store"
       ELSE UNCHANGED <<granted, rpc>>

ReadPending(k) ==
    /\ rpc = "idle" /\ pend[1] < pend[2]
    /\ LET n == Min2(k, pend[2] - pend[1]) IN
       /\ pend' = <<pend[1] + n, pend[2]>>
       /\ OnBytesConsumed(n, rfin)
    /\ UNCHANGED <<rfin, stopSent, sawFin>>
    /\ UNCHANGED <<snd, rst, ses, inb, net>>

ReadEvent(k) ==
    /\ rpc = "idle" /\ pend[1] = pend[2] /\ ~rfin /\ events # <<>>
    /\ LET e == Head(events)
           n == Min2(k, e.hi - e.lo)
       IN  /\ events' = Tail(events)
           /\ rfin' = e.fin /\ sawFin' = (sawFin \/ e.fin)
           /\ pend' = <<e.lo + n, e.hi>>
           /\ OnBytesConsumed(n, e.fin)
    /\ UNCHANGED stopSent
    /\ UNCHANGED <<snd, entry, received, rMax, credit, ses, inb, net>>

ReadClosed ==
    /\ rpc = "idle" /\ pend[1] = pend[2] /\ ~rfin
    /\ events = <<>> /\ ChannelClosed
    /\ rfin' = TRUE
    /\ UNCHANGED <<rpc, pend, consumed, granted, stopSent, sawFin>>
    /\ UNCHANGED <<snd, rst, ses, inb, net>>

StoreMax ==
    /\ rpc = "store"
    /\ rMax' = granted /\ rpc' = "queue"
    /\ UNCHANGED <<pend, consumed, granted, rfin, stopSent, sawFin>>
    /\ UNCHANGED <<snd, entry, received, events, credit, ses, inb, net>>

QueueCredit ==
    /\ rpc = "queue"
    /\ credit' = IF entry = "live" THEN granted ELSE credit
    /\ rpc' = "idle"
    /\ UNCHANGED <<pend, consumed, granted, rfin, stopSent, sawFin>>
    /\ UNCHANGED <<snd, entry, received, rMax, events, ses, inb, net>>

StopRecvStream == entry' = "stopped" /\ credit' = 0

Stop ==
    /\ rpc = "idle" /\ ~stopSent
    /\ stopSent' = TRUE
    /\ \/ /\ entry = "none"
          /\ UNCHANGED <<entry, credit, rpc>>
       \/ /\ entry # "none" /\ StopRecvStream
          /\ rpc' = IF RIsClosed THEN "idle" ELSE "stopSend"
    /\ UNCHANGED <<pend, consumed, granted, rfin, sawFin>>
    /\ UNCHANGED <<snd, received, rMax, events, ses, inb, net>>

PublishStop ==
    /\ rpc = "stopSend"
    /\ \/ RRoom /\ RPush(StopSending)
       \/ rConn = "gone" /\ UNCHANGED net
    /\ rpc' = "idle"
    /\ UNCHANGED <<pend, consumed, granted, rfin, stopSent, sawFin>>
    /\ UNCHANGED <<snd, rst, ses, inb>>

CancelStop ==
    /\ rpc = "stopSend"
    /\ rpc' = "idle" /\ rDown' = TRUE
    /\ UNCHANGED <<pend, consumed, granted, rfin, stopSent, sawFin>>
    /\ UNCHANGED <<snd, rst, sDown, sConn, rConn, broken, inb, net>>

(* Drop for RecvStream: stopFails is whether a StopSending was due and      *)
(* try_send_frame refused it.                                               *)
RecvDropped(stopFails) ==
    LET needsStop == entry # "none" /\ ~rfin /\ ~stopSent IN
    /\ rpc' = "dropped" /\ events' = <<>> /\ pend' = <<0, 0>>
    /\ IF entry # "none" THEN StopRecvStream ELSE UNCHANGED <<entry, credit>>
    /\ stopSent' = (stopSent \/ needsStop)
    /\ stopFails = (needsStop /\ (RIsClosed \/ ~RRoom))
    /\ IF needsStop /\ ~stopFails THEN RPush(StopSending) ELSE UNCHANGED net
    /\ UNCHANGED <<consumed, granted, rfin, sawFin, received, rMax>>
    /\ UNCHANGED <<snd, sDown, sConn, rConn, broken, inb>>

DropRecv ==
    /\ rpc = "idle"
    /\ \E stopFails \in BOOLEAN :
          RecvDropped(stopFails) /\ rDown' = (rDown \/ stopFails)

(* open_bi: the opener awaits a queue slot for MaxStreamData(InitialWindow). *)
(* For a stream the peer opened, the inbound task is the one that waits.    *)
SendInitialCredit ==
    /\ rpc = "opening" /\ RRoom
    /\ RPush(MaxStreamData(InitialWindow))
    /\ rpc' = "idle" /\ rIn' = IF rIn = "credit" THEN "run" ELSE rIn
    /\ UNCHANGED <<pend, consumed, granted, rfin, stopSent, sawFin>>
    /\ UNCHANGED <<snd, rst, ses, sIn, cur, err>>

OpenFails ==
    /\ rpc = "opening" /\ RIsClosed
    /\ rpc' = "dropped" /\ entry' = "none" /\ credit' = 0
    /\ rIn' = IF rIn = "credit" THEN "run" ELSE rIn
    /\ IF rIn = "credit" THEN rConn' = "closed" /\ rDown' = TRUE
                         ELSE UNCHANGED <<rConn, rDown>>
    /\ UNCHANGED <<pend, consumed, granted, rfin, stopSent, sawFin>>
    /\ UNCHANGED <<snd, received, rMax, events, sDown, sConn, broken>>
    /\ UNCHANGED <<sIn, cur, err, net>>

CancelOpen ==
    /\ rpc = "opening" /\ rIn = "run"
    /\ \E stopFails \in BOOLEAN : RecvDropped(stopFails)
    /\ rDown' = TRUE

-----------------------------------------------------------------------------
(* Outbound tasks: queued commands, and at R coalesced credit next to them *)

SWrite ==
    /\ sConn # "gone" /\ sQueue # <<>>
    /\ sWire' = Append(sWire, Head(sQueue)) /\ sQueue' = Tail(sQueue)
    /\ UNCHANGED <<snd, rst, rapp, ses, inb, rQueue, rWire>>

RWrite ==
    /\ rConn # "gone" /\ rQueue # <<>>
    /\ rWire' = Append(rWire, Head(rQueue)) /\ rQueue' = Tail(rQueue)
    /\ UNCHANGED <<snd, rst, rapp, ses, inb, sQueue, sWire>>

(* Mutant: the entry stays in pending_credit. *)
NextCreditKeeps ==
    /\ rConn # "gone" /\ credit > 0
    /\ rWire' = Append(rWire, MaxStreamData(credit))
    /\ credit' = credit
    /\ UNCHANGED <<snd, entry, received, rMax, events>>
    /\ UNCHANGED <<rapp, ses, inb, sQueue, sWire, rQueue>>

(* next_credit: the frame overtakes whatever is still in the queue. *)
NextCredit ==
    /\ rConn # "gone" /\ credit > 0
    /\ rWire' = Append(rWire, MaxStreamData(credit))
    /\ credit' = 0
    /\ UNCHANGED <<snd, entry, received, rMax, events>>
    /\ UNCHANGED <<rapp, ses, inb, sQueue, sWire, rQueue>>

-----------------------------------------------------------------------------
(* Inbound task of S: MaxStreamData, StopSending, ConnectionClose *)

SReads(type) ==
    /\ sConn = "up" /\ sIn = "run"
    /\ rWire # <<>> /\ Head(rWire).t = type
    /\ rWire' = Tail(rWire)
    /\ UNCHANGED <<sQueue, sWire, rQueue>>

UpdateMax(max) == IF flowLive /\ max > maxData THEN max ELSE maxData

HandleMaxStreamData ==
    /\ SReads("max")
    /\ maxData' = UpdateMax(Head(rWire).max)
    /\ UNCHANGED <<flowLive, sentData, finished, wpc, asked, grant, written>>
    /\ UNCHANGED <<resets, rst, rapp, ses, inb>>

(* Mutant: the flow is retired without a RESET. *)
StopWithoutReset ==
    /\ SReads("stop")
    /\ flowLive' = FALSE
    /\ \/ ~flowLive /\ UNCHANGED sIn
       \/ flowLive /\ ~SIsClosed /\ UNCHANGED sIn
       \/ flowLive /\ SIsClosed /\ sIn' = "end"
    /\ UNCHANGED <<maxData, sentData, finished, wpc, asked, grant, written>>
    /\ UNCHANGED <<resets, rst, rapp, ses, rIn, cur, err>>

(* The stream is below S's allocation frontier, so a StopSending for a      *)
(* retired flow is ignored.  When the session is closing send_frame fails   *)
(* and the inbound task ends.                                               *)
HandleStopSending ==
    /\ SReads("stop")
    /\ flowLive' = FALSE
    /\ \/ ~flowLive /\ UNCHANGED sIn
       \/ flowLive /\ ~SIsClosed /\ sIn' = "ack"
       \/ flowLive /\ SIsClosed /\ sIn' = "end"
    /\ UNCHANGED <<maxData, sentData, finished, wpc, asked, grant, written>>
    /\ UNCHANGED <<resets, rst, rapp, ses, rIn, cur, err>>

AckStop ==
    /\ sIn = "ack" /\ SRoom
    /\ SPush(ResetStream)
    /\ sIn' = "run"
    /\ UNCHANGED <<snd, rst, rapp, ses, rIn, cur, err>>

HandleConnectionClose ==
    /\ SReads("close")
    /\ sConn' = "closed" /\ flowLive' = FALSE
    /\ UNCHANGED <<maxData, sentData, finished, wpc, asked, grant, written>>
    /\ UNCHANGED <<resets, rst, rapp, sDown, rDown, rConn, broken, inb>>

-----------------------------------------------------------------------------
(* Inbound task of R: OpenUni/OpenBi, Stream, ResetStream *)

RReads(type) ==
    /\ rConn = "up" /\ rIn = "run"
    /\ sWire # <<>> /\ Head(sWire).t = type
    /\ sWire' = Tail(sWire)

(* protocol_error: try_send of ConnectionClose, then close_all. *)
ProtocolError(reason) ==
    /\ err' = IF rDown THEN err ELSE reason
    /\ rConn' = "closed" /\ entry' = "none" /\ credit' = 0
    /\ rQueue' = IF ~RIsClosed /\ RRoom THEN Append(rQueue, ConnectionClose)
                                        ELSE rQueue

(* The receive state is registered before the initial credit is sent; the   *)
(* inbound task awaits a queue slot for it (SendInitialCredit, OpenFails).  *)
HandleOpen ==
    /\ RReads("open")
    /\ entry' = "live" /\ rMax' = InitialWindow /\ granted' = InitialWindow
    /\ rpc' = "opening" /\ rIn' = "credit"
    /\ UNCHANGED <<snd, received, events, credit, pend, consumed, rfin>>
    /\ UNCHANGED <<stopSent, sawFin, ses, sIn, cur, err, sQueue, rQueue, rWire>>

(* The reason the frame is refused for, or "none".  *)
StreamRefused(len) ==
    IF len > MaxFrame THEN "frame"
    ELSE IF entry = "none" THEN "unknown"
    ELSE IF received + len > rMax THEN "limit" ELSE "none"

(* First lock section of the Stream case: checks and accounting. *)
HandleStream ==
    /\ RReads("stream")
    /\ LET f      == Head(sWire)
           len    == f.hi - f.lo
           reason == StreamRefused(len)
       IN  \/ /\ reason # "none"
              /\ ProtocolError(reason)
              /\ UNCHANGED <<received, rIn, cur>>
           \/ /\ reason = "none" /\ entry = "stopped"
              /\ received' = received + len
              /\ entry' = IF f.fin THEN "none" ELSE entry
              /\ UNCHANGED <<rIn, cur, err, rConn, credit, rQueue>>
           \/ /\ reason = "none" /\ entry = "live"
              /\ received' = received + len
              /\ rIn' = "deliver" /\ cur' = f
              /\ UNCHANGED <<entry, err, rConn, credit, rQueue>>
    /\ UNCHANGED <<snd, rapp, rMax, events, sDown, rDown, sConn, broken>>
    /\ UNCHANGED <<sIn, sQueue, rWire>>

(* try_send of the event, to a channel whose receiver may be gone or full. *)
Deliver ==
    /\ rIn = "deliver" /\ rConn = "up"
    /\ \/ /\ rpc = "dropped"
          /\ rIn' = IF cur.fin THEN "retire" ELSE "run"
          /\ cur' = IF cur.fin THEN cur ELSE Open
          /\ UNCHANGED <<events, err, rConn, entry, credit, rQueue>>
       \/ /\ rpc # "dropped" /\ Len(events) >= RecvEventLen
          /\ ProtocolError("full")
          /\ rIn' = "run" /\ cur' = Open /\ UNCHANGED events
       \/ /\ rpc # "dropped" /\ Len(events) < RecvEventLen
          /\ events' = Append(events, cur)
          /\ rIn' = IF cur.fin THEN "retire" ELSE "run"
          /\ cur' = IF cur.fin THEN cur ELSE Open
          /\ UNCHANGED <<err, rConn, entry, credit, rQueue>>
    /\ UNCHANGED <<snd, rapp, received, rMax, sDown, rDown, sConn, broken>>
    /\ UNCHANGED <<sIn, sQueue, sWire, rWire>>

Retire ==
    /\ rIn = "retire" /\ rConn = "up"
    /\ entry' = "none" /\ rIn' = "run" /\ cur' = Open
    /\ UNCHANGED <<snd, received, rMax, events, credit, rapp, ses>>
    /\ UNCHANGED <<sIn, err, net>>

(* A retired direction is below the frontier: the frame is then ignored. *)
HandleReset ==
    /\ RReads("reset")
    /\ entry' = "none"
    /\ UNCHANGED <<snd, received, rMax, events, credit, rapp, ses, inb>>
    /\ UNCHANGED <<sQueue, rQueue, rWire>>

-----------------------------------------------------------------------------
(* Ends of the sessions *)

(* Dropping the last Session handle, or Session::shutdown. *)
SShutdown ==
    /\ ~SIsClosed /\ sDown' = TRUE
    /\ UNCHANGED <<snd, rst, rapp, rDown, sConn, rConn, broken, inb, net>>

RShutdown ==
    /\ ~RIsClosed /\ rDown' = TRUE
    /\ UNCHANGED <<snd, rst, rapp, sDown, sConn, rConn, broken, inb, net>>

TransportFails ==
    /\ ~broken /\ broken' = TRUE
    /\ UNCHANGED <<snd, rst, rapp, sDown, rDown, sConn, rConn, inb, net>>

(* task_finished of the inbound task: close_all, then cancel. *)
SInboundEnds ==
    /\ sConn = "up" /\ (sDown \/ broken \/ sIn = "end")
    /\ sConn' = "closed" /\ flowLive' = FALSE /\ sIn' = "end"
    /\ UNCHANGED <<maxData, sentData, finished, wpc, asked, grant, written>>
    /\ UNCHANGED <<resets, rst, rapp, sDown, rDown, rConn, broken>>
    /\ UNCHANGED <<rIn, cur, err, net>>

RInboundEnds ==
    /\ rConn = "up" /\ (rDown \/ broken)
    /\ rConn' = "closed" /\ entry' = "none" /\ credit' = 0 /\ rIn' = "run"
    /\ cur' = Open
    /\ UNCHANGED <<snd, received, rMax, events, rapp, sDown, rDown, sConn>>
    /\ UNCHANGED <<broken, sIn, err, net>>

(* task_finished of the outbound task.  Commands still queued are dropped,  *)
(* and so may be any suffix of what the transport had not delivered.        *)
SOutboundEnds ==
    /\ sConn # "gone" /\ (sDown \/ broken \/ sConn = "closed")
    /\ sConn' = "gone" /\ flowLive' = FALSE /\ sIn' = "end" /\ broken' = TRUE
    /\ sQueue' = <<>>
    /\ \E k \in 0..Len(sWire) : sWire' = SubSeq(sWire, 1, k)
    /\ UNCHANGED <<maxData, sentData, finished, wpc, asked, grant, written>>
    /\ UNCHANGED <<resets, rst, rapp, sDown, rDown, rConn, rIn, cur, err>>
    /\ UNCHANGED <<rQueue, rWire>>

ROutboundEnds ==
    /\ rConn # "gone" /\ (rDown \/ broken \/ rConn = "closed")
    /\ rConn' = "gone" /\ entry' = "none" /\ credit' = 0 /\ rIn' = "run"
    /\ broken' = TRUE /\ cur' = Open
    /\ rQueue' = <<>>
    /\ \E k \in 0..Len(rWire) : rWire' = SubSeq(rWire, 1, k)
    /\ UNCHANGED <<snd, received, rMax, events, rapp, sDown, rDown, sConn>>
    /\ UNCHANGED <<sIn, err, sQueue, sWire>>

-----------------------------------------------------------------------------

SendCall   == (\E n \in 1..TotalBytes : WriteBuf(n)) \/ Finish \/ Reset
SendStep   == Reserve \/ Publish \/ Release \/ PublishFin \/ FinRemove
              \/ PublishReset
SendLeave  == CancelSend \/ DropSend
Read       == \/ \E k \in 1..MaxFrame : ReadPending(k) \/ ReadEvent(k)
              \/ ReadClosed
RecvStep   == StoreMax \/ QueueCredit \/ PublishStop \/ SendInitialCredit
              \/ OpenFails
RecvLeave  == Stop \/ CancelStop \/ DropRecv \/ CancelOpen
SInbound   == HandleMaxStreamData \/ HandleStopSending \/ AckStop
              \/ HandleConnectionClose
RInbound   == HandleOpen \/ HandleStream \/ Deliver \/ Retire \/ HandleReset
SEnds      == SInboundEnds \/ SOutboundEnds
REnds      == RInboundEnds \/ ROutboundEnds

(* The session tasks of the two endpoints. *)
TaskStep ==
    \/ SWrite \/ RWrite \/ NextCredit
    \/ SInbound \/ RInbound \/ SEnds \/ REnds

Next ==
    \/ TaskStep
    \/ SendCall \/ SendStep \/ SendLeave
    \/ Read \/ RecvStep \/ RecvLeave
    \/ SShutdown \/ RShutdown \/ TransportFails

Spec == Init /\ [][Next]_vars

(* The runtime polls the session tasks and the futures of calls in          *)
(* progress, and the application that holds the RecvStream keeps reading.   *)
(* Nothing is assumed of new calls, cancellations, drops, shutdowns or      *)
(* transport failures.                                                      *)
Fairness ==
    /\ WF_vars(TaskStep)
    /\ WF_vars(SendStep)
    /\ WF_vars(Read \/ RecvStep)

LiveSpec == Spec /\ Fairness

-----------------------------------------------------------------------------
(* Properties *)

(* Every variable keeps its type; sent_data, from which SendFlowState::      *)
(* release subtracts what failed sends had reserved, stays a natural number. *)
TypeOK ==
    /\ flowLive \in BOOLEAN /\ finished \in BOOLEAN
    /\ maxData \in Nat /\ sentData \in Nat /\ asked \in Nat /\ grant \in Nat
    /\ written \in Nat /\ resets \in Nat
    /\ wpc \in {"idle", "reserve", "send", "finSend", "finRemove", "rstSend",
                "dropped"}
    /\ entry \in {"none", "live", "stopped"}
    /\ received \in Nat /\ rMax \in Nat /\ credit \in Nat
    /\ events \in Seq(Frame) /\ cur \in Frame
    /\ rpc \in {"none", "opening", "idle", "store", "queue", "stopSend",
                "dropped"}
    /\ pend \in Nat \X Nat /\ consumed \in Nat /\ granted \in Nat
    /\ rfin \in BOOLEAN /\ stopSent \in BOOLEAN /\ sawFin \in BOOLEAN
    /\ sDown \in BOOLEAN /\ rDown \in BOOLEAN /\ broken \in BOOLEAN
    /\ sConn \in {"up", "closed", "gone"} /\ rConn \in {"up", "closed", "gone"}
    /\ sIn \in {"run", "ack", "end"}
    /\ rIn \in {"run", "credit", "deliver", "retire"}
    /\ err \in {"none", "frame", "unknown", "limit", "full"}
    /\ sQueue \in Seq(Frame) /\ sWire \in Seq(Frame)
    /\ rQueue \in Seq(Ctl) /\ rWire \in Seq(Ctl)

(* Two endpoints that both run this code never tear the session down for a  *)
(* flow-control, frame-size or unknown-stream violation: the refusals of    *)
(* the Stream case of handle_frame are for other implementations, or for    *)
(* peers whose frame limits do not meet LimitsAssumption.                   *)
NoSpuriousError == err \in {"none", "full"}

(* What the window is for: the bytes R has accepted, or has promised to     *)
(* accept, and the application has not consumed never exceed                *)
(* initial_stream_window, in whatever order updates, reads and frames come. *)
WindowBound == received <= rMax /\ rMax <= consumed + InitialWindow

(* mux-protocol.md, Flow control: "Values MUST be monotonic."  The initial  *)
(* credit goes through the queue, the later ones next to it.                *)
CreditMonotonic ==
    LET ctl == rWire \o rQueue IN
    \A i \in 1..Len(ctl) : ctl[i].t = "max" =>
       /\ maxData < ctl[i].max
       /\ \A j \in i + 1..Len(ctl) : ctl[j].t = "max" => ctl[i].max < ctl[j].max

(* mux-protocol.md: stream data "MUST NOT be sent after FIN or reset",      *)
(* with finish, reset, StopSending replies and drops racing writes.         *)
NoDataAfterTerminal ==
    LET out == sWire \o sQueue IN
    \A i, j \in 1..Len(out) :
       i < j /\ (out[i].t = "reset" \/ out[i].fin) => out[j].t # "stream"

(* The abstract pipe, seen through this state.  The position of the next   *)
(* byte is that of the first one the reader holds, then of the first one    *)
(* in its channel; what follows those is what has not arrived yet.          *)
NextByte ==
    IF rpc \in {"none", "dropped"} THEN consumed
    ELSE IF pend[1] < pend[2] THEN pend[1]
    ELSE IF events # <<>> THEN events[1].lo ELSE consumed

ToldEnd == IF sawFin THEN "complete"
           ELSE IF rfin \/ rpc = "dropped" THEN "cut" ELSE "open"

Pipe == INSTANCE ByteStream WITH
    put <- asked, closed <- finished,
    got <- consumed, at <- NextByte, end <- ToldEnd

(* write_buf and read through two sessions are a pipe: nothing is lost,     *)
(* repeated or reordered whatever chunks, reads and races there are, and a  *)
(* FIN is the promise that every byte passed to write_buf has been read,    *)
(* cancelled, failed and refused writes included.                           *)
IsByteStream == Pipe!Spec

(* The liveness properties are stated as "infinitely often not": a call in  *)
(* progress, a stopped entry or an end nobody has read never lasts for      *)
(* ever.  As flowLive and rfin change once, that is "leads to".             *)

(* A call of SendStream in progress ends, whatever the peer, the reader and *)
(* the session do meanwhile: no credit update is lost and every path that   *)
(* retires the flow also releases a writer that waits for credit.           *)
WriterResolves == []<>(wpc \in {"idle", "dropped"})

(* The accounting kept for a stopped receive direction is released.         *)
StoppedIsReleased == []<>(entry # "stopped")

(* When the send side is over (FIN, reset, drop, StopSending, session end)  *)
(* a reader that keeps reading sees the end of the stream.                  *)
EndReachesReader == []<>(flowLive \/ rfin \/ rpc \in {"none", "dropped"})

=============================================================================
