-------------------------- MODULE BrowserConnection --------------------------
(***************************************************************************)
(* A connection of websock-wasm over the browser's WebSocket: connect      *)
(* (connection.rs), the callbacks that feed the message channel, the whole *)
(* Connection and its split halves (stream.rs).                            *)
(*                                                                         *)
(* The code runs on one thread: a callback or a poll is one step, and the  *)
(* browser fires its events between them.  The browser is external: it     *)
(* fires open or error, then messages while the socket is OPEN, then at    *)
(* most one error and one close; in CLOSING it discards messages.  The     *)
(* future of connect is resumed before the next event (a microtask), but   *)
(* may be dropped instead.                                                 *)
(*                                                                         *)
(* An item of the channel is the number of a message, Failed for an error  *)
(* or Closed for Error::Closed.  The callbacks onmessage, onerror and      *)
(* onclose each own a sender; a sender may exceed the buffer by one item   *)
(* and is then parked until the receiver has made room (futures mpsc).     *)
(***************************************************************************)
EXTENDS Integers, Sequences

CONSTANTS
    Buffer,         \* buffer of the message channel (64)
    MaxWriteBuffer, \* Limits.max_write_buffer_size, in messages
    MaxMessages     \* bound: messages the server sends

ASSUME BufferAssumption ==
    Buffer \in Nat /\ MaxWriteBuffer \in Nat /\ MaxMessages \in Nat

VARIABLES
    phase,     \* connecting, opened, failed, whole, split, done
    sock,      \* readyState
    lost,      \* error was fired and close comes next
    attached,  \* whose callbacks the socket holds: none, wait or conn
    alive,     \* the callbacks whose closures exist
    chan,      \* the items in the channel
    parked,    \* the senders waiting for room, first come first
    chanOpen,  \* close_channel has not run
    rx,        \* the receiver exists
    op,        \* Connection::close is draining the channel, or idle
    buffered,  \* bufferedAmount
    sink,      \* none, open, closed, dropped
    refs,      \* ref_count of the split halves
    got,       \* items taken from the channel, by the application or close
    fired,     \* messages the browser has handed to onmessage
    asked,     \* history: the application has asked for the close
    cut,       \* history: onmessage has closed channel and socket
    closedOk   \* history: Connection::close has returned Ok

socket  == <<sock, lost>>
calls   == <<attached, alive>>
channel == <<chan, parked, chanOpen, rx>>
halves  == <<sink, refs>>
app     == <<got, asked, closedOk>>
vars    == <<phase, socket, calls, channel, op, buffered, halves, app, fired, cut>>

Failed == 0
Closed == -1

Init ==
    /\ phase = "connecting" /\ sock = "CONNECTING" /\ lost = FALSE
    /\ attached = "wait" /\ alive = {"wait"}
    /\ chan = <<>> /\ parked = <<>> /\ chanOpen = TRUE /\ rx = TRUE
    /\ op = "idle" /\ buffered = 0 /\ sink = "none" /\ refs = 0
    /\ got = <<>> /\ fired = 0
    /\ asked = FALSE /\ cut = FALSE /\ closedOk = FALSE

(* ws.close(), which has no effect on a socket that closes or has closed. *)
Closing == IF sock \in {"CONNECTING", "OPEN"} THEN "CLOSING" ELSE sock

-----------------------------------------------------------------------------
(* futures_channel::mpsc, as the callbacks use it *)

CanSend(s) == chanOpen /\ rx /\ \A i \in 1..Len(parked) : parked[i] # s

TrySend(s, item) ==
    /\ chan' = Append(chan, item)
    /\ parked' = IF Len(chan') > Buffer THEN Append(parked, s) ELSE parked

(* Each item taken wakes the sender parked first. *)
Take ==
    /\ rx /\ chan # <<>>
    /\ chan' = Tail(chan)
    /\ parked' = IF parked = <<>> THEN parked ELSE Tail(parked)
    /\ UNCHANGED chanOpen

ReceiverDropped == rx' = FALSE /\ chan' = <<>> /\ parked' = <<>>

-----------------------------------------------------------------------------
(* connect_socket *)

OpenEvent ==
    /\ phase = "connecting" /\ phase' = "opened" /\ sock' = "OPEN"
    /\ UNCHANGED <<lost, calls, channel, op, buffered, halves, app, fired, cut>>

(* onerror, or onclose of the waiting callbacks. *)
ConnectFails ==
    /\ phase = "connecting" /\ phase' = "failed" /\ sock' = "CLOSED"
    /\ UNCHANGED <<lost, calls, channel, op, buffered, halves, app, fired, cut>>

(* The future resumes: the waiting callbacks are detached and dropped.  An  *)
(* error leaves through the guard, which closes the socket.                 *)
Connected ==
    /\ phase \in {"opened", "failed"}
    /\ IF phase = "opened"
       THEN /\ phase' = "whole" /\ attached' = "conn" /\ alive' = {"conn"}
            /\ UNCHANGED <<sock, channel>>
       ELSE /\ phase' = "done" /\ attached' = "none" /\ alive' = {}
            /\ sock' = Closing /\ ReceiverDropped /\ UNCHANGED chanOpen
    /\ UNCHANGED <<lost, op, buffered, halves, app, fired, cut>>

(* Mutant: no guard, the future's closures are simply dropped. *)
CancelUnguarded ==
    /\ phase \in {"connecting", "opened", "failed"} /\ phase' = "done"
    /\ alive' = {} /\ ReceiverDropped
    /\ UNCHANGED <<chanOpen, attached, sock, lost, op, buffered, halves>>
    /\ UNCHANGED <<app, fired, cut>>

(* ConnectingGuard: the future is dropped before it has finished. *)
CancelConnect ==
    /\ phase \in {"connecting", "opened", "failed"} /\ phase' = "done"
    /\ attached' = "none" /\ alive' = {} /\ sock' = Closing
    /\ ReceiverDropped
    /\ UNCHANGED <<chanOpen, lost, op, buffered, halves, app, fired, cut>>

-----------------------------------------------------------------------------
(* Events of the open socket *)

(* Mutant: a message that does not fit is dropped. *)
MessageDropped(valid) ==
    /\ sock = "OPEN" /\ phase \in {"whole", "split"} /\ attached = "conn"
    /\ fired < MaxMessages /\ fired' = fired + 1
    /\ IF CanSend("msg") THEN TrySend("msg", IF valid THEN fired' ELSE Failed)
                         ELSE UNCHANGED <<chan, parked>>
    /\ IF valid THEN UNCHANGED <<chanOpen, cut, sock>>
                ELSE chanOpen' = FALSE /\ cut' = TRUE /\ sock' = "CLOSING"
    /\ UNCHANGED <<phase, lost, calls, rx, op, buffered, halves, app>>

(* onmessage: a message of another type or above max_message_size, and one  *)
(* that does not fit into the channel, end the connection.                  *)
OnMessage(valid) ==
    /\ sock = "OPEN" /\ phase \in {"whole", "split"} /\ attached = "conn"
    /\ fired < MaxMessages /\ fired' = fired + 1
    /\ IF CanSend("msg") THEN TrySend("msg", IF valid THEN fired' ELSE Failed)
                         ELSE UNCHANGED <<chan, parked>>
    /\ IF valid /\ CanSend("msg")
       THEN UNCHANGED <<chanOpen, cut, sock>>
       ELSE chanOpen' = FALSE /\ cut' = TRUE /\ sock' = "CLOSING"
    /\ UNCHANGED <<phase, lost, calls, rx, op, buffered, halves, app>>

(* The connection fails: readyState is CLOSED when error is fired. *)
OnError ==
    /\ sock \in {"OPEN", "CLOSING"} /\ phase \notin {"opened", "failed"}
    /\ sock' = "CLOSED" /\ lost' = TRUE
    /\ IF attached = "conn" /\ CanSend("err")
       THEN TrySend("err", Failed) /\ UNCHANGED chanOpen
       ELSE /\ chanOpen' = (chanOpen /\ attached # "conn")
            /\ UNCHANGED <<chan, parked>>
    /\ UNCHANGED <<phase, calls, rx, op, buffered, halves, app, fired, cut>>

(* Mutant: the end is recorded, but not reported. *)
OnCloseSilent ==
    /\ lost \/ sock \in {"OPEN", "CLOSING"}
    /\ phase \notin {"opened", "failed"}
    /\ sock' = "CLOSED" /\ lost' = FALSE
    /\ UNCHANGED <<phase, calls, channel, op, buffered, halves, app, fired, cut>>

(* onclose: the server closed, our close was answered, or error came first. *)
OnClose ==
    /\ lost \/ sock \in {"OPEN", "CLOSING"}
    /\ phase \notin {"opened", "failed"}
    /\ sock' = "CLOSED" /\ lost' = FALSE
    /\ IF attached = "conn" /\ CanSend("close")
       THEN TrySend("close", Closed) ELSE UNCHANGED <<chan, parked>>
    /\ chanOpen' = (chanOpen /\ attached # "conn")
    /\ UNCHANGED <<phase, calls, rx, op, buffered, halves, app, fired, cut>>

Drained ==
    /\ buffered > 0 /\ sock = "OPEN" /\ buffered' = buffered - 1
    /\ UNCHANGED <<phase, socket, calls, channel, op, halves, app, fired, cut>>

-----------------------------------------------------------------------------
(* Connection *)

Whole == phase = "whole" /\ op = "idle"

(* check_send_capacity, for a message of one unit. *)
HasCapacity == buffered + 1 <= MaxWriteBuffer

(* Connection::send and ConnectionSink::start_send.                         *)
(* In CLOSING and CLOSED the browser counts the bytes and sends nothing.    *)
Send ==
    /\ Whole \/ (phase = "split" /\ sink = "open")
    /\ HasCapacity /\ buffered' = buffered + 1
    /\ UNCHANGED <<phase, socket, calls, channel, op, halves, app, fired, cut>>

(* Connection::recv and ConnectionStream::poll_next. *)
Recv ==
    /\ Whole \/ phase = "split"
    /\ Take /\ got' = Append(got, Head(chan))
    /\ UNCHANGED <<rx, phase, socket, calls, op, buffered, halves, asked>>
    /\ UNCHANGED <<closedOk, fired, cut>>

CloseReturns(ok) ==
    /\ op' = "idle" /\ closedOk' = (closedOk \/ ok)
    /\ ReceiverDropped /\ UNCHANGED chanOpen

(* Mutant: the close event is not awaited. *)
CloseAtOnce ==
    /\ Whole
    /\ asked' = TRUE /\ sock' = Closing /\ CloseReturns(TRUE)
    /\ UNCHANGED <<phase, lost, calls, buffered, halves, got, fired, cut>>

CloseWhole ==
    /\ Whole
    /\ asked' = TRUE /\ sock' = Closing
    /\ IF sock = "CLOSED" THEN CloseReturns(TRUE)
       ELSE op' = "closing" /\ UNCHANGED <<channel, closedOk>>
    /\ UNCHANGED <<phase, lost, calls, buffered, halves, got, fired, cut>>

(* The loop of close: messages are discarded until the channel ends. *)
CloseDrains ==
    /\ op = "closing"
    /\ \/ /\ ~rx \/ (chan = <<>> /\ ~chanOpen)
          /\ CloseReturns(TRUE)
       \/ /\ rx /\ chan # <<>> /\ Head(chan) = Closed
          /\ CloseReturns(TRUE)
       \/ /\ rx /\ chan # <<>> /\ Head(chan) = Failed
          /\ CloseReturns(FALSE)
       \/ /\ rx /\ chan # <<>> /\ Head(chan) > 0
          /\ Take /\ UNCHANGED <<rx, op, closedOk>>
    /\ got' = IF op' = "closing" THEN Append(got, Head(chan)) ELSE got
    /\ UNCHANGED <<phase, socket, calls, buffered, halves, asked, fired, cut>>

CancelClose ==
    /\ op = "closing" /\ op' = "idle"
    /\ UNCHANGED <<phase, socket, calls, channel, buffered, halves, app, fired, cut>>

(* Drop for Connection, the only owner of the socket. *)
DropConnection ==
    /\ Whole /\ phase' = "done"
    /\ attached' = "none" /\ alive' = {} /\ sock' = Closing
    /\ ReceiverDropped
    /\ UNCHANGED <<chanOpen, lost, op, buffered, halves, app, fired, cut>>

(* split panics unless the receiver is still there.  The Connection it      *)
(* consumed is dropped while the halves hold the socket: nothing happens.   *)
Split ==
    /\ Whole /\ rx /\ phase' = "split" /\ sink' = "open" /\ refs' = 2
    /\ UNCHANGED <<socket, calls, channel, op, buffered, app, fired, cut>>

-----------------------------------------------------------------------------
(* The split halves; the stream half owns receiver and closures *)

StreamLive == phase = "split" /\ rx

PollClose ==
    /\ phase = "split" /\ sink = "open"
    /\ sink' = "closed" /\ sock' = Closing /\ asked' = TRUE
    /\ UNCHANGED <<phase, lost, calls, channel, op, buffered, refs, got>>
    /\ UNCHANGED <<closedOk, fired, cut>>

Release == refs' = refs - 1 /\ phase' = IF refs = 1 THEN "done" ELSE phase

(* Mutant: the other half is not looked at. *)
DropSinkCloses ==
    /\ phase = "split" /\ sink \in {"open", "closed"}
    /\ Release /\ sink' = "dropped"
    /\ sock' = IF sink = "open" THEN Closing ELSE sock
    /\ UNCHANGED <<lost, calls, channel, op, buffered, app, fired, cut>>

DropSink ==
    /\ phase = "split" /\ sink \in {"open", "closed"}
    /\ Release /\ sink' = "dropped"
    /\ sock' = IF refs = 1 /\ sink = "open" THEN Closing ELSE sock
    /\ UNCHANGED <<lost, calls, channel, op, buffered, app, fired, cut>>

DropStream ==
    /\ StreamLive /\ Release
    /\ attached' = "none" /\ alive' = {} /\ ReceiverDropped
    /\ sock' = IF refs = 1 THEN Closing ELSE sock
    /\ UNCHANGED <<chanOpen, lost, op, buffered, sink, app, fired, cut>>

-----------------------------------------------------------------------------

Browser ==
    \/ OpenEvent \/ ConnectFails \/ Connected
    \/ OnMessage(TRUE) \/ OnMessage(FALSE) \/ OnError \/ OnClose \/ Drained

User ==
    \/ CancelConnect \/ Send \/ Recv
    \/ CloseWhole \/ CloseDrains \/ CancelClose \/ DropConnection
    \/ Split \/ PollClose \/ DropSink \/ DropStream

Next == Browser \/ User

(* The browser ends a closing handshake, by itself if the server does not,  *)
(* and the application polls the call of close it has made.                 *)
Spec ==
    /\ Init /\ [][Next]_vars
    /\ WF_vars(sock = "CLOSING" /\ OnClose) /\ WF_vars(lost /\ OnClose)
    /\ WF_vars(CloseDrains)

-----------------------------------------------------------------------------
(* Properties *)

(* The browser never holds a callback whose Rust closure has been dropped,  *)
(* however connect was cancelled and in whatever order handles went away.   *)
NoDanglingCallback == attached # "none" => attached \in alive

(* The channel hands on the server's messages in order and without a gap:   *)
(* an overflow, an oversized message or an error ends the sequence and      *)
(* nothing follows it; an explicit Error::Closed item comes after every     *)
(* message the browser delivered.                                           *)
NoGap ==
    LET all == got \o chan IN
    \A i \in 1..Len(all) :
       \/ all[i] = i
       \/ all[i] = Failed /\ \A j \in i + 1..Len(all) : all[j] \in {Failed, Closed}
       \/ /\ all[i] = Closed /\ i = Len(all)
          /\ \A n \in 1..fired : \E j \in 1..i : all[j] = n

(* A socket nobody owns is closed; one that is owned, by the Connection or  *)
(* by either half, is closed only by the application's request, by the      *)
(* limits of onmessage or by the other side.                                *)
SocketFollowsOwner ==
    /\ phase = "done" => sock \in {"CLOSING", "CLOSED"}
    /\ sock = "CLOSING" => phase = "done" \/ asked \/ cut

(* When Connection::close returns Ok the socket is CLOSED, unless onmessage *)
(* had cut the channel, whose end close takes for the close event.          *)
CloseMeansClosed == closedOk => sock = "CLOSED" \/ cut

(* connection.rs: "Close the WebSocket connection and wait for the browser  *)
(* close event": close returns Ok only for a socket that is CLOSED, whatever *)
(* ended the channel it drains.                                             *)
CloseAwaitsEvent == closedOk => sock = "CLOSED"

(* A call of Connection::close does not wait for ever.                      *)
CloseResolves == []<>(op = "idle")

=============================================================================
